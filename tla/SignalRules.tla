----------------------------- MODULE SignalRules -----------------------------
(***************************************************************************)
(* What the signals stage decides, on RSI values: the trend walked over the*)
(* weekly RSI, the rule on the daily RSI, the active parameters, and which *)
(* rows a run writes.  (SignalPipeline has where the values come from.)    *)
(*                                                                         *)
(* The features are the ones the pipeline computes, of one RSI period.  The*)
(* parameters say of which period the stage reads them, the launch says of *)
(* which they are computed; a promotion may come between any two runs.     *)
(***************************************************************************)
EXTENDS Integers

CONSTANTS
    LastDay,         \* bound: the number of days
    DaysPerWeek,     \* days in a week
    Lookback,        \* days the launch looks back
    DailyRsi,        \* RSI values of days
    WeeklyRsi,       \* RSI values of weeks
    Params,          \* strategy_rsi_daily_week: the parameters of each version
    PipelinePeriod,  \* --rsi_period: the period the features are computed with
    MaxPromotions,   \* bound: promotions
    Null,            \* the value of a warm-up row
    NoRow,           \* no row for this key
    Env              \* "late": features late; "abandon": a run dies before its signals;
                     \* "backfill"; "promote"

VARIABLES
    today,         \* the last day the features are computed for
    daily,         \* rsi_features, 1d, warm-up rows left out
    weekly,        \* rsi_features, 1w
    active,        \* the active version
    fact_signals,
    ds,            \* the day of the last run that reached the signals stage
    promotions     \* promotions so far

features == <<today, daily, weekly>>
params == <<active, promotions>>
vars == <<features, params, fact_signals, ds>>

Days == 1 .. LastDay
Monday(d) == d - ((d - 1) % DaysPerWeek)
Weeks == {Monday(d) : d \in Days}
Versions == DOMAIN Params
ParamsRow == [period : Nat, trend_start : Int, trend_end : Int,
              oversold : Int, overbought : Int]
Signal == [signal : {"BUY", "SELL", "NEUTRAL"}, in_trend : BOOLEAN,
           version : Versions]

\* The bounds of the trend are a window (seeded with 40 and 70).
ASSUME RulesAssumption ==
    /\ LastDay \in Nat \ {0} /\ DaysPerWeek \in Nat \ {0} /\ Lookback \in Nat
    /\ DailyRsi \subseteq Int /\ WeeklyRsi \subseteq Int /\ MaxPromotions \in Nat
    /\ Params \in [Versions -> ParamsRow] /\ 1 \in Versions
    /\ \A v \in Versions : Params[v].trend_start < Params[v].trend_end
    /\ PipelinePeriod \in Nat
    /\ Null \notin WeeklyRsi
    /\ NoRow \notin DailyRsi \cup WeeklyRsi \cup {Null} \cup Signal

HasRow(table) == {k \in DOMAIN table : table[k] # NoRow}

Init ==
    /\ today = 0
    /\ daily = [d \in Days |-> NoRow] /\ weekly = [w \in Weeks |-> NoRow]
    /\ active = 1
    /\ fact_signals = [d \in Days |-> NoRow]
    /\ ds = 0 /\ promotions = 0

(***************************************************************************)
(* The stages before: RSI rows of days after the last row, and of the weeks*)
(* of these days.  A week's row is of its first day, and not touched again.*)
(***************************************************************************)
NewDays ==
    {d \in 1 .. today' : d = today' \/ "late" \in Env} \ 
        {d \in Days : \E e \in HasRow(daily) : d <= e}

NextDay ==
    /\ today < LastDay
    /\ ds = today \/ "abandon" \in Env
    /\ today' = today + 1
    /\ \E new \in SUBSET NewDays :
         LET weeks == {Monday(d) : d \in new} \ HasRow(weekly)
         IN  /\ \E r \in [new -> DailyRsi] :
                  daily' = [d \in Days |-> IF d \in new THEN r[d] ELSE daily[d]]
             /\ \E r \in [weeks -> WeeklyRsi \cup {Null}] :
                  weekly' = [w \in Weeks |-> IF w \in weeks THEN r[w] ELSE weekly[w]]
             \* The warm-up rows come first.
             /\ \A w, o \in HasRow(weekly)' : o < w /\ weekly'[w] = Null => weekly'[o] = Null
    /\ UNCHANGED <<params, fact_signals, ds>>

\* The atomic flip of the active row.
Promote(v) ==
    /\ "promote" \in Env
    /\ promotions < MaxPromotions
    /\ v # active
    /\ active' = v /\ promotions' = promotions + 1
    /\ UNCHANGED <<features, fact_signals, ds>>

(***************************************************************************)
(* The trend.  The RSI of the week before opens or closes it.              *)
(***************************************************************************)
PublishedWeeks == {w \in HasRow(weekly) : weekly[w] # Null}

Flip(p, in, rsi) ==
    IF ~ in /\ rsi <= p.trend_start THEN TRUE
    ELSE IF in /\ rsi >= p.trend_end THEN FALSE
    ELSE in

LastOf(weeks) == CHOOSE w \in weeks : \A o \in weeks : o <= w

TrendStates(p) ==
    LET state[w \in Weeks] ==
            LET before == {o \in PublishedWeeks : o < w}
            IN  IF before = {} THEN FALSE
                ELSE Flip(p, state[LastOf(before)], weekly[LastOf(before)])
    IN  state

\* Mutants: the week's own RSI counts; the newest week's state for every day.
TrendForOwn(p, d) ==
    LET known == {w \in PublishedWeeks : w <= Monday(d)}
    IN  IF known = {} THEN FALSE
        ELSE Flip(p, TrendStates(p)[LastOf(known)], weekly[LastOf(known)])
TrendForNewest(p, d) ==
    IF PublishedWeeks = {} THEN FALSE ELSE TrendStates(p)[LastOf(PublishedWeeks)]

\* The state of the day's week, or of the latest one known before it.
TrendFor(p, d) ==
    LET known == {w \in PublishedWeeks : w <= Monday(d)}
    IN  IF known = {} THEN FALSE ELSE TrendStates(p)[LastOf(known)]

(***************************************************************************)
(* The rule and the stage.                                                 *)
(***************************************************************************)
\* Mutant: no signal where no rule applies.
ApplyRules(p, rsi, in_trend) ==
    IF in_trend /\ rsi < p.oversold THEN "BUY"
    ELSE IF rsi > p.overbought THEN "SELL"
    ELSE NoRow

ApplySignal(p, rsi, in_trend) ==
    IF in_trend /\ rsi < p.oversold THEN "BUY"
    ELSE IF rsi > p.overbought THEN "SELL"
    ELSE "NEUTRAL"

SignalRow(v, d) ==
    LET in_trend == TrendFor(Params[v], d)
    IN  [signal |-> ApplySignal(Params[v], daily[d], in_trend),
         in_trend |-> in_trend,
         version |-> v]

\* The stage reads the features of the active period: none, if it is not the one the
\* pipeline computes.
Read(first, last) ==
    {d \in HasRow(daily) : d \in first .. last /\ Params[active].period = PipelinePeriod}

Signals(first, last) ==
    /\ fact_signals' = [d \in Days |-> IF d \in Read(first, last)
                                     THEN SignalRow(active, d) ELSE fact_signals[d]]
    /\ UNCHANGED <<features, params>>

DailyRun ==
    /\ ds < today
    /\ Signals(today - Lookback, today)
    /\ ds' = today

\* A run by hand, between the daily ones; it computes no features that they do not.
Backfill(first, last) ==
    /\ "backfill" \in Env
    /\ first <= last /\ last <= today
    /\ ds = today
    /\ Signals(first, last)
    /\ UNCHANGED ds

Next ==
    \/ NextDay
    \/ \E v \in Versions : Promote(v)
    \/ DailyRun
    \/ \E first, last \in Days : Backfill(first, last)

Spec == Init /\ [][Next]_vars
-----------------------------------------------------------------------------
\* Every variable keeps its type.
TypeOK ==
    /\ today \in 0 .. LastDay /\ ds \in 0 .. today
    /\ daily \in [Days -> DailyRsi \cup {NoRow}]
    /\ weekly \in [Weeks -> WeeklyRsi \cup {Null, NoRow}]
    /\ active \in Versions /\ promotions \in 0 .. MaxPromotions
    /\ fact_signals \in [Days -> Signal \cup {NoRow}]

\* The trend without the walk: it was opened before the day's week, and not closed
\* since.
Opened(p, d) ==
    LET before == {w \in PublishedWeeks :
                     w < Monday(d) /\ \E own \in PublishedWeeks : w < own /\ own <= Monday(d)}
    IN  \E o \in before :
          /\ weekly[o] <= p.trend_start
          /\ \A q \in before : o < q => weekly[q] < p.trend_end

\* Every stored signal stands on the parameters it was written with and on weeks
\* before its own: nothing is bought after the trend has closed, before a weekly RSI
\* opens it again; outside of it, and only on the day's own RSI, one may sell.
StandsOnItsTrend ==
    \A d \in HasRow(fact_signals) :
        LET p == Params[fact_signals[d].version]
            s == fact_signals[d].signal
        IN  /\ s = "BUY" <=> Opened(p, d) /\ daily[d] < p.oversold
            /\ s = "SELL" => daily[d] > p.overbought

\* One run over the whole history gives the rows that daily runs, back-fills and
\* promotions have left, each with its version's parameters: whatever has been
\* computed since, the trend of a past week does not change.
BackfillAgrees ==
    \A d \in HasRow(fact_signals) :
        fact_signals[d] = SignalRow(fact_signals[d].version, d)
=============================================================================
