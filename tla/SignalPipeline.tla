--------------------------- MODULE SignalPipeline ---------------------------
(***************************************************************************)
(* The daily medallion pipeline of strategy 1 (one symbol, BTCUSD):        *)
(*                                                                         *)
(*   exchange --ingest--> bronze --conform--> ohlcv (1d, then 1w)          *)
(*            --rsi--> rsi_features (1d, then 1w) --signals--> fact_signals*)
(*                                                                         *)
(* run by the Airflow DAG once a day over [ds - Lookback, ds], or by hand: *)
(* the candle ingest and the pipeline are two commands, the pipeline takes *)
(* a range (a back-fill) and may be told to run one stage only, and the    *)
(* cleanup utility deletes rows between runs.                              *)
(*                                                                         *)
(* Every table is a function of its MERGE key (the candle's day; a weekly  *)
(* candle is keyed by its Monday) to a row or NoRow.  A price is an opaque *)
(* element of Close.  The recursive state of an RSI row (avg_gain,         *)
(* avg_loss) is a function of the candles folded into it, so a row carries *)
(* that provenance (hist: the closes folded, by day) instead of two floats:*)
(* two rows hold the same RSI iff they folded the same candles, up to      *)
(* coincidences of the arithmetic.  A signal carries the provenance of the *)
(* daily RSI and of the weekly RSI rows its trend state was walked over.   *)
(***************************************************************************)
EXTENDS Integers, FiniteSets

CONSTANTS
    LastDay,      \* bound: the model's calendar is the days 1..LastDay
    DaysPerWeek,  \* 7 in the code; day 1 is a Monday
    Lookback,     \* CANDLE_LOOKBACK_DAYS
    RsiPeriod,    \* rsi_period of the active strategy parameters
    MaxRetries,   \* re-launches of the launch_dataflow task (1 in the DAG)
    Close,        \* closing prices
    NoRow,        \* the key has no row
    Env           \* which disturbances the environment may cause, see below

(***************************************************************************)
(* late     a candle may be published after its day                        *)
(* revise   the exchange may change a candle it already published          *)
(* outage   the scheduler may miss days (catchup is off)                   *)
(* ingest   an operator may ingest any range by hand, at any time          *)
(* backfill an operator may run the pipeline over any range                *)
(* stages   an operator may run one stage of it alone                      *)
(* cleanup  an operator may run the cleanup utility                        *)
(* abandon  every attempt of a run may fail                                *)
(***************************************************************************)
Disturbances ==
    {"late", "revise", "outage", "ingest", "backfill", "stages", "cleanup",
     "abandon"}

ASSUME PipelineAssumption ==
    /\ LastDay \in Nat \ {0}
    /\ DaysPerWeek \in Nat \ {0}
    /\ Lookback \in Nat
    /\ RsiPeriod \in Nat \ {0}
    /\ MaxRetries \in Nat
    /\ NoRow \notin Close
    /\ Env \subseteq Disturbances

VARIABLES
    today,        \* the last day whose candle has closed
    exchange,     \* what the exchange serves for each day
    bronze,       \* binance_btcusd_daily_raw
    ohlcv,        \* ohlcv_validated, per temporality
    rsi,          \* rsi_features, per temporality
    fact_signals, \* fact_signals of strategy 1
    ds,           \* logical date of the last DAG run
    stage,        \* the stage the current run executes next
    only,         \* --stage of the current run
    start, end,   \* the range of the current run
    tries         \* re-launches made by the current run

source == <<today, exchange>>
tables == <<bronze, ohlcv, rsi, fact_signals>>
run == <<stage, only, start, end, tries>>
vars == <<source, tables, ds, run>>

Days == 1 .. LastDay
Temporalities == {"1d", "1w"}
Stages == {"idle", "conform", "rsi1d", "rsi1w", "signals"}
StageArgs == {"all", "conform", "rsi", "signals"}

Candles == [Days -> Close \cup {NoRow}]
RsiRow == [hist : Candles, null : BOOLEAN]
Signal == [daily : Candles, trend : [Days -> Candles \cup {NoRow}]]

ASSUME RowAssumption == NoRow \notin RsiRow /\ NoRow \notin Signal

\* _week_start and DATE_TRUNC(d, WEEK(MONDAY)).
Monday(d) == d - ((d - 1) % DaysPerWeek)

\* MERGE of a batch into a table, on the key: update or insert, never delete.
Merge(table, batch) ==
    [d \in Days |-> IF batch[d] # NoRow THEN batch[d] ELSE table[d]]

\* The rows of a table whose key lies in a range.
Within(table, first, last) ==
    [d \in Days |-> IF first <= d /\ d <= last THEN table[d] ELSE NoRow]

NoRows == [d \in Days |-> NoRow]
HasRow(table) == {d \in Days : table[d] # NoRow}

-----------------------------------------------------------------------------
(***************************************************************************)
(* Stage 1, conform.                                                       *)
(***************************************************************************)
\* Mutant: the launch gets {{ ds }} for both ends instead of the window.
DailyMergedLastDay == Merge(ohlcv["1d"], Within(bronze, end, end))

DailyMerged == Merge(ohlcv["1d"], Within(bronze, start, end))

\* The close of a weekly candle: the close of the last daily row of its week.
WeekRows(daily, m) == {d \in HasRow(daily) : Monday(d) = m}
WeeklyClose(daily, m) ==
    daily[CHOOSE d \in WeekRows(daily, m) : \A e \in WeekRows(daily, m) : e <= d]

\* Every week from the week of `first` onward that has a daily row.
Weekly(daily, first) ==
    [m \in Days |-> IF Monday(first) <= m /\ WeekRows(daily, m) # {}
                    THEN WeeklyClose(daily, m) ELSE NoRow]

\* Mutant: the aggregation keeps only the first week it reads.
WeeklyMergedOneWeek(daily, first) ==
    Merge(ohlcv["1w"], Within(Weekly(daily, first), Monday(first), Monday(first)))

WeeklyMerged(daily, first) == Merge(ohlcv["1w"], Weekly(daily, first))

(***************************************************************************)
(* Stage 2, RSI.  compute_rsi_rows continues the recursion of a prior row  *)
(* (its folded candles, prior, up to its day, last) over the candles after *)
(* last; a bootstrap is the same loop from nothing, except that its first  *)
(* RsiPeriod rows publish no value.                                        *)
(***************************************************************************)
\* Mutant: a missing candle is filled with the row's close.
FoldedFilled(prior, last, candles, p) ==
    [d \in Days |-> IF d <= last THEN prior[d]
                    ELSE IF d <= p
                         THEN IF candles[d] = NoRow THEN candles[p] ELSE candles[d]
                         ELSE NoRow]

Folded(prior, last, candles, p) ==
    [d \in Days |-> IF d <= last THEN prior[d]
                    ELSE IF d <= p THEN candles[d] ELSE NoRow]

\* Mutant: the step is by calendar date, so the recursion stops at a hole.
RsiRowsByDate(prior, last, candles, warmUp) ==
    [p \in Days |->
        IF last < p /\ \A d \in last + 1 .. p : candles[d] # NoRow
        THEN [hist |-> Folded(prior, last, candles, p),
              null |-> p \in warmUp]
        ELSE NoRow]

RsiRows(prior, last, candles, warmUp) ==
    [p \in Days |->
        IF last < p /\ candles[p] # NoRow
        THEN [hist |-> Folded(prior, last, candles, p),
              null |-> p \in warmUp]
        ELSE NoRow]

\* The first RsiPeriod rows of a bootstrap.
WarmUp(candles) ==
    {p \in HasRow(candles) :
        Cardinality({q \in HasRow(candles) : q < p}) < RsiPeriod}

BootstrapRows(candles) == RsiRows(NoRows, 0, candles, WarmUp(candles))

\* Mutants: every run recomputes the whole history; the state of the last row
\* is recomputed from silver instead of being read.
RecomputedRows(table, last, candles) == BootstrapRows(candles)
RefoldedRows(table, last, candles) ==
    RsiRows(Within(candles, 1, last), last, candles, {})

IncrementalRows(table, last, candles) ==
    RsiRows(table[last].hist, last, candles, {})

(***************************************************************************)
(* Stage 3, signals.  The trend state effective in a week is walked over   *)
(* the published weekly RSI strictly before it; a day looks up its own     *)
(* week, or the latest earlier one.                                        *)
(***************************************************************************)
PublishedWeeks ==
    {w \in HasRow(rsi["1w"]) : ~ rsi["1w"][w].null}

\* Mutant: the week's own RSI drives its state.
TrendOfOwnWeek(d) ==
    [w \in Days |->
        IF w \in PublishedWeeks /\ w <= Monday(d) THEN rsi["1w"][w].hist
        ELSE NoRow]

TrendOf(d) ==
    [w \in Days |->
        IF /\ w \in PublishedWeeks
           /\ \E own \in PublishedWeeks : w < own /\ own <= Monday(d)
        THEN rsi["1w"][w].hist ELSE NoRow]

SignalRows ==
    [d \in Days |->
        IF /\ start <= d /\ d <= end
           /\ rsi["1d"][d] # NoRow
           /\ ~ rsi["1d"][d].null
        THEN [daily |-> rsi["1d"][d].hist, trend |-> TrendOf(d)]
        ELSE NoRow]

-----------------------------------------------------------------------------
Init ==
    /\ today = 0
    /\ exchange = NoRows
    /\ bronze = NoRows
    /\ ohlcv = [t \in Temporalities |-> NoRows]
    /\ rsi = [t \in Temporalities |-> NoRows]
    /\ fact_signals = NoRows
    /\ ds = 0
    /\ stage = "idle" /\ only = "all"
    /\ start = 0 /\ end = 0 /\ tries = 0

(***************************************************************************)
(* The exchange and the calendar.  A run and its retries fit in a day (the *)
(* DAG's timeouts), so a day closes only between runs.                     *)
(***************************************************************************)
NextDay ==
    /\ stage = "idle"
    /\ today < LastDay
    /\ ds = today \/ "outage" \in Env
    /\ today' = today + 1
    /\ \E c \in Close \cup (IF "late" \in Env THEN {NoRow} ELSE {}) :
         exchange' = [exchange EXCEPT ![today + 1] = c]
    /\ UNCHANGED <<tables, ds, run>>

PublishLate(d) ==
    /\ "late" \in Env
    /\ d <= today
    /\ exchange[d] = NoRow
    /\ \E c \in Close : exchange' = [exchange EXCEPT ![d] = c]
    /\ UNCHANGED <<today, tables, ds, run>>

Revise(d) ==
    /\ "revise" \in Env
    /\ exchange[d] # NoRow
    /\ \E c \in Close \ {exchange[d]} : exchange' = [exchange EXCEPT ![d] = c]
    /\ UNCHANGED <<today, tables, ds, run>>

(***************************************************************************)
(* The candle ingest of a range is a fetch and one MERGE.                  *)
(***************************************************************************)
Ingested(first, last) == Merge(bronze, Within(exchange, first, last))

HandIngest(first, last) ==
    /\ "ingest" \in Env
    /\ first <= last /\ last <= today
    /\ bronze' = Ingested(first, last)
    /\ UNCHANGED <<source, ohlcv, rsi, fact_signals, ds, run>>

(***************************************************************************)
(* The pipeline: --stage picks where a run enters and where it ends.       *)
(***************************************************************************)
EntryStage(arg) ==
    CASE arg = "rsi" -> "rsi1d" [] arg = "signals" -> "signals" [] OTHER -> "conform"
LastStage(arg) ==
    CASE arg = "conform" -> "conform" [] arg = "rsi" -> "rsi1w" [] OTHER -> "signals"

EndRun ==
    /\ stage' = "idle" /\ only' = "all"
    /\ start' = 0 /\ end' = 0 /\ tries' = 0

Goto(next) ==
    \/ stage = LastStage(only) /\ EndRun
    \/ /\ stage # LastStage(only)
       /\ stage' = next
       /\ UNCHANGED <<only, start, end, tries>>

Launch(arg, first, last) ==
    /\ stage = "idle"
    /\ stage' = EntryStage(arg) /\ only' = arg
    /\ start' = first /\ end' = last
    /\ UNCHANGED <<source, ohlcv, rsi, fact_signals>>

\* A run by hand ingests nothing and is not re-launched.
LaunchByHand(arg, first, last) ==
    /\ (IF arg = "all" THEN "backfill" ELSE "stages") \in Env
    /\ first <= last /\ last <= today
    /\ Launch(arg, first, last)
    /\ tries' = MaxRetries
    /\ UNCHANGED <<bronze, ds>>

\* Day 1 is the first day of the table, so a window reaching before it is cut.
\* Mutant: off by one.
WindowStartShort(d) == IF d > Lookback THEN d - Lookback + 1 ELSE 1

WindowStart(d) == IF d > Lookback THEN d - Lookback ELSE 1

\* The DAG: an ingest that finds nothing succeeds and lets the launch go on; one
\* that fails for good leaves nothing behind, a run that never started.
DailyRun ==
    /\ ds < today
    /\ Launch("all", WindowStart(today), today)
    /\ bronze' = Ingested(WindowStart(today), today)
    /\ ds' = today
    /\ tries' = 0

Conform ==
    /\ stage = "conform"
    /\ ohlcv' = [ohlcv EXCEPT !["1d"] = DailyMerged,
                              !["1w"] = WeeklyMerged(DailyMerged, start)]
    /\ Goto("rsi1d")
    /\ UNCHANGED <<source, bronze, rsi, fact_signals, ds>>

RsiStage(t) == IF t = "1d" THEN "rsi1d" ELSE "rsi1w"
AfterRsi(t) == IF t = "1d" THEN "rsi1w" ELSE "signals"

Bootstrap(t) ==
    /\ stage = RsiStage(t)
    /\ HasRow(rsi[t]) = {}
    /\ rsi' = [rsi EXCEPT ![t] = Merge(rsi[t], BootstrapRows(ohlcv[t]))]
    /\ Goto(AfterRsi(t))
    /\ UNCHANGED <<source, bronze, ohlcv, fact_signals, ds>>

Incremental(t) ==
    /\ stage = RsiStage(t)
    /\ \E last \in HasRow(rsi[t]) :
         /\ \A d \in HasRow(rsi[t]) : d <= last
         /\ rsi' = [rsi EXCEPT
                     ![t] = Merge(rsi[t], IncrementalRows(rsi[t], last, ohlcv[t]))]
    /\ Goto(AfterRsi(t))
    /\ UNCHANGED <<source, bronze, ohlcv, fact_signals, ds>>

Signals ==
    /\ stage = "signals"
    /\ fact_signals' = Merge(fact_signals, SignalRows)
    /\ EndRun
    /\ UNCHANGED <<source, bronze, ohlcv, rsi, ds>>

(***************************************************************************)
(* The driver dies: the launch task is re-launched from its first stage, or*)
(* its retries are spent and the run is over.                              *)
(***************************************************************************)
\* Mutant: the re-launches are not counted.
RelaunchForever ==
    /\ stage' = EntryStage(only)
    /\ tries' = tries + 1
    /\ UNCHANGED <<only, start, end>>

Relaunch ==
    \/ /\ tries < MaxRetries
       /\ stage' = EntryStage(only)
       /\ tries' = tries + 1
       /\ UNCHANGED <<only, start, end>>
    \/ /\ tries = MaxRetries
       /\ "abandon" \in Env
       /\ EndRun

Die ==
    /\ stage # "idle"
    /\ Relaunch
    /\ UNCHANGED <<source, tables, ds>>

\* The driver dies between the two MERGEs of conform.
DieInConform ==
    /\ stage = "conform"
    /\ ohlcv' = [ohlcv EXCEPT !["1d"] = DailyMerged]
    /\ Relaunch
    /\ UNCHANGED <<source, bronze, rsi, fact_signals, ds>>

(***************************************************************************)
(* clean_tables deletes table by table, in this order; it may die after any*)
(* of its DELETEs, so the tables emptied are a prefix of the layer's list. *)
(***************************************************************************)
CleanupPrefixes ==
    {{"ohlcv"}, {"ohlcv", "rsi"}, {"fact"}, {"ohlcv", "rsi", "fact"}}

Deleted(table, first, last) ==
    [d \in Days |-> IF first <= d /\ d <= last THEN NoRow ELSE table[d]]

DeletedIn(byTemporality, T, first, last) ==
    [t \in Temporalities |->
        IF t \in T THEN Deleted(byTemporality[t], first, last)
        ELSE byTemporality[t]]

Cleanup(T, first, last, targets) ==
    /\ "cleanup" \in Env
    /\ stage = "idle"
    /\ first <= last
    /\ ohlcv' = IF "ohlcv" \in targets
                THEN DeletedIn(ohlcv, T, first, last) ELSE ohlcv
    /\ rsi' = IF "rsi" \in targets
              THEN DeletedIn(rsi, T, first, last) ELSE rsi
    /\ fact_signals' = IF "fact" \in targets /\ "1d" \in T
                       THEN Deleted(fact_signals, first, last)
                       ELSE fact_signals
    /\ UNCHANGED <<source, bronze, ds, run>>

StageStep ==
    \/ Conform
    \/ \E t \in Temporalities : Bootstrap(t) \/ Incremental(t)
    \/ Signals

Next ==
    \/ NextDay
    \/ \E d \in Days : PublishLate(d) \/ Revise(d)
    \/ DailyRun
    \/ \E first, last \in Days :
         \/ HandIngest(first, last)
         \/ \E arg \in StageArgs : LaunchByHand(arg, first, last)
    \/ StageStep
    \/ Die
    \/ DieInConform
    \/ \E T \in (SUBSET Temporalities) \ {{}}, first, last \in Days,
          targets \in CleanupPrefixes : Cleanup(T, first, last, targets)

Spec == Init /\ [][Next]_vars

(***************************************************************************)
(* Airflow fires the DAG every day and a running stage ends.  Nothing is   *)
(* assumed of the exchange, of failures or of operators.                   *)
(***************************************************************************)
FairSpec ==
    /\ Spec
    /\ WF_vars(NextDay)
    /\ WF_vars(DailyRun)
    /\ WF_vars(StageStep)
-----------------------------------------------------------------------------
(***************************************************************************)
(* Properties.                                                             *)
(***************************************************************************)

\* Every variable keeps its type; tables hold only rows of their schema.
TypeOK ==
    /\ today \in 0 .. LastDay
    /\ exchange \in Candles
    /\ bronze \in Candles
    /\ ohlcv \in [Temporalities -> Candles]
    /\ rsi \in [Temporalities -> [Days -> RsiRow \cup {NoRow}]]
    /\ fact_signals \in [Days -> Signal \cup {NoRow}]
    /\ ds \in 0 .. LastDay
    /\ stage \in Stages
    /\ only \in StageArgs
    /\ start \in 0 .. LastDay
    /\ end \in 0 .. LastDay
    /\ tries \in 0 .. MaxRetries

\* The stored RSI of a temporality is one recursion: whatever bootstraps,
\* incremental runs, re-launches, back-fills and cleanups produced its rows, a
\* later row folded exactly what an earlier row had folded, and went on.
OneRecursion ==
    \A t \in Temporalities : \A p, q \in HasRow(rsi[t]) :
        p <= q => \A d \in 1 .. p : rsi[t][p].hist[d] = rsi[t][q].hist[d]

\* An RSI row folds no candle of a later period.
RsiCausal ==
    \A t \in Temporalities : \A p \in HasRow(rsi[t]) : \A d \in Days :
        d > p => rsi[t][p].hist[d] = NoRow

\* The weekly RSI in a signal's trend state is of weeks that ended before the
\* day's week began: a back-fill, which sees the whole of every week, must not
\* let a week's own RSI decide the trend of its days.
SignalCausal ==
    \A d \in HasRow(fact_signals) :
        /\ \A e \in Days : e > d => fact_signals[d].daily[e] = NoRow
        /\ \A w \in Days : fact_signals[d].trend[w] # NoRow =>
            /\ w < Monday(d)
            /\ \A e \in Days : e > w => fact_signals[d].trend[w][e] = NoRow

\* No look-ahead anywhere in features or signals.
NoLookAhead == RsiCausal /\ SignalCausal

\* A signal, once published, is never repainted: re-running a window, filling a
\* hole in it or revising a price in it leaves the signals it holds alone.
NoRepaint ==
    [][\A d \in HasRow(fact_signals) : fact_signals'[d] = fact_signals[d]]_vars

\* A published signal is the one its stored daily feature gives.
SignalMatchesFeature ==
    \A d \in HasRow(fact_signals) :
        /\ rsi["1d"][d] # NoRow
        /\ ~ rsi["1d"][d].null
        /\ fact_signals[d].daily = rsi["1d"][d].hist

\* Between runs silver holds every candle of bronze, at its latest price: the
\* window the launch re-processes is the window the DAG's ingest re-fetched.
SilverMatchesBronze ==
    stage = "idle" => ohlcv["1d"] = bronze

\* Between runs the weekly candle of every week is the aggregate of the daily
\* rows of that week, the weeks after the processed range included.
WeeklyMatchesDaily ==
    stage = "idle" => ohlcv["1w"] = Weekly(ohlcv["1d"], 1)

\* Where no price is revised, an incremental RSI may miss a candle but never
\* folds one that silver does not hold.
RsiFoldsSilver ==
    \A p \in HasRow(rsi["1d"]) : \A d \in Days :
        rsi["1d"][p].hist[d] \in {NoRow, ohlcv["1d"][d]}

\* A candle published while a later run still looks back to its day reaches
\* silver: no permanent hole.
LateCandleReachesSilver ==
    \A d \in 1 .. (LastDay - Lookback) :
        (exchange[d] # NoRow /\ today < d + Lookback) ~> (ohlcv["1d"][d] # NoRow)

\* A candle published before the run of its day gets its RSI row and, outside
\* the warm-up, its signal, however many candles are missing before it.
OnTimeCandleGetsSignal ==
    \A d \in Days :
        (exchange[d] # NoRow /\ today = d /\ ds < d) ~>
            (/\ rsi["1d"][d] # NoRow
             /\ rsi["1d"][d].null \/ fact_signals[d] # NoRow)

\* What the README claims of the RSI stage ("incremental RSI must match a full
\* bootstrap"), of the weekly rows of weeks that are over.
WeeklyRsiMatchesBootstrap ==
    stage = "idle" =>
        \A w \in HasRow(rsi["1w"]) : w + DaysPerWeek <= ds + 1 =>
            rsi["1w"][w].hist = BootstrapRows(ohlcv["1w"])[w].hist
=============================================================================
