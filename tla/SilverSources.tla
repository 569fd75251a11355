--------------------------- MODULE SilverSources ---------------------------
(***************************************************************************)
(* The bars of one ETF from two competing sources to silver: the ingests   *)
(* of Yahoo and Tiingo, conform's read query (which source wins a day, and *)
(* on which split basis its price is), and the weekly candle that the      *)
(* returns of strategy 3 are computed from.                                *)
(*                                                                         *)
(* What can be wrong with a price here is its basis.  A price is therefore *)
(* the set of splits it is divided by (`adj'), each named by its ex-date.  *)
(* Yahoo delivers a bar divided by the splits known at the fetch.  Tiingo  *)
(* delivers it raw, with the split factor on the ex-date's own bar, and    *)
(* conform divides it by the later factors that bronze holds.              *)
(*                                                                         *)
(* The ETF ingests are commands of their own and no tasks of the DAG: they *)
(* are run before or after conform reads, or not at all.  BTC's two sources*)
(* have no splits and no common date; they are a case of this.             *)
(***************************************************************************)
EXTENDS Integers, FiniteSets

CONSTANTS
    LastDay,         \* bound: the number of trading days
    DaysPerWeek,     \* days in a week
    Lookback,        \* days the launch looks back (CANDLE_LOOKBACK_DAYS)
    SourceLookback,  \* days an ETF ingest looks back (DAILY_LOOKBACK_DAYS)
    MaxSplits,       \* bound: splits of the ETF
    NoRow,           \* no row for this key
    Env              \* "gap": a source may lack a bar; "backfill", "conform": by hand

VARIABLES
    today,      \* the last day that is over
    splits,     \* the ex-dates so far
    published,  \* the days each source has a bar of
    yahoo,      \* yahoo_etf_daily_raw: the close as delivered
    tiingo,     \* tiingo_etf_daily_raw: whether split_factor is not 1
    silver,     \* ohlcv_validated, 1d
    weekly,     \* ohlcv_validated, 1w
    ds,         \* the day of the last launch
    ingested,   \* the sources whose ingest of today has ended
    settled,    \* history: see DailyRun
    refreshed,  \* history: the sources back-filled since the last split
    rebased     \* history: the days conformed since both were back-filled

market == <<today, splits, published>>
bronze == <<yahoo, tiingo>>
history == <<settled, refreshed, rebased>>
vars == <<market, bronze, silver, weekly, ds, ingested, history>>

Days == 1 .. LastDay
Sources == {"yahoo", "tiingo"}
Monday(d) == d - ((d - 1) % DaysPerWeek)
Mondays == {Monday(d) : d \in Days}
YahooRow == [adj : SUBSET Days]
TiingoRow == [split : BOOLEAN]
Row == [day : Days, source : Sources, adj : SUBSET Days]

ASSUME SourcesAssumption ==
    /\ LastDay \in Nat \ {0}
    /\ DaysPerWeek \in Nat \ {0}
    /\ Lookback \in Nat
    /\ SourceLookback \in Nat
    /\ Lookback <= SourceLookback
    /\ MaxSplits \in Nat
    /\ NoRow \notin YahooRow \cup TiingoRow \cup Row

HasRow(table) == {k \in DOMAIN table : table[k] # NoRow}

Init ==
    /\ today = 0 /\ splits = {}
    /\ published = [s \in Sources |-> {}]
    /\ yahoo = [d \in Days |-> NoRow] /\ tiingo = [d \in Days |-> NoRow]
    /\ silver = [d \in Days |-> NoRow] /\ weekly = [w \in Mondays |-> NoRow]
    /\ ds = 0 /\ ingested = {}
    /\ settled = FALSE /\ refreshed = {} /\ rebased = {}

(***************************************************************************)
(* The market.  A day closes after its launch.  A source has the bars of a *)
(* day at its end, later, or never.                                        *)
(***************************************************************************)
\* Mutant: the open bar is kept.
OpenBarToo(t) == 1 .. t + 1

\* The bars an ingest keeps on the day after t.
ClosedBars(t) == 1 .. t

NextDay ==
    /\ today < LastDay
    /\ ds = today
    /\ today' = today + 1
    /\ published' \in [Sources -> SUBSET ClosedBars(today')]
    /\ \A s \in Sources : published[s] \subseteq published'[s]
    /\ "gap" \in Env \/ \A s \in Sources : published'[s] = ClosedBars(today')
    /\ \/ UNCHANGED <<splits, refreshed, rebased>>
       \/ /\ Cardinality(splits) < MaxSplits
          /\ splits' = splits \cup {today'}
          /\ refreshed' = {} /\ rebased' = {}
    /\ ingested' = {}
    /\ UNCHANGED <<bronze, silver, weekly, ds, settled>>

(***************************************************************************)
(* The ingests: every closed bar from the first day on, in one MERGE.      *)
(***************************************************************************)
SplitsAfter(d) == {e \in splits : e > d}

StoreYahoo(bars) ==
    /\ yahoo' = [d \in Days |-> IF d \in bars
                              THEN [adj |-> SplitsAfter(d)] ELSE yahoo[d]]
    /\ UNCHANGED tiingo

StoreTiingo(bars) ==
    /\ tiingo' = [d \in Days |-> IF d \in bars
                               THEN [split |-> d \in splits] ELSE tiingo[d]]
    /\ UNCHANGED yahoo

StoreBars(s, first) ==
    LET bars == published[s] \cap (first .. today)
    IN  \/ s = "yahoo" /\ StoreYahoo(bars)
        \/ s = "tiingo" /\ StoreTiingo(bars)

\* Mutant: the ingests look back less far than the launch.
IngestLatestShort(s) ==
    /\ s \notin ingested
    /\ StoreBars(s, today - Lookback + 1)
    /\ ingested' = ingested \cup {s}
    /\ UNCHANGED <<market, silver, weekly, ds, history>>

IngestLatest(s) ==
    /\ s \notin ingested
    /\ StoreBars(s, today - SourceLookback)
    /\ ingested' = ingested \cup {s}
    /\ UNCHANGED <<market, silver, weekly, ds, history>>

\* The history of every split is in Tiingo only if it has the bars of the ex-dates.
BackfillHistory(s) ==
    /\ "backfill" \in Env
    /\ ds = today
    /\ StoreBars(s, 1)
    /\ refreshed' = IF s = "yahoo" \/ splits \subseteq published["tiingo"]
                    THEN refreshed \cup {s} ELSE refreshed
    /\ UNCHANGED <<market, silver, weekly, ds, ingested, settled, rebased>>

(***************************************************************************)
(* Conform.  The split lookup reads the whole Tiingo table, the ex-date    *)
(* excluded; the highest priority wins the day.                            *)
(***************************************************************************)
\* Mutant: the registered order the other way round.
LowestFirst == [yahoo |-> 1, tiingo |-> 2]

Priority == [yahoo |-> 2, tiingo |-> 1]

\* Mutants: splits looked up in the range being read; the ex-date included.
SplitFactorsInRange(d, last) ==
    {e \in HasRow(tiingo) : d < e /\ e <= last /\ tiingo[e].split}
SplitFactorsFrom(d, last) == {e \in HasRow(tiingo) : d <= e /\ tiingo[e].split}

SplitFactors(d, last) == {e \in HasRow(tiingo) : d < e /\ tiingo[e].split}

Branches(d, last) ==
    {[day |-> d, source |-> "yahoo", adj |-> yahoo[d].adj] : e \in {d} \cap HasRow(yahoo)}
    \cup
    {[day |-> d, source |-> "tiingo", adj |-> SplitFactors(d, last)] :
        e \in {d} \cap HasRow(tiingo)}

Winner(rows) ==
    CHOOSE r \in rows : \A q \in rows : Priority[q.source] <= Priority[r.source]

DailyMerged(first, last) ==
    [d \in Days |-> IF d \in first .. last /\ Branches(d, last) # {}
                    THEN Winner(Branches(d, last)) ELSE silver[d]]

\* The weekly close is that of the week's last bar.
WeeklyClose(table, w) ==
    LET week == {d \in HasRow(table) : Monday(d) = w}
    IN  IF week = {} THEN NoRow
        ELSE table[CHOOSE d \in week : \A e \in week : e <= d]

WeeklyMerged(table, first) ==
    [w \in Mondays |-> IF w >= Monday(first) /\ WeeklyClose(table, w) # NoRow
                       THEN WeeklyClose(table, w) ELSE weekly[w]]

Conform(first, last) ==
    /\ silver' = DailyMerged(first, last)
    /\ weekly' = WeeklyMerged(silver', first)
    /\ rebased' = IF refreshed = Sources
                  THEN rebased \cup (first .. last) ELSE rebased
    /\ UNCHANGED <<market, bronze, ingested, refreshed>>

\* Day 1 is the first day of the table.  Mutant: one day short.
WindowStartShort(d) == IF d > Lookback THEN d - Lookback + 1 ELSE 1

WindowStart(d) == IF d > Lookback THEN d - Lookback ELSE 1

\* `settled': the launch read after both of today's ingests, and Tiingo had the bar
\* of every ex-date.
DailyRun ==
    /\ ds < today
    /\ Conform(WindowStart(today), today)
    /\ ds' = today
    /\ settled' = (ingested = Sources /\ splits \subseteq HasRow(tiingo))

\* A re-launch of today's window, or a range by hand.
ConformAgain(first, last) ==
    /\ "conform" \in Env
    /\ ds = today
    /\ first <= last /\ last <= today
    /\ Conform(first, last)
    /\ UNCHANGED <<ds, settled>>

Next ==
    \/ NextDay
    \/ \E s \in Sources : IngestLatest(s) \/ BackfillHistory(s)
    \/ DailyRun
    \/ \E first, last \in Days : ConformAgain(first, last)

Spec == Init /\ [][Next]_vars

\* The DAG runs every day; nothing is assumed of the sources or of the ingests.
FairSpec == Spec /\ WF_vars(NextDay) /\ WF_vars(DailyRun)
-----------------------------------------------------------------------------
\* Every variable keeps its type.
TypeOK ==
    /\ today \in 0 .. LastDay /\ ds \in 0 .. today
    /\ splits \subseteq 1 .. today
    /\ published \in [Sources -> SUBSET (1 .. today)]
    /\ yahoo \in [Days -> YahooRow \cup {NoRow}]
    /\ tiingo \in [Days -> TiingoRow \cup {NoRow}]
    /\ silver \in [Days -> Row \cup {NoRow}]
    /\ weekly \in [Mondays -> Row \cup {NoRow}]
    /\ ingested \subseteq Sources
    /\ settled \in BOOLEAN
    /\ refreshed \subseteq Sources
    /\ rebased \subseteq Days

\* The return from one bar to a later one is right: the earlier is divided by what
\* the later is divided by, and by the splits between them.
SameBasis(r, q) ==
    r.day < q.day => r.adj = q.adj \cup {e \in splits : r.day < e /\ e <= q.day}

OnOneBasis(rows) == \A r, q \in rows : SameBasis(r, q)

\* What a launch has just processed, it leaves on one basis, whichever source each
\* day is from, on the day of a split too: Yahoo's look-back re-fetches, and Tiingo's
\* lookup re-divides, every bar that the launch reads.
RecentOnOneBasis ==
    ds = today /\ settled =>
        OnOneBasis({silver[d] : d \in (WindowStart(today) .. today) \cap HasRow(silver)})

\* What repairs a split: back-fill both sources, then conform the history again.
\* The days conformed again are on one basis, in whatever ranges and order it was
\* done, with daily runs and late bars in between.
RebaseRestores ==
    OnOneBasis({silver[d] : d \in rebased \cap HasRow(silver)})

\* A bar that bronze has while a later launch looks back to its day reaches silver,
\* unless a source of higher priority is there: also when the ingest ended after the
\* launch had read, and when the primary fills its gap late.
BestBarReachesSilver ==
    \A d \in 1 .. (LastDay - Lookback) :
        /\ (yahoo[d] # NoRow /\ today < d + Lookback) ~>
               (silver[d] # NoRow /\ silver[d].source = "yahoo")
        /\ (tiingo[d] # NoRow /\ today < d + Lookback) ~> (silver[d] # NoRow)

\* What the strategy's document says of silver ("the conformed close is a clean
\* split-adjusted price level"), of the closes its weekly returns are computed from,
\* when silver has every day and today's ingests were in time.
CleanSplitAdjustedLevel ==
    ds = today /\ settled /\ HasRow(silver) = 1 .. today =>
        OnOneBasis({weekly[w] : w \in HasRow(weekly)})
=============================================================================
