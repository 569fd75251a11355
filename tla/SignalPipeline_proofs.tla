----------------------- MODULE SignalPipeline_proofs -----------------------
(***************************************************************************)
(* Theorems about SignalPipeline, for every calendar, look-back, RSI       *)
(* period, number of re-launches, set of prices and set of disturbances.   *)
(***************************************************************************)
EXTENDS SignalPipeline, TLAPS, WellFoundedInduction

-----------------------------------------------------------------------------
(***************************************************************************)
(* Types of the operators.                                                 *)
(***************************************************************************)

\* A non-empty set of days has a latest day.
LEMMA LatestDay ==
    ASSUME NEW T \in SUBSET Days, T # {}
    PROVE  \E d \in T : \A e \in T : e <= d
<1> DEFINE S == {n \in Nat : LastDay - n \in T}
<1>1. S \subseteq Nat /\ S # {}
  <2>1. PICK d \in T : TRUE
    OBVIOUS
  <2>2. LastDay - d \in S
    BY <2>1, PipelineAssumption DEF Days
  <2> QED
    BY <2>2
<1>2. PICK x \in S : \A y \in S : ~ (<<y, x>> \in OpToRel(<, Nat))
  <2> HIDE DEF S
  <2> QED
    BY <1>1, WFMin, NatLessThanWellFounded
<1>3. \A y \in S : ~ (y < x)
  BY <1>2 DEF OpToRel
<1>4. ASSUME NEW e \in T PROVE e <= LastDay - x
  <2>1. LastDay - e \in S
    BY PipelineAssumption DEF Days
  <2> QED
    BY <2>1, <1>3, PipelineAssumption DEF Days
<1> QED
  BY <1>4

\* The Monday of a day is that day or an earlier one of the calendar.
LEMMA MondayType ==
    ASSUME NEW d \in Days
    PROVE  Monday(d) \in 1 .. d
<1>1. (d - 1) % DaysPerWeek \in 0 .. DaysPerWeek - 1
  BY PipelineAssumption DEF Days
<1>2. (d - 1) % DaysPerWeek <= d - 1
  BY PipelineAssumption DEF Days
<1> QED
  BY <1>1, <1>2, PipelineAssumption DEF Monday, Days

LEMMA MondayInDays ==
    ASSUME NEW d \in Days
    PROVE  Monday(d) \in Days
<1>1. Monday(d) \in 1 .. d /\ d \in 1 .. LastDay
  BY MondayType DEF Days
<1> QED
  BY <1>1, PipelineAssumption DEF Days

\* A table of rows of S, before and after a MERGE or a filter on its key.
Table(S) == [Days -> S \cup {NoRow}]

LEMMA NoRowsType ==
    ASSUME NEW S
    PROVE  NoRows \in Table(S)
BY DEF NoRows, Table

LEMMA MergeType ==
    ASSUME NEW S, NEW table \in Table(S), NEW batch \in Table(S)
    PROVE  Merge(table, batch) \in Table(S)
BY DEF Merge, Table

LEMMA WithinType ==
    ASSUME NEW S, NEW table \in Table(S), NEW first, NEW last
    PROVE  Within(table, first, last) \in Table(S)
BY DEF Within, Table

LEMMA WeeklyCloseType ==
    ASSUME NEW daily \in Candles, NEW m, WeekRows(daily, m) # {}
    PROVE  WeeklyClose(daily, m) \in Close
<1>1. WeekRows(daily, m) \in SUBSET Days
  BY DEF WeekRows, HasRow
<1>2. \E d \in WeekRows(daily, m) : \A e \in WeekRows(daily, m) : e <= d
  BY <1>1, LatestDay
<1>3. PICK d \in WeekRows(daily, m) : WeeklyClose(daily, m) = daily[d]
  BY <1>2 DEF WeeklyClose
<1> QED
  BY <1>3 DEF WeekRows, HasRow, Candles

LEMMA WeeklyType ==
    ASSUME NEW daily \in Candles, NEW first
    PROVE  Weekly(daily, first) \in Candles
BY WeeklyCloseType DEF Weekly, Candles

LEMMA FoldedType ==
    ASSUME NEW prior \in Candles, NEW candles \in Candles, NEW last, NEW p
    PROVE  Folded(prior, last, candles, p) \in Candles
BY DEF Folded, Candles

LEMMA RsiRowsType ==
    ASSUME NEW prior \in Candles, NEW candles \in Candles, NEW last, NEW warmUp
    PROVE  RsiRows(prior, last, candles, warmUp) \in Table(RsiRow)
<1> SUFFICES ASSUME NEW p \in Days,
                    last < p, candles[p] # NoRow
             PROVE  [hist |-> Folded(prior, last, candles, p),
                     null |-> p \in warmUp] \in RsiRow
  BY DEF RsiRows, Table
<1>1. Folded(prior, last, candles, p) \in Candles
  BY FoldedType
<1>2. (p \in warmUp) \in BOOLEAN
  OBVIOUS
<1> QED
  BY <1>1, <1>2 DEF RsiRow

-----------------------------------------------------------------------------
(***************************************************************************)
(* Type correctness, one lemma per kind of action.                         *)
(***************************************************************************)
\* What TypeOK says of the tables, in terms of Table.
LEMMA TypeOKTables ==
    /\ Candles = Table(Close)
    /\ TypeOK => /\ bronze \in Table(Close)
                 /\ ohlcv["1d"] \in Table(Close)
                 /\ ohlcv["1w"] \in Table(Close)
                 /\ \A t \in Temporalities : rsi[t] \in Table(RsiRow)
                 /\ fact_signals \in Table(Signal)
BY DEF TypeOK, Candles, Table, Temporalities

LEMMA SourceTypeOK ==
    ASSUME TypeOK,
           NextDay \/ \E d \in Days : PublishLate(d) \/ Revise(d)
    PROVE  TypeOK'
<1>1. CASE NextDay
  BY <1>1, PipelineAssumption
  DEF NextDay, TypeOK, Candles, Days, tables, run, Stages
<1>2. ASSUME NEW d \in Days, PublishLate(d) \/ Revise(d)
      PROVE  TypeOK'
  BY <1>2 DEF PublishLate, Revise, TypeOK, Candles, tables, run
<1> QED
  BY <1>1, <1>2

\* A run ends, or goes on to a stage, as the same run.
LEMMA GotoType ==
    ASSUME TypeOK, NEW next \in Stages, Goto(next)
    PROVE  /\ stage' \in Stages
           /\ only' \in StageArgs
           /\ start' \in 0 .. LastDay
           /\ end' \in 0 .. LastDay
           /\ tries' \in 0 .. MaxRetries
BY PipelineAssumption DEF Goto, EndRun, TypeOK, Stages, StageArgs

LEMMA IngestedType ==
    ASSUME TypeOK, NEW first, NEW last
    PROVE  Ingested(first, last) \in Candles
<1>1. Within(exchange, first, last) \in Table(Close)
  BY WithinType, TypeOKTables DEF TypeOK
<1> QED
  BY <1>1, MergeType, TypeOKTables DEF Ingested

LEMMA LaunchTypeOK ==
    ASSUME TypeOK,
           \/ DailyRun
           \/ \E first, last \in Days : \E arg \in StageArgs :
                LaunchByHand(arg, first, last)
    PROVE  TypeOK'
<1>1. ASSUME NEW arg \in StageArgs,
             NEW first \in 0 .. LastDay, NEW last \in 0 .. LastDay,
             Launch(arg, first, last), bronze' \in Candles,
             ds' \in 0 .. LastDay, tries' \in 0 .. MaxRetries
      PROVE  TypeOK'
  <2>1. EntryStage(arg) \in Stages
    BY DEF EntryStage, StageArgs, Stages
  <2> QED
    BY <1>1, <2>1 DEF Launch, TypeOK, source
<1>2. CASE DailyRun
  <2>1. /\ WindowStart(today) \in 0 .. LastDay
        /\ today \in 0 .. LastDay
        /\ "all" \in StageArgs
    BY <1>2, PipelineAssumption DEF DailyRun, WindowStart, TypeOK, StageArgs
  <2> QED
    BY <1>1, <1>2, <2>1, IngestedType, PipelineAssumption DEF DailyRun
<1>3. ASSUME NEW first \in Days, NEW last \in Days, NEW arg \in StageArgs,
             LaunchByHand(arg, first, last)
      PROVE  TypeOK'
  BY <1>1, <1>3, PipelineAssumption DEF LaunchByHand, TypeOK, Days
<1> QED
  BY <1>2, <1>3

LEMMA HandIngestTypeOK ==
    ASSUME TypeOK, NEW first, NEW last, HandIngest(first, last)
    PROVE  TypeOK'
BY IngestedType DEF HandIngest, TypeOK, source, run

LEMMA ConformTypes ==
    ASSUME TypeOK
    PROVE  /\ DailyMerged \in Candles
           /\ WeeklyMerged(DailyMerged, start) \in Candles
<1>1. DailyMerged \in Candles
  BY WithinType, MergeType, TypeOKTables DEF DailyMerged
<1>2. Weekly(DailyMerged, start) \in Table(Close)
  BY <1>1, WeeklyType, TypeOKTables
<1> QED
  BY <1>1, <1>2, MergeType, TypeOKTables DEF WeeklyMerged

LEMMA ConformTypeOK ==
    ASSUME TypeOK, Conform
    PROVE  TypeOK'
<1>1. ohlcv' \in [Temporalities -> Candles]
  BY ConformTypes DEF Conform, TypeOK, Temporalities
<1> QED
  BY <1>1, GotoType DEF Conform, TypeOK, Stages, source

LEMMA RsiTypeOK ==
    ASSUME TypeOK, NEW t \in Temporalities, Bootstrap(t) \/ Incremental(t)
    PROVE  TypeOK'
<1>1. ohlcv[t] \in Candles
  BY DEF TypeOK
<1>2. CASE Bootstrap(t)
  <2>1. BootstrapRows(ohlcv[t]) \in Table(RsiRow)
    BY <1>1, RsiRowsType, NoRowsType, TypeOKTables DEF BootstrapRows
  <2>2. Merge(rsi[t], BootstrapRows(ohlcv[t])) \in Table(RsiRow)
    BY <2>1, MergeType, TypeOKTables
  <2>3. rsi' \in [Temporalities -> Table(RsiRow)]
    BY <1>2, <2>2 DEF Bootstrap, TypeOK, Table
  <2> QED
    BY <1>2, <2>3, GotoType
    DEF Bootstrap, AfterRsi, TypeOK, Stages, source, Table
<1>3. CASE Incremental(t)
  <2>1. PICK last \in HasRow(rsi[t]) :
          rsi' = [rsi EXCEPT
                   ![t] = Merge(rsi[t], IncrementalRows(rsi[t], last, ohlcv[t]))]
    BY <1>3 DEF Incremental
  <2>2. rsi[t][last].hist \in Candles
    BY DEF HasRow, TypeOK, RsiRow
  <2>3. IncrementalRows(rsi[t], last, ohlcv[t]) \in Table(RsiRow)
    BY <1>1, <2>2, RsiRowsType DEF IncrementalRows
  <2>4. Merge(rsi[t], IncrementalRows(rsi[t], last, ohlcv[t])) \in Table(RsiRow)
    BY <2>3, MergeType, TypeOKTables
  <2>5. rsi' \in [Temporalities -> Table(RsiRow)]
    BY <2>1, <2>4 DEF TypeOK, Table
  <2> QED
    BY <1>3, <2>5, GotoType
    DEF Incremental, AfterRsi, TypeOK, Stages, source, Table
<1> QED
  BY <1>2, <1>3

LEMMA SignalRowsType ==
    ASSUME TypeOK
    PROVE  SignalRows \in Table(Signal)
<1>1. ASSUME NEW d \in Days
      PROVE  TrendOf(d) \in [Days -> Candles \cup {NoRow}]
  BY DEF TrendOf, PublishedWeeks, HasRow, TypeOK, RsiRow, Temporalities
<1>2. ASSUME NEW d \in Days, rsi["1d"][d] # NoRow
      PROVE  rsi["1d"][d].hist \in Candles
  BY <1>2 DEF TypeOK, RsiRow, Temporalities
<1> QED
  BY <1>1, <1>2 DEF SignalRows, Table, Signal

LEMMA SignalsTypeOK ==
    ASSUME TypeOK, Signals
    PROVE  TypeOK'
<1>1. fact_signals' \in Table(Signal)
  BY SignalRowsType, MergeType, TypeOKTables DEF Signals
<1> QED
  BY <1>1, PipelineAssumption
  DEF Signals, EndRun, TypeOK, Stages, StageArgs, source, Table

LEMMA RelaunchType ==
    ASSUME TypeOK, Relaunch
    PROVE  /\ stage' \in Stages
           /\ only' \in StageArgs
           /\ start' \in 0 .. LastDay
           /\ end' \in 0 .. LastDay
           /\ tries' \in 0 .. MaxRetries
BY PipelineAssumption
DEF Relaunch, EndRun, EntryStage, TypeOK, Stages, StageArgs

LEMMA DieTypeOK ==
    ASSUME TypeOK, Die \/ DieInConform
    PROVE  TypeOK'
<1>1. CASE Die
  BY <1>1, RelaunchType DEF Die, TypeOK, source, tables
<1>2. CASE DieInConform
  <2>1. ohlcv' \in [Temporalities -> Candles]
    BY <1>2, ConformTypes DEF DieInConform, TypeOK, Temporalities
  <2> QED
    BY <1>2, <2>1, RelaunchType DEF DieInConform, TypeOK, source
<1> QED
  BY <1>1, <1>2

LEMMA DeletedType ==
    ASSUME NEW S, NEW table \in Table(S), NEW first, NEW last
    PROVE  Deleted(table, first, last) \in Table(S)
BY DEF Deleted, Table

LEMMA CleanupTypeOK ==
    ASSUME TypeOK, NEW T, NEW first, NEW last, NEW targets,
           Cleanup(T, first, last, targets)
    PROVE  TypeOK'
<1>1. ohlcv' \in [Temporalities -> Candles]
  BY DEF Cleanup, DeletedIn, Deleted, TypeOK, Candles
<1>2. rsi' \in [Temporalities -> [Days -> RsiRow \cup {NoRow}]]
  BY DEF Cleanup, DeletedIn, Deleted, TypeOK
<1>3. fact_signals' \in [Days -> Signal \cup {NoRow}]
  BY DEF Cleanup, Deleted, TypeOK
<1> QED
  BY <1>1, <1>2, <1>3 DEF Cleanup, TypeOK, source, run

LEMMA TypeCorrectStep ==
    ASSUME TypeOK, [Next]_vars
    PROVE  TypeOK'
<1>1. CASE UNCHANGED vars
  BY <1>1 DEF vars, source, tables, run, TypeOK
<1>2. CASE Conform \/ Signals
  BY <1>2, ConformTypeOK, SignalsTypeOK
<1>3. CASE \E t \in Temporalities : Bootstrap(t) \/ Incremental(t)
  BY <1>3, RsiTypeOK
<1>4. CASE \E T \in (SUBSET Temporalities) \ {{}}, first, last \in Days,
              targets \in CleanupPrefixes : Cleanup(T, first, last, targets)
  BY <1>4, CleanupTypeOK
<1> QED
  BY <1>1, <1>2, <1>3, <1>4, SourceTypeOK, LaunchTypeOK, HandIngestTypeOK, DieTypeOK
  DEF Next, StageStep

\* Every variable keeps its type, and every table its schema.
THEOREM TypeCorrect == Spec => []TypeOK
<1>1. Init => TypeOK
  BY NoRowsType, PipelineAssumption
  DEF Init, TypeOK, Candles, Table, Stages, StageArgs, NoRows, Temporalities
<1>2. TypeOK /\ [Next]_vars => TypeOK'
  BY TypeCorrectStep
<1> QED
  BY <1>1, <1>2, PTL DEF Spec

-----------------------------------------------------------------------------
(***************************************************************************)
(* What the two RSI modes do to the rows of a temporality.                 *)
(***************************************************************************)
\* A table of RSI rows is one recursion: a later row went on from an earlier.
IsRecursion(table) ==
    \A p, q \in HasRow(table) :
        p <= q => \A d \in 1 .. p : table[p].hist[d] = table[q].hist[d]

IsCausal(table) ==
    \A p \in HasRow(table) : \A d \in Days : d > p => table[p].hist[d] = NoRow

\* Continuing the last row of a recursion keeps it a causal recursion.
LEMMA ContinuedRecursion ==
    ASSUME NEW table \in Table(RsiRow), NEW candles \in Candles,
           NEW last \in HasRow(table), \A d \in HasRow(table) : d <= last,
           IsRecursion(table), IsCausal(table)
    PROVE  /\ IsRecursion(Merge(table, IncrementalRows(table, last, candles)))
           /\ IsCausal(Merge(table, IncrementalRows(table, last, candles)))
<1> DEFINE batch == IncrementalRows(table, last, candles)
           new == Merge(table, batch)
<1>1. last \in Days
  BY DEF HasRow
<1>2. ASSUME NEW p \in HasRow(new)
      PROVE  \/ p \in HasRow(table) /\ new[p] = table[p] /\ p <= last
             \/ /\ p \in Days /\ last < p
                /\ new[p].hist = Folded(table[last].hist, last, candles, p)
  BY <1>1, <1>2 DEF Merge, IncrementalRows, RsiRows, HasRow, Days
<1>3. ASSUME NEW p \in Days, NEW d \in Days, last < p
      PROVE  Folded(table[last].hist, last, candles, p)[d] =
                IF d <= last THEN table[last].hist[d]
                ELSE IF d <= p THEN candles[d] ELSE NoRow
  BY DEF Folded
<1>4. \A p \in HasRow(new) : p \in Days
  BY DEF HasRow
<1> HIDE DEF new
<1>5. IsRecursion(new)
  <2> SUFFICES ASSUME NEW p \in HasRow(new), NEW q \in HasRow(new), p <= q,
                      NEW d \in 1 .. p
               PROVE  new[p].hist[d] = new[q].hist[d]
    BY DEF IsRecursion
  <2>1. d \in Days /\ d <= p
    BY <1>4, PipelineAssumption DEF Days
  <2>2. CASE q <= last
    BY <1>1, <1>2, <1>4, <2>2 DEF IsRecursion, Days
  <2>3. CASE last < q /\ p <= last
    BY <1>1, <1>2, <1>3, <1>4, <2>1, <2>3 DEF IsRecursion, Days
  <2>4. CASE last < p
    BY <1>1, <1>2, <1>3, <1>4, <2>1, <2>4 DEF Days
  <2> QED
    BY <1>1, <1>4, <2>2, <2>3, <2>4, PipelineAssumption DEF Days
<1>6. IsCausal(new)
  <2> SUFFICES ASSUME NEW p \in HasRow(new), NEW d \in Days, d > p
               PROVE  new[p].hist[d] = NoRow
    BY DEF IsCausal
  <2>1. CASE p \in HasRow(table) /\ new[p] = table[p]
    BY <2>1 DEF IsCausal
  <2>2. CASE /\ last < p
             /\ new[p].hist = Folded(table[last].hist, last, candles, p)
    BY <1>1, <1>3, <1>4, <2>2, PipelineAssumption DEF Days
  <2> QED
    BY <1>2, <2>1, <2>2
<1> QED
  BY <1>5, <1>6 DEF new

\* A bootstrap of an empty table is a causal recursion.
LEMMA BootstrappedRecursion ==
    ASSUME NEW table \in Table(RsiRow), NEW candles \in Candles,
           HasRow(table) = {}
    PROVE  /\ IsRecursion(Merge(table, BootstrapRows(candles)))
           /\ IsCausal(Merge(table, BootstrapRows(candles)))
<1> DEFINE new == Merge(table, BootstrapRows(candles))
<1>1. ASSUME NEW p \in HasRow(new)
      PROVE  p \in Days /\ new[p].hist = Folded(NoRows, 0, candles, p)
  BY <1>1 DEF Merge, BootstrapRows, RsiRows, HasRow
<1>2. ASSUME NEW p \in Days, NEW d \in Days
      PROVE  Folded(NoRows, 0, candles, p)[d] =
                IF d <= p THEN candles[d] ELSE NoRow
  BY DEF Folded, Days
<1> HIDE DEF new
<1>3. IsRecursion(new)
  <2> SUFFICES ASSUME NEW p \in HasRow(new), NEW q \in HasRow(new), p <= q,
                      NEW d \in 1 .. p
               PROVE  new[p].hist[d] = new[q].hist[d]
    BY DEF IsRecursion
  <2>1. d \in Days /\ d <= p /\ d <= q
    BY <1>1, PipelineAssumption DEF Days
  <2> QED
    BY <1>1, <1>2, <2>1
<1>4. IsCausal(new)
  BY <1>1, <1>2, PipelineAssumption DEF IsCausal, Days
<1> QED
  BY <1>3, <1>4 DEF new

\* Deleting rows of a causal recursion leaves a causal recursion.
LEMMA DeletedRecursion ==
    ASSUME NEW table, IsRecursion(table), IsCausal(table), NEW first, NEW last
    PROVE  /\ IsRecursion(Deleted(table, first, last))
           /\ IsCausal(Deleted(table, first, last))
<1>1. ASSUME NEW p \in HasRow(Deleted(table, first, last))
      PROVE  p \in HasRow(table) /\ Deleted(table, first, last)[p] = table[p]
  BY <1>1 DEF HasRow, Deleted
<1> QED
  BY <1>1 DEF IsRecursion, IsCausal

-----------------------------------------------------------------------------
(***************************************************************************)
(* The stored RSI is one causal recursion, through every disturbance.      *)
(***************************************************************************)
RsiInv == \A t \in Temporalities : IsRecursion(rsi[t]) /\ IsCausal(rsi[t])

LEMMA RsiInvIsRecursionAndCausal == RsiInv <=> OneRecursion /\ RsiCausal
BY DEF RsiInv, OneRecursion, RsiCausal, IsRecursion, IsCausal

\* Only three actions write rsi_features.
LEMMA RsiUnchanged ==
    ASSUME [Next]_vars
    PROVE  \/ rsi' = rsi
           \/ \E t \in Temporalities : Bootstrap(t) \/ Incremental(t)
           \/ \E T, first, last, targets : Cleanup(T, first, last, targets)
BY DEF Next, StageStep, NextDay, PublishLate, Revise, DailyRun, LaunchByHand,
       Launch, HandIngest, Conform, Signals, Die, DieInConform, vars, source,
       tables, run

LEMMA RsiInvStep ==
    ASSUME TypeOK, RsiInv, [Next]_vars
    PROVE  RsiInv'
<1>1. CASE rsi' = rsi
  BY <1>1 DEF RsiInv
<1>2. ASSUME NEW t \in Temporalities, Bootstrap(t)
      PROVE  RsiInv'
  <2>1. /\ IsRecursion(rsi'[t]) /\ IsCausal(rsi'[t])
        /\ \A u \in Temporalities : u # t => rsi'[u] = rsi[u]
    BY <1>2, BootstrappedRecursion, TypeOKTables DEF Bootstrap, TypeOK
  <2> QED
    BY <2>1 DEF RsiInv
<1>3. ASSUME NEW t \in Temporalities, Incremental(t)
      PROVE  RsiInv'
  <2>1. PICK last \in HasRow(rsi[t]) :
          /\ \A d \in HasRow(rsi[t]) : d <= last
          /\ rsi' = [rsi EXCEPT
                ![t] = Merge(rsi[t], IncrementalRows(rsi[t], last, ohlcv[t]))]
    BY <1>3 DEF Incremental
  <2>2. /\ rsi[t] \in Table(RsiRow) /\ ohlcv[t] \in Candles
        /\ IsRecursion(rsi[t]) /\ IsCausal(rsi[t])
    BY TypeOKTables DEF RsiInv, TypeOK
  <2>3. /\ rsi'[t] = Merge(rsi[t], IncrementalRows(rsi[t], last, ohlcv[t]))
        /\ \A u \in Temporalities : u # t => rsi'[u] = rsi[u]
    BY <2>1 DEF TypeOK
  <2>4. IsRecursion(rsi'[t]) /\ IsCausal(rsi'[t])
    BY <2>1, <2>2, <2>3, ContinuedRecursion
  <2> QED
    BY <2>3, <2>4 DEF RsiInv
<1>4. ASSUME NEW T, NEW first, NEW last, NEW targets,
             Cleanup(T, first, last, targets)
      PROVE  RsiInv'
  <2>1. ASSUME NEW t \in Temporalities
        PROVE  rsi'[t] = rsi[t] \/ rsi'[t] = Deleted(rsi[t], first, last)
    BY <1>4 DEF Cleanup, DeletedIn
  <2> QED
    BY <2>1, DeletedRecursion DEF RsiInv
<1> QED
  BY <1>1, <1>2, <1>3, <1>4, RsiUnchanged

LEMMA RsiInvInit == Init => RsiInv
BY DEF Init, RsiInv, IsRecursion, IsCausal, HasRow, NoRows

\* However its rows came about, a later RSI row of a temporality went on from
\* every earlier one: incremental runs, re-launches, back-fills over old ranges
\* and partial cleanups never leave rows of two different recursions.
THEOREM OneRecursionHolds == Spec => []OneRecursion
<1>1. TypeOK /\ RsiInv /\ [Next]_vars => RsiInv'
  BY RsiInvStep
<1> QED
  BY <1>1, RsiInvInit, RsiInvIsRecursionAndCausal, TypeCorrect, PTL DEF Spec

-----------------------------------------------------------------------------
(***************************************************************************)
(* No look-ahead.                                                          *)
(***************************************************************************)
\* The rows the signals stage builds use no later day and no unfinished week.
LEMMA SignalRowsCausal ==
    ASSUME TypeOK, RsiCausal, NEW d \in Days, SignalRows[d] # NoRow
    PROVE  /\ \A e \in Days : e > d => SignalRows[d].daily[e] = NoRow
           /\ \A w \in Days : SignalRows[d].trend[w] # NoRow =>
                /\ w < Monday(d)
                /\ \A e \in Days : e > w => SignalRows[d].trend[w][e] = NoRow
<1>1. /\ d \in HasRow(rsi["1d"])
      /\ SignalRows[d] = [daily |-> rsi["1d"][d].hist, trend |-> TrendOf(d)]
  BY DEF SignalRows, HasRow
<1>2. \A e \in Days : e > d => rsi["1d"][d].hist[e] = NoRow
  BY <1>1 DEF RsiCausal, Temporalities
<1>3. ASSUME NEW w \in Days, TrendOf(d)[w] # NoRow
      PROVE  /\ w < Monday(d)
             /\ \A e \in Days : e > w => TrendOf(d)[w][e] = NoRow
  <2>1. /\ w \in HasRow(rsi["1w"])
        /\ TrendOf(d)[w] = rsi["1w"][w].hist
        /\ \E own \in Days : w < own /\ own <= Monday(d)
    BY <1>3 DEF TrendOf, PublishedWeeks, HasRow
  <2>2. Monday(d) \in Int
    BY MondayType
  <2> QED
    BY <2>1, <2>2 DEF RsiCausal, Temporalities, Days
<1> QED
  BY <1>1, <1>2, <1>3

LEMMA SignalCausalStep ==
    ASSUME TypeOK, RsiCausal, SignalCausal, [Next]_vars
    PROVE  SignalCausal'
<1>1. CASE fact_signals' = fact_signals
  BY <1>1 DEF SignalCausal, HasRow
<1>2. CASE Signals
  <2>1. ASSUME NEW d \in HasRow(fact_signals')
        PROVE  /\ d \in Days
               /\ \/ d \in HasRow(fact_signals) /\ fact_signals'[d] = fact_signals[d]
                  \/ SignalRows[d] # NoRow /\ fact_signals'[d] = SignalRows[d]
    BY <1>2, <2>1 DEF Signals, Merge, HasRow
  <2> QED
    BY <2>1, SignalRowsCausal DEF SignalCausal
<1>3. ASSUME NEW T, NEW first, NEW last, NEW targets,
             Cleanup(T, first, last, targets)
      PROVE  SignalCausal'
  <2>1. ASSUME NEW d \in HasRow(fact_signals')
        PROVE  d \in HasRow(fact_signals) /\ fact_signals'[d] = fact_signals[d]
    BY <1>3, <2>1 DEF Cleanup, Deleted, HasRow
  <2> QED
    BY <2>1 DEF SignalCausal
<1> QED
  BY <1>1, <1>2, <1>3
  DEF Next, StageStep, NextDay, PublishLate, Revise, DailyRun, LaunchByHand,
      Launch, HandIngest, Conform, Bootstrap, Incremental, Die, DieInConform,
      vars, source, tables, run

\* No feature folds a later candle, and no signal, back-filled or not, depends
\* on a later day or on the RSI of its own week.
THEOREM NoLookAheadHolds == Spec => []NoLookAhead
<1>1. Init => SignalCausal
  BY DEF Init, SignalCausal, HasRow, NoRows
<1>2. TypeOK /\ RsiInv /\ [Next]_vars => RsiInv'
  BY RsiInvStep
<1>3. TypeOK /\ RsiInv /\ SignalCausal /\ [Next]_vars => SignalCausal'
  BY SignalCausalStep, RsiInvIsRecursionAndCausal
<1>4. RsiInv /\ SignalCausal => NoLookAhead
  BY RsiInvIsRecursionAndCausal DEF NoLookAhead
<1> QED
  BY <1>1, <1>2, <1>3, <1>4, RsiInvInit, TypeCorrect, PTL DEF Spec

-----------------------------------------------------------------------------
(***************************************************************************)
(* Consistency between layers, where nobody deletes rows.                  *)
(***************************************************************************)
\* Without cleanup an RSI row is never rewritten.
LEMMA RsiRowsAreFinal ==
    ASSUME TypeOK, "cleanup" \notin Env, [Next]_vars, NEW t \in Temporalities
    PROVE  \A p \in HasRow(rsi[t]) : rsi'[t][p] = rsi[t][p]
<1>1. CASE rsi' = rsi
  BY <1>1
<1>2. ASSUME NEW u \in Temporalities, Bootstrap(u)
      PROVE  \A p \in HasRow(rsi[t]) : rsi'[t][p] = rsi[t][p]
  BY <1>2 DEF Bootstrap, TypeOK
<1>3. ASSUME NEW u \in Temporalities, Incremental(u)
      PROVE  \A p \in HasRow(rsi[t]) : rsi'[t][p] = rsi[t][p]
  <2>1. PICK last \in HasRow(rsi[u]) :
          /\ \A d \in HasRow(rsi[u]) : d <= last
          /\ rsi' = [rsi EXCEPT
                ![u] = Merge(rsi[u], IncrementalRows(rsi[u], last, ohlcv[u]))]
    BY <1>3 DEF Incremental
  <2>2. CASE t = u
    BY <2>1, <2>2
    DEF Merge, IncrementalRows, RsiRows, HasRow, Days, TypeOK
  <2>3. CASE t # u
    BY <2>1, <2>3 DEF TypeOK
  <2> QED
    BY <2>2, <2>3
<1> QED
  BY <1>1, <1>2, <1>3, RsiUnchanged DEF Cleanup

\* A published signal always is the one its stored daily feature gives: neither
\* is ever rewritten under the other.
THEOREM SignalMatchesFeatureHolds ==
    ASSUME "cleanup" \notin Env
    PROVE  Spec => []SignalMatchesFeature
<1>1. Init => SignalMatchesFeature
  BY DEF Init, SignalMatchesFeature, HasRow, NoRows
<1>2. ASSUME TypeOK, SignalMatchesFeature, [Next]_vars
      PROVE  SignalMatchesFeature'
  <2>1. ASSUME NEW d \in HasRow(fact_signals)
        PROVE  rsi'["1d"][d] = rsi["1d"][d]
    BY <1>2, <2>1, RsiRowsAreFinal
    DEF SignalMatchesFeature, HasRow, Temporalities
  <2>2. CASE fact_signals' = fact_signals
    BY <1>2, <2>1, <2>2 DEF SignalMatchesFeature, HasRow
  <2>3. CASE Signals
    <3>1. ASSUME NEW d \in HasRow(fact_signals')
          PROVE  \/ d \in HasRow(fact_signals) /\ fact_signals'[d] = fact_signals[d]
                 \/ SignalRows[d] # NoRow /\ fact_signals'[d] = SignalRows[d]
      BY <2>3, <3>1 DEF Signals, Merge, HasRow
    <3>2. ASSUME NEW d \in Days, SignalRows[d] # NoRow
          PROVE  /\ rsi["1d"][d] # NoRow
                 /\ ~ rsi["1d"][d].null
                 /\ SignalRows[d].daily = rsi["1d"][d].hist
      BY <3>2 DEF SignalRows
    <3> QED
      BY <1>2, <2>3, <3>1, <3>2 DEF SignalMatchesFeature, Signals, HasRow
  <2> QED
    BY <1>2, <2>2, <2>3
    DEF Next, StageStep, NextDay, PublishLate, Revise, DailyRun, LaunchByHand,
        Launch, HandIngest, Conform, Bootstrap, Incremental, Cleanup, Die,
        DieInConform, vars, source, tables, run
<1> QED
  BY <1>1, <1>2, TypeCorrect, PTL DEF Spec

\* A run is at a stage of its own: one that conforms entered by the conform stage,
\* and so does its re-launch.
StageOfRun ==
    /\ stage = "conform" => EntryStage(only) = "conform"
    /\ stage = "rsi1d" => only \in {"all", "rsi"}

LEMMA StageOfRunStep ==
    ASSUME TypeOK, StageOfRun, [Next]_vars
    PROVE  StageOfRun'
<1>1. CASE stage' = EntryStage(only')
  BY <1>1, TypeCorrectStep DEF EntryStage, StageArgs, StageOfRun, TypeOK
<1>2. CASE Conform
  BY <1>2
  DEF Conform, Goto, EndRun, LastStage, EntryStage, StageArgs, StageOfRun, TypeOK
<1>3. CASE stage' \notin {"conform", "rsi1d"}
  BY <1>3 DEF StageOfRun
<1> QED
  BY <1>1, <1>2, <1>3
  DEF Next, StageStep, NextDay, PublishLate, Revise, DailyRun, LaunchByHand,
      Launch, HandIngest, Bootstrap, Incremental, Signals, Cleanup, Die,
      DieInConform, Relaunch, RsiStage, AfterRsi, Goto, EndRun, StageOfRun, vars,
      run

\* While a run has yet to conform its range, silver may lag bronze inside the
\* range, but it never holds a candle bronze does not; elsewhere they agree.
SilverInv ==
    \A d \in Days :
        IF stage = "conform" /\ start <= d /\ d <= end
        THEN bronze[d] = NoRow => ohlcv["1d"][d] = NoRow
        ELSE ohlcv["1d"][d] = bronze[d]

LEMMA ConformedSilver ==
    ASSUME SilverInv, stage = "conform"
    PROVE  \A d \in Days : DailyMerged[d] = bronze[d]
BY DEF SilverInv, DailyMerged, Merge, Within

LEMMA SilverInvStep ==
    ASSUME "cleanup" \notin Env, "abandon" \notin Env, "ingest" \notin Env,
           TypeOK, StageOfRun, SilverInv, [Next]_vars
    PROVE  SilverInv'
<1>1. CASE Conform
  <2>1. ohlcv'["1d"] = DailyMerged
    BY <1>1 DEF Conform, TypeOK, Temporalities
  <2>2. stage' # "conform"
    BY <1>1 DEF Conform, Goto, EndRun
  <2> QED
    BY <1>1, <2>1, <2>2, ConformedSilver DEF Conform, SilverInv
<1>2. CASE Die
  <2>1. /\ UNCHANGED <<bronze, ohlcv, start, end>>
        /\ stage = "conform" => stage' = "conform"
    BY <1>2 DEF Die, Relaunch, StageOfRun, tables
  <2> QED
    BY <2>1 DEF SilverInv
<1>3. CASE DieInConform
  <2>1. ohlcv'["1d"] = DailyMerged
    BY <1>3 DEF DieInConform, TypeOK, Temporalities
  <2> QED
    BY <1>3, <2>1, ConformedSilver
    DEF DieInConform, Relaunch, StageOfRun, SilverInv
<1>4. CASE DailyRun
  <2>1. /\ stage = "idle" /\ stage' = "conform"
        /\ start' = WindowStart(today) /\ end' = today
        /\ bronze' = Ingested(WindowStart(today), today) /\ ohlcv' = ohlcv
    BY <1>4 DEF DailyRun, Launch, EntryStage
  <2> QED
    BY <2>1 DEF SilverInv, Ingested, Merge, Within
<1>5. ASSUME NEW arg, NEW first, NEW last, LaunchByHand(arg, first, last)
      PROVE  SilverInv'
  BY <1>5 DEF LaunchByHand, Launch, SilverInv
<1>6. CASE \E t \in Temporalities : Bootstrap(t) \/ Incremental(t)
  BY <1>6 DEF Bootstrap, Incremental, RsiStage, AfterRsi, Goto, EndRun, SilverInv
<1>7. CASE Signals
  BY <1>7 DEF Signals, EndRun, SilverInv
<1> QED
  BY <1>1, <1>2, <1>3, <1>4, <1>5, <1>6, <1>7
  DEF Next, StageStep, NextDay, PublishLate, Revise, HandIngest, Cleanup,
      SilverInv, vars, source, tables, run

\* Where every run is seen through and bronze has no other writer than the DAG,
\* silver holds between runs every candle of bronze at its latest price: the range
\* a launch conforms is the range its ingest fetched, through any number of
\* re-launches, back-fills and runs of a single stage.
THEOREM SilverMatchesBronzeHolds ==
    ASSUME "cleanup" \notin Env, "abandon" \notin Env, "ingest" \notin Env
    PROVE  Spec => []SilverMatchesBronze
<1>1. Init => StageOfRun /\ SilverInv
  BY DEF Init, StageOfRun, SilverInv, NoRows, Temporalities
<1>2. TypeOK /\ StageOfRun /\ SilverInv /\ [Next]_vars =>
         StageOfRun' /\ SilverInv'
  BY StageOfRunStep, SilverInvStep
<1>3. TypeOK /\ SilverInv => SilverMatchesBronze
  BY DEF TypeOK, SilverInv, SilverMatchesBronze, Candles, Temporalities
<1> QED
  BY <1>1, <1>2, <1>3, TypeCorrect, PTL DEF Spec

\* Bronze and silver where no price is ever revised: each layer may lack a candle
\* of the layer before it, and never holds another price for it.
CandlesAgree ==
    \A d \in Days :
        /\ d > today => exchange[d] = NoRow
        /\ bronze[d] \in {NoRow, exchange[d]}
        /\ ohlcv["1d"][d] \in {NoRow, bronze[d]}

LEMMA CandlesAgreeStep ==
    ASSUME "cleanup" \notin Env, "revise" \notin Env,
           TypeOK, CandlesAgree, [Next]_vars
    PROVE  CandlesAgree'
<1>1. CASE NextDay
  <2>1. \A d \in Days : /\ d # today + 1 => exchange'[d] = exchange[d]
                        /\ d > today' => d > today /\ d # today + 1
    BY <1>1 DEF NextDay, TypeOK, Candles, Days
  <2>2. \A d \in Days : d = today + 1 => exchange[d] = NoRow /\ bronze[d] = NoRow
                                         /\ ohlcv["1d"][d] = NoRow
    BY DEF CandlesAgree, TypeOK
  <2> QED
    BY <1>1, <2>1, <2>2 DEF NextDay, CandlesAgree, tables
<1>2. ASSUME NEW e \in Days, PublishLate(e)
      PROVE  CandlesAgree'
  BY <1>2 DEF PublishLate, CandlesAgree, TypeOK, Candles, Days, tables
<1>3. ASSUME NEW first, NEW last,
             bronze' = Ingested(first, last), UNCHANGED <<source, ohlcv>>
      PROVE  CandlesAgree'
  BY <1>3 DEF Ingested, CandlesAgree, Merge, Within, source
<1>4. CASE Conform \/ DieInConform
  <2>1. ohlcv'["1d"] = DailyMerged
    BY <1>4 DEF Conform, DieInConform, TypeOK, Temporalities
  <2>2. \A d \in Days : DailyMerged[d] \in {ohlcv["1d"][d], bronze[d]}
    BY DEF DailyMerged, Merge, Within
  <2> QED
    BY <1>4, <2>1, <2>2 DEF Conform, DieInConform, CandlesAgree, source
<1> QED
  BY <1>1, <1>2, <1>3, <1>4
  DEF Next, StageStep, Revise, DailyRun, LaunchByHand, Launch, HandIngest,
      Bootstrap, Incremental, Signals, Cleanup, Die, CandlesAgree, vars, source,
      tables, run

\* A silver row is never deleted, and where no price is revised never changed.
LEMMA SilverRowsAreFinal ==
    ASSUME "cleanup" \notin Env, TypeOK, CandlesAgree, [Next]_vars,
           NEW d \in Days, ohlcv["1d"][d] # NoRow
    PROVE  ohlcv'["1d"][d] = ohlcv["1d"][d]
<1>1. CASE Conform \/ DieInConform
  <2>1. ohlcv'["1d"] = DailyMerged
    BY <1>1 DEF Conform, DieInConform, TypeOK, Temporalities
  <2>2. DailyMerged[d] = ohlcv["1d"][d]
    BY DEF DailyMerged, Merge, Within, CandlesAgree
  <2> QED
    BY <2>1, <2>2
<1> QED
  BY <1>1
  DEF Next, StageStep, NextDay, PublishLate, Revise, DailyRun, LaunchByHand,
      Launch, HandIngest, Bootstrap, Incremental, Signals, Cleanup, Die, vars,
      source, tables, run

LEMMA RsiFoldsSilverStep ==
    ASSUME "cleanup" \notin Env, TypeOK, CandlesAgree, RsiFoldsSilver, [Next]_vars
    PROVE  RsiFoldsSilver'
<1>1. ASSUME NEW p \in HasRow(rsi["1d"]), NEW d \in Days
      PROVE  rsi["1d"][p].hist[d] \in {NoRow, ohlcv'["1d"][d]}
  BY SilverRowsAreFinal DEF RsiFoldsSilver
<1>2. CASE rsi'["1d"] = rsi["1d"]
  BY <1>1, <1>2 DEF RsiFoldsSilver
<1>3. CASE Bootstrap("1d")
  <2>1. /\ rsi'["1d"] = Merge(rsi["1d"], BootstrapRows(ohlcv["1d"]))
        /\ ohlcv' = ohlcv
        /\ HasRow(rsi["1d"]) = {}
    BY <1>3 DEF Bootstrap, TypeOK, Temporalities
  <2>2. ASSUME NEW p \in HasRow(rsi'["1d"])
        PROVE  rsi'["1d"][p].hist = Folded(NoRows, 0, ohlcv["1d"], p)
    BY <2>1, <2>2 DEF Merge, BootstrapRows, RsiRows, HasRow
  <2> QED
    BY <2>1, <2>2 DEF RsiFoldsSilver, Folded, NoRows
<1>4. CASE Incremental("1d")
  <2>1. PICK last \in HasRow(rsi["1d"]) :
          rsi' = [rsi EXCEPT !["1d"] =
                    Merge(rsi["1d"], IncrementalRows(rsi["1d"], last, ohlcv["1d"]))]
    BY <1>4 DEF Incremental
  <2>2. /\ rsi'["1d"] = Merge(rsi["1d"],
                              IncrementalRows(rsi["1d"], last, ohlcv["1d"]))
        /\ ohlcv' = ohlcv
    BY <1>4, <2>1 DEF Incremental, TypeOK, Temporalities
  <2>3. ASSUME NEW p \in HasRow(rsi'["1d"])
        PROVE  \/ p \in HasRow(rsi["1d"]) /\ rsi'["1d"][p] = rsi["1d"][p]
               \/ /\ p \in Days
                  /\ rsi'["1d"][p].hist =
                        Folded(rsi["1d"][last].hist, last, ohlcv["1d"], p)
    BY <2>2, <2>3 DEF Merge, IncrementalRows, RsiRows, HasRow
  <2>4. \A p, d \in Days :
           Folded(rsi["1d"][last].hist, last, ohlcv["1d"], p)[d]
              \in {rsi["1d"][last].hist[d], ohlcv["1d"][d], NoRow}
    BY DEF Folded
  <2> QED
    BY <1>1, <2>1, <2>2, <2>3, <2>4 DEF RsiFoldsSilver
<1>5. CASE Bootstrap("1w") \/ Incremental("1w")
  BY <1>2, <1>5 DEF Bootstrap, Incremental, TypeOK, Temporalities
<1> QED
  BY <1>2, <1>3, <1>4, <1>5, RsiUnchanged DEF Cleanup, Temporalities

\* Where no price is revised and nobody deletes rows, no RSI value ever rests on
\* a price that silver does not hold on that day, through incremental runs,
\* back-fills, re-launches and abandoned runs; it may only have missed a candle.
THEOREM RsiFoldsSilverHolds ==
    ASSUME "cleanup" \notin Env, "revise" \notin Env
    PROVE  Spec => []RsiFoldsSilver
<1>1. Init => CandlesAgree /\ RsiFoldsSilver
  BY DEF Init, CandlesAgree, RsiFoldsSilver, HasRow, NoRows, Temporalities
<1>2. TypeOK /\ CandlesAgree /\ [Next]_vars => CandlesAgree'
  BY CandlesAgreeStep
<1>3. TypeOK /\ CandlesAgree /\ RsiFoldsSilver /\ [Next]_vars => RsiFoldsSilver'
  BY RsiFoldsSilverStep
<1> QED
  BY <1>1, <1>2, <1>3, TypeCorrect, PTL DEF Spec

-----------------------------------------------------------------------------
(***************************************************************************)
(* Weekly candles.                                                         *)
(***************************************************************************)
\* Multiplication by a natural number keeps the order.
LEMMA TimesMonotone ==
    ASSUME NEW n \in Nat, NEW a \in Int, NEW b \in Int, a <= b
    PROVE  n * a <= n * b
OBVIOUS

\* A later day is not of an earlier week.
LEMMA MondayMonotone ==
    ASSUME NEW d \in Days, NEW e \in Days, d <= e
    PROVE  Monday(d) <= Monday(e)
<1>1. DaysPerWeek \in Nat /\ 0 < DaysPerWeek
  BY PipelineAssumption
<1> DEFINE q(x) == (x - 1) \div DaysPerWeek
           r(x) == (x - 1) % DaysPerWeek
<1>2. \A x \in Days : /\ q(x) \in Int /\ r(x) \in 0 .. DaysPerWeek - 1
                      /\ x - 1 = DaysPerWeek * q(x) + r(x)
  BY <1>1 DEF Days
<1>3. \A x \in Days : Monday(x) = x - r(x)
  BY DEF Monday
<1> HIDE DEF q, r
<1>4. CASE q(d) <= q(e)
  <2>1. DaysPerWeek * q(d) <= DaysPerWeek * q(e)
    BY <1>1, <1>2, <1>4, TimesMonotone
  <2> QED
    BY <1>1, <1>2, <1>3, <2>1 DEF Days
<1>5. CASE q(e) + 1 <= q(d)
  <2>1. DaysPerWeek * (q(e) + 1) <= DaysPerWeek * q(d)
    BY <1>1, <1>2, <1>5, TimesMonotone
  <2>2. DaysPerWeek * (q(e) + 1) = DaysPerWeek * q(e) + DaysPerWeek
    BY <1>1, <1>2
  <2> QED
    BY <1>1, <1>2, <1>5, <2>1, <2>2 DEF Days
<1> QED
  BY <1>2, <1>4, <1>5

\* The weekly close is decided by the daily rows of its week.
LEMMA WeeklyCloseOfWeek ==
    ASSUME NEW daily \in Candles, NEW other \in Candles, NEW m \in Days,
           \A d \in Days : Monday(d) = m => daily[d] = other[d]
    PROVE  Weekly(daily, 1)[m] = Weekly(other, 1)[m]
<1>1. WeekRows(daily, m) = WeekRows(other, m)
  BY DEF WeekRows, HasRow
<1>2. CASE WeekRows(daily, m) = {}
  BY <1>1, <1>2 DEF Weekly
<1>3. CASE WeekRows(daily, m) # {}
  <2> DEFINE last == CHOOSE d \in WeekRows(daily, m) :
                        \A e \in WeekRows(daily, m) : e <= d
  <2>1. WeekRows(daily, m) \in SUBSET Days
    BY DEF WeekRows, HasRow
  <2>2. last \in WeekRows(daily, m)
    BY <1>3, <2>1, LatestDay
  <2>3. daily[last] = other[last]
    BY <2>2 DEF WeekRows, HasRow
  <2> QED
    BY <1>1, <2>3 DEF Weekly, WeeklyClose
<1> QED
  BY <1>2, <1>3

\* Every week of the calendar is from the week of day 1 on.
LEMMA WholeCalendar ==
    ASSUME NEW daily, NEW m \in Days
    PROVE  Weekly(daily, 1)[m] = IF WeekRows(daily, m) # {}
                                 THEN WeeklyClose(daily, m) ELSE NoRow
<1>1. Monday(1) = 1
  BY PipelineAssumption, MondayType DEF Days
<1> QED
  BY <1>1 DEF Weekly, Days

\* A run that is not over has a range of days of the calendar.
RunHasRange == stage # "idle" => start \in Days

LEMMA RunHasRangeStep ==
    ASSUME TypeOK, RunHasRange, [Next]_vars
    PROVE  RunHasRange'
<1>1. CASE DailyRun
  <2>1. WindowStart(today) \in Days
    BY <1>1, PipelineAssumption DEF DailyRun, WindowStart, TypeOK, Days
  <2> QED
    BY <1>1, <2>1 DEF DailyRun, Launch, RunHasRange
<1> QED
  BY <1>1
  DEF Next, StageStep, NextDay, PublishLate, Revise, LaunchByHand, Launch,
      HandIngest, Conform, Bootstrap, Incremental, Signals, Cleanup, Die,
      DieInConform, Relaunch, RsiStage, Goto, EndRun, RunHasRange, vars, run

\* From the week of a run's range on, while the run has yet to conform, the weekly
\* candles may lag the daily rows; elsewhere they are their aggregate.
WeeklyInv ==
    \A m \in Days :
        IF stage = "conform" /\ Monday(start) <= m
        THEN WeekRows(ohlcv["1d"], m) = {} => ohlcv["1w"][m] = NoRow
        ELSE ohlcv["1w"][m] = Weekly(ohlcv["1d"], 1)[m]

\* What conform does to the weeks before its range, and from its week on.
LEMMA ConformedWeeks ==
    ASSUME TypeOK, RunHasRange, WeeklyInv, stage = "conform", NEW m \in Days
    PROVE  /\ m < Monday(start) =>
                Weekly(DailyMerged, 1)[m] = Weekly(ohlcv["1d"], 1)[m]
           /\ WeekRows(DailyMerged, m) = {} => WeekRows(ohlcv["1d"], m) = {}
           /\ WeeklyMerged(DailyMerged, start)[m] = Weekly(DailyMerged, 1)[m]
<1>1. DailyMerged \in Candles /\ ohlcv["1d"] \in Candles /\ start \in Days
  BY ConformTypes DEF TypeOK, RunHasRange, Temporalities
<1>2. Monday(start) \in Int
  BY <1>1, MondayType
<1>3. ASSUME m < Monday(start)
      PROVE  Weekly(DailyMerged, 1)[m] = Weekly(ohlcv["1d"], 1)[m]
  <2>1. ASSUME NEW d \in Days, Monday(d) = m
        PROVE  DailyMerged[d] = ohlcv["1d"][d]
    <3>1. d < start
      BY <1>1, <1>2, <1>3, <2>1, MondayMonotone DEF Days
    <3> QED
      BY <1>1, <3>1 DEF DailyMerged, Merge, Within, Days
  <2> QED
    BY <1>1, <2>1, WeeklyCloseOfWeek
<1>4. ASSUME WeekRows(DailyMerged, m) = {}
      PROVE  WeekRows(ohlcv["1d"], m) = {}
  BY <1>4 DEF WeekRows, HasRow, DailyMerged, Merge, Within
<1>5. WeeklyMerged(DailyMerged, start)[m] = Weekly(DailyMerged, 1)[m]
  <2>1. CASE m < Monday(start)
    <3>1. Weekly(DailyMerged, start)[m] = NoRow
      BY <1>2, <2>1 DEF Weekly, Days
    <3>2. ohlcv["1w"][m] = Weekly(ohlcv["1d"], 1)[m]
      BY <1>2, <2>1 DEF WeeklyInv, Days
    <3> QED
      BY <1>3, <2>1, <3>1, <3>2 DEF WeeklyMerged, Merge
  <2>2. CASE Monday(start) <= m /\ WeekRows(DailyMerged, m) = {}
    <3>1. Weekly(DailyMerged, start)[m] = NoRow
      BY <2>2 DEF Weekly
    <3>2. ohlcv["1w"][m] = NoRow
      BY <1>4, <2>2 DEF WeeklyInv
    <3> QED
      BY <2>2, <3>1, <3>2, WholeCalendar DEF WeeklyMerged, Merge
  <2>3. CASE Monday(start) <= m /\ WeekRows(DailyMerged, m) # {}
    <3>1. Weekly(DailyMerged, start)[m] = WeeklyClose(DailyMerged, m)
      BY <2>3 DEF Weekly
    <3>2. WeeklyClose(DailyMerged, m) # NoRow
      BY <1>1, <2>3, WeeklyCloseType, PipelineAssumption
    <3> QED
      BY <2>3, <3>1, <3>2, WholeCalendar DEF WeeklyMerged, Merge
  <2> QED
    BY <1>2, <2>1, <2>2, <2>3 DEF Days
<1> QED
  BY <1>3, <1>4, <1>5

\* A weekly candle that is the aggregate of its week is none of an empty week.
LEMMA EmptyWeek ==
    ASSUME WeeklyInv, NEW m \in Days, WeekRows(ohlcv["1d"], m) = {}
    PROVE  ohlcv["1w"][m] = NoRow
BY WholeCalendar DEF WeeklyInv

LEMMA WeeklyInvStep ==
    ASSUME "cleanup" \notin Env, "abandon" \notin Env,
           TypeOK, RunHasRange, StageOfRun, WeeklyInv, [Next]_vars
    PROVE  WeeklyInv'
<1>1. CASE Conform
  <2>1. /\ ohlcv'["1d"] = DailyMerged
        /\ ohlcv'["1w"] = WeeklyMerged(DailyMerged, start)
        /\ stage' # "conform"
    BY <1>1 DEF Conform, Goto, EndRun, TypeOK, Temporalities
  <2>2. \A m \in Days :
           WeeklyMerged(DailyMerged, start)[m] = Weekly(DailyMerged, 1)[m]
    BY <1>1, ConformedWeeks DEF Conform
  <2> QED
    BY <1>1, <2>1, <2>2 DEF WeeklyInv, Conform
<1>2. CASE DieInConform
  <2>1. /\ ohlcv'["1d"] = DailyMerged
        /\ ohlcv'["1w"] = ohlcv["1w"]
        /\ stage = "conform" /\ stage' = "conform" /\ start' = start
    BY <1>2 DEF DieInConform, Relaunch, StageOfRun, TypeOK, Temporalities
  <2>2. start \in Days /\ Monday(start) \in Int
    BY <2>1, MondayType DEF RunHasRange
  <2>3. ASSUME NEW m \in Days
        PROVE  IF Monday(start) <= m
               THEN WeekRows(DailyMerged, m) = {} => ohlcv["1w"][m] = NoRow
               ELSE ohlcv["1w"][m] = Weekly(DailyMerged, 1)[m]
    <3>1. CASE Monday(start) <= m
      BY <2>1, <3>1, ConformedWeeks, EmptyWeek
    <3>2. CASE ~ (Monday(start) <= m)
      <4>1. m < Monday(start)
        BY <2>2, <3>2 DEF Days
      <4>2. Weekly(DailyMerged, 1)[m] = Weekly(ohlcv["1d"], 1)[m]
        BY <2>1, <4>1, ConformedWeeks
      <4> QED
        BY <2>1, <3>2, <4>2 DEF WeeklyInv
    <3> QED
      BY <3>1, <3>2
  <2> QED
    BY <2>1, <2>2, <2>3 DEF WeeklyInv
<1>3. CASE Die
  <2>1. /\ ohlcv' = ohlcv /\ start' = start
        /\ stage = "conform" => stage' = "conform"
    BY <1>3 DEF Die, Relaunch, StageOfRun, tables
  <2>2. \A m \in Days : WeekRows(ohlcv["1d"], m) = {} => ohlcv["1w"][m] = NoRow
    BY EmptyWeek
  <2> QED
    BY <2>1, <2>2 DEF WeeklyInv
<1>4. CASE stage = "idle" /\ ohlcv' = ohlcv
  <2>1. \A m \in Days : WeekRows(ohlcv["1d"], m) = {} => ohlcv["1w"][m] = NoRow
    BY EmptyWeek
  <2>2. \A m \in Days : ohlcv["1w"][m] = Weekly(ohlcv["1d"], 1)[m]
    BY <1>4 DEF WeeklyInv
  <2> QED
    BY <1>4, <2>1, <2>2 DEF WeeklyInv
<1>5. CASE \E t \in Temporalities : Bootstrap(t) \/ Incremental(t)
  BY <1>5 DEF Bootstrap, Incremental, RsiStage, AfterRsi, Goto, EndRun, WeeklyInv
<1>6. CASE Signals
  BY <1>6 DEF Signals, EndRun, WeeklyInv
<1> QED
  BY <1>1, <1>2, <1>3, <1>4, <1>5, <1>6
  DEF Next, StageStep, NextDay, PublishLate, Revise, DailyRun, LaunchByHand,
      Launch, HandIngest, Cleanup, WeeklyInv, vars, source, tables, run

LEMMA WeeklyInvInit == Init => WeeklyInv
<1>1. ASSUME Init, NEW m \in Days
      PROVE  ohlcv["1w"][m] = Weekly(ohlcv["1d"], 1)[m]
  BY <1>1, WholeCalendar DEF Init, NoRows, Temporalities, WeekRows, HasRow
<1> QED
  BY <1>1 DEF WeeklyInv, Init

\* Where every run is seen through, the weekly candle of every week, also of the
\* weeks after a back-filled range and of the week it cuts in two, is between runs
\* the aggregate of all the daily rows of its week.
THEOREM WeeklyMatchesDailyHolds ==
    ASSUME "cleanup" \notin Env, "abandon" \notin Env
    PROVE  Spec => []WeeklyMatchesDaily
<1>1. Init => WeeklyInv
  BY WeeklyInvInit
<1>2. Init => RunHasRange /\ StageOfRun
  BY DEF Init, RunHasRange, StageOfRun
<1>3. TypeOK /\ RunHasRange /\ StageOfRun /\ [Next]_vars =>
         RunHasRange' /\ StageOfRun'
  BY RunHasRangeStep, StageOfRunStep
<1>4. TypeOK /\ RunHasRange /\ StageOfRun /\ WeeklyInv /\ [Next]_vars =>
         WeeklyInv'
  BY WeeklyInvStep
<1>5. TypeOK /\ WeeklyInv => WeeklyMatchesDaily
  <2> SUFFICES ASSUME TypeOK, WeeklyInv, stage = "idle"
               PROVE  ohlcv["1w"] = Weekly(ohlcv["1d"], 1)
    BY DEF WeeklyMatchesDaily
  <2>1. \A m \in Days : ohlcv["1w"][m] = Weekly(ohlcv["1d"], 1)[m]
    BY DEF WeeklyInv
  <2> QED
    BY <2>1 DEF TypeOK, Candles, Weekly, Temporalities
<1> QED
  BY <1>1, <1>2, <1>3, <1>4, <1>5, TypeCorrect, PTL DEF Spec

-----------------------------------------------------------------------------
(***************************************************************************)
(* What a launch that ends has achieved, whatever happened before it.      *)
(***************************************************************************)
\* A row that an RSI stage builds is a row.
LEMMA BuiltRowIsRow ==
    ASSUME NEW prior \in Candles, NEW candles \in Candles, NEW last, NEW warmUp,
           NEW p \in Days, last < p, candles[p] # NoRow
    PROVE  RsiRows(prior, last, candles, warmUp)[p] # NoRow
<1>1. RsiRows(prior, last, candles, warmUp)[p] =
         [hist |-> Folded(prior, last, candles, p), null |-> p \in warmUp]
  BY DEF RsiRows
<1>2. Folded(prior, last, candles, p) \in Candles /\ (p \in warmUp) \in BOOLEAN
  BY FoldedType
<1>3. RsiRows(prior, last, candles, warmUp)[p] \in RsiRow
  BY <1>1, <1>2 DEF RsiRow
<1> QED
  BY <1>3, RowAssumption

\* The recursion of a temporality has reached its last candle.
CaughtUp(t) == \A d \in HasRow(ohlcv[t]) : \E p \in HasRow(rsi[t]) : d <= p

\* Either RSI mode brings its temporality up to date.
LEMMA RsiCatchesUp ==
    ASSUME TypeOK, NEW t \in Temporalities, Bootstrap(t) \/ Incremental(t)
    PROVE  CaughtUp(t)'
<1>1. ohlcv[t] \in Candles /\ NoRows \in Candles
  BY NoRowsType, TypeOKTables DEF TypeOK
<1>2. CASE Bootstrap(t)
  <2>1. rsi'[t] = Merge(rsi[t], BootstrapRows(ohlcv[t])) /\ ohlcv' = ohlcv
    BY <1>2 DEF Bootstrap, TypeOK
  <2>2. ASSUME NEW d \in HasRow(ohlcv[t])
        PROVE  d \in HasRow(rsi'[t]) /\ d <= d
    <3>1. BootstrapRows(ohlcv[t])[d] # NoRow
      BY <1>1, BuiltRowIsRow DEF BootstrapRows, HasRow, Days
    <3> QED
      BY <2>1, <3>1 DEF Merge, HasRow, Days
  <2> QED
    BY <2>1, <2>2 DEF CaughtUp
<1>3. CASE Incremental(t)
  <2>1. PICK last \in HasRow(rsi[t]) :
          rsi' = [rsi EXCEPT
                   ![t] = Merge(rsi[t], IncrementalRows(rsi[t], last, ohlcv[t]))]
    BY <1>3 DEF Incremental
  <2>2. /\ rsi'[t] = Merge(rsi[t], IncrementalRows(rsi[t], last, ohlcv[t]))
        /\ ohlcv' = ohlcv
    BY <1>3, <2>1 DEF Incremental, TypeOK
  <2>3. last \in HasRow(rsi'[t])
    BY <2>2 DEF Merge, HasRow
  <2>4. rsi[t][last].hist \in Candles
    BY DEF TypeOK, HasRow, RsiRow
  <2>5. ASSUME NEW d \in HasRow(ohlcv[t]), last < d
        PROVE  d \in HasRow(rsi'[t]) /\ d <= d
    <3>1. IncrementalRows(rsi[t], last, ohlcv[t])[d] # NoRow
      BY <1>1, <2>4, <2>5, BuiltRowIsRow DEF IncrementalRows, HasRow
    <3> QED
      BY <2>2, <3>1 DEF Merge, HasRow, Days
  <2> QED
    BY <2>2, <2>3, <2>5 DEF CaughtUp, HasRow, Days
<1> QED
  BY <1>2, <1>3

\* Silver holds every candle bronze has in the range of the run, and from the week
\* of its start on the weekly candles are those of their daily rows.
RangeInSilver ==
    /\ \A d \in Days :
        start <= d /\ d <= end /\ bronze[d] # NoRow => ohlcv["1d"][d] = bronze[d]
    /\ \A m \in Days :
        Monday(start) <= m /\ WeekRows(ohlcv["1d"], m) # {} =>
            ohlcv["1w"][m] = WeeklyClose(ohlcv["1d"], m)

\* What each stage of a whole run has done by the time a later one runs.
StagesDone == only = "all" =>
    /\ stage \in {"rsi1d", "rsi1w", "signals"} => RangeInSilver
    /\ stage \in {"rsi1w", "signals"} => CaughtUp("1d")
    /\ stage = "signals" => CaughtUp("1w")

\* A run has a range of days that are over.
RunIsOver == stage # "idle" => start \in Days /\ start <= end /\ end <= today

\* No table has a daily row of a day that is not over.
NothingEarly ==
    \A d \in Days : d > today =>
        /\ exchange[d] = NoRow
        /\ bronze[d] = NoRow
        /\ ohlcv["1d"][d] = NoRow
        /\ rsi["1d"][d] = NoRow

LaunchInv == StagesDone /\ RunIsOver /\ NothingEarly

LEMMA StagesDoneStep ==
    ASSUME "ingest" \notin Env, TypeOK, StagesDone, [Next]_vars
    PROVE  StagesDone'
<1>1. CASE Conform
  <2>1. /\ ohlcv'["1d"] = DailyMerged
        /\ ohlcv'["1w"] = WeeklyMerged(DailyMerged, start)
        /\ \/ stage' = "idle"
           \/ stage' = "rsi1d" /\ start' = start /\ end' = end
        /\ bronze' = bronze
        /\ DailyMerged \in Candles
    BY <1>1, ConformTypes DEF Conform, Goto, EndRun, TypeOK, Temporalities
  <2>2. ASSUME NEW d \in Days, start <= d, d <= end, bronze[d] # NoRow
        PROVE  DailyMerged[d] = bronze[d]
    BY <2>2 DEF DailyMerged, Merge, Within
  <2>3. ASSUME NEW m \in Days,
               Monday(start) <= m, WeekRows(DailyMerged, m) # {}
        PROVE  WeeklyMerged(DailyMerged, start)[m] = WeeklyClose(DailyMerged, m)
    <3>1. WeeklyClose(DailyMerged, m) # NoRow
      BY <2>1, <2>3, WeeklyCloseType, PipelineAssumption
    <3> QED
      BY <2>3, <3>1 DEF WeeklyMerged, Weekly, Merge
  <2>4. stage' # "idle" => RangeInSilver'
    BY <2>1, <2>2, <2>3 DEF RangeInSilver
  <2> QED
    BY <2>1, <2>4 DEF StagesDone
<1>2. ASSUME NEW t \in Temporalities, Bootstrap(t) \/ Incremental(t)
      PROVE  StagesDone'
  <2>1. /\ stage = RsiStage(t)
        /\ \/ stage' = "idle"
           \/ /\ stage' = AfterRsi(t)
              /\ UNCHANGED <<only, start, end>>
        /\ ohlcv' = ohlcv /\ bronze' = bronze
        /\ \A u \in Temporalities : u # t => rsi'[u] = rsi[u]
    BY <1>2 DEF Bootstrap, Incremental, Goto, EndRun, TypeOK
  <2>2. stage' # "idle" /\ only = "all" => RangeInSilver'
    BY <2>1 DEF StagesDone, RangeInSilver, RsiStage
  <2>3. CaughtUp(t)'
    BY <1>2, RsiCatchesUp
  <2>4. t = "1w" /\ only = "all" => CaughtUp("1d")'
    BY <2>1 DEF StagesDone, CaughtUp, RsiStage, Temporalities
  <2> QED
    BY <2>1, <2>2, <2>3, <2>4 DEF StagesDone, AfterRsi, Temporalities
<1>3. CASE Signals \/ Die \/ DieInConform
  BY <1>3
  DEF Signals, Die, DieInConform, EndRun, Relaunch, EntryStage, StagesDone
<1>4. CASE stage' = "idle" \/ stage' = "conform" \/ only' # "all"
  BY <1>4 DEF StagesDone
<1>5. CASE /\ UNCHANGED <<bronze, ohlcv, rsi, stage, only, start, end>>
  BY <1>5 DEF StagesDone, RangeInSilver, CaughtUp
<1> QED
  BY <1>1, <1>2, <1>3, <1>4, <1>5
  DEF Next, StageStep, NextDay, PublishLate, Revise, DailyRun, LaunchByHand,
      Launch, HandIngest, EntryStage, Cleanup, vars, source, tables, run

LEMMA RunIsOverStep ==
    ASSUME TypeOK, RunIsOver, [Next]_vars
    PROVE  RunIsOver'
<1>1. CASE DailyRun
  <2>1. WindowStart(today) \in Days /\ WindowStart(today) <= today
    BY <1>1, PipelineAssumption DEF DailyRun, WindowStart, TypeOK, Days
  <2> QED
    BY <1>1, <2>1, PipelineAssumption
    DEF DailyRun, Launch, RunIsOver, TypeOK, source
<1> QED
  BY <1>1
  DEF Next, StageStep, NextDay, PublishLate, Revise, LaunchByHand, Launch,
      HandIngest, Conform, Bootstrap, Incremental, Signals, Cleanup, Die,
      DieInConform, Relaunch, RsiStage, Goto, EndRun, RunIsOver, vars, source,
      run

LEMMA NothingEarlyStep ==
    ASSUME TypeOK, NothingEarly, [Next]_vars
    PROVE  NothingEarly'
<1>1. CASE NextDay
  BY <1>1 DEF NextDay, NothingEarly, TypeOK, Candles, Days, tables
<1>2. ASSUME NEW d \in Days, PublishLate(d) \/ Revise(d)
      PROVE  NothingEarly'
  <2>1. d <= today
    BY <1>2 DEF PublishLate, Revise, NothingEarly, TypeOK, Days
  <2>2. /\ UNCHANGED <<today, bronze, ohlcv, rsi>>
        /\ \A e \in Days : e # d => exchange'[e] = exchange[e]
    BY <1>2 DEF PublishLate, Revise, TypeOK, Candles, tables
  <2>3. ASSUME NEW e \in Days, e > today
        PROVE  /\ e > today /\ exchange'[e] = exchange[e]
    BY <2>1, <2>2, <2>3 DEF TypeOK, Days
  <2> QED
    BY <2>2, <2>3 DEF NothingEarly
<1>3. ASSUME NEW first, NEW last,
             bronze' = Ingested(first, last), UNCHANGED <<source, ohlcv, rsi>>
      PROVE  NothingEarly'
  BY <1>3 DEF Ingested, Merge, Within, NothingEarly, source
<1>4. CASE Conform \/ DieInConform
  <2>1. ohlcv'["1d"] = DailyMerged
    BY <1>4 DEF Conform, DieInConform, TypeOK, Temporalities
  <2> QED
    BY <1>4, <2>1
    DEF Conform, DieInConform, DailyMerged, Merge, Within, NothingEarly, source
<1>5. ASSUME NEW t \in Temporalities, Bootstrap(t) \/ Incremental(t)
      PROVE  NothingEarly'
  <2>1. UNCHANGED <<today, exchange, bronze, ohlcv>>
    BY <1>5 DEF Bootstrap, Incremental, source
  <2>2. ASSUME NEW d \in Days, rsi["1d"][d] = NoRow, ohlcv["1d"][d] = NoRow
        PROVE  rsi'["1d"][d] = NoRow
    BY <1>5, <2>2
    DEF Bootstrap, Incremental, Merge, BootstrapRows, IncrementalRows, RsiRows,
        TypeOK, Temporalities
  <2> QED
    BY <2>1, <2>2 DEF NothingEarly
<1>6. ASSUME NEW T, NEW first, NEW last, NEW targets,
             Cleanup(T, first, last, targets)
      PROVE  NothingEarly'
  BY <1>6
  DEF Cleanup, DeletedIn, Deleted, NothingEarly, TypeOK, Temporalities, source
<1>7. CASE Signals \/ Die \/ UNCHANGED vars
  BY <1>7 DEF Signals, Die, NothingEarly, vars, source, tables
<1> QED
  BY <1>1, <1>2, <1>3, <1>4, <1>5, <1>6, <1>7
  DEF Next, StageStep, DailyRun, LaunchByHand, Launch, HandIngest, NothingEarly,
      source

\* When the signals stage ends a run of all stages, whatever was late, revised,
\* deleted or abandoned before it: silver holds its range, daily and weekly; both
\* recursions have reached their last candle; and if it ran up to today and today's
\* candle is in bronze, that day has its RSI row and, outside the warm-up, its
\* signal.
LaunchDelivers ==
    [][Signals /\ only = "all" =>
        /\ RangeInSilver
        /\ \A t \in Temporalities : CaughtUp(t)
        /\ end = today /\ bronze[today] # NoRow =>
            /\ rsi["1d"][today] # NoRow
            /\ rsi["1d"][today].null \/ fact_signals'[today] # NoRow]_vars

LEMMA BuiltSignalIsRow ==
    ASSUME TypeOK, NEW d \in Days, start <= d, d <= end,
           rsi["1d"][d] # NoRow, ~ rsi["1d"][d].null
    PROVE  SignalRows[d] # NoRow
<1>1. SignalRows[d] = [daily |-> rsi["1d"][d].hist, trend |-> TrendOf(d)]
  BY DEF SignalRows
<1>2. rsi["1d"][d].hist \in Candles
  BY DEF TypeOK, RsiRow, Temporalities
<1>3. TrendOf(d) \in [Days -> Candles \cup {NoRow}]
  BY DEF TrendOf, PublishedWeeks, HasRow, TypeOK, RsiRow, Temporalities
<1>4. SignalRows[d] \in Signal
  BY <1>1, <1>2, <1>3 DEF Signal
<1> QED
  BY <1>4, RowAssumption

\* The safety half of the liveness properties, under every disturbance but an
\* ingest by hand, which may change bronze after the run has read it: what is left
\* to fairness is that a launch ends.
THEOREM LaunchDeliversHolds ==
    ASSUME "ingest" \notin Env
    PROVE  Spec => LaunchDelivers
<1>1. Init => LaunchInv
  BY DEF Init, LaunchInv, StagesDone, RunIsOver, NothingEarly, NoRows,
         Temporalities
<1>2. TypeOK /\ LaunchInv /\ [Next]_vars => LaunchInv'
  BY StagesDoneStep, RunIsOverStep, NothingEarlyStep DEF LaunchInv
<1>3. ASSUME TypeOK, LaunchInv, Signals, only = "all"
      PROVE  /\ RangeInSilver
             /\ \A t \in Temporalities : CaughtUp(t)
             /\ end = today /\ bronze[today] # NoRow =>
                 /\ rsi["1d"][today] # NoRow
                 /\ rsi["1d"][today].null \/ fact_signals'[today] # NoRow
  <2>1. RangeInSilver /\ CaughtUp("1d") /\ CaughtUp("1w")
    BY <1>3 DEF LaunchInv, StagesDone, Signals
  <2>2. ASSUME end = today, bronze[today] # NoRow
        PROVE  /\ rsi["1d"][today] # NoRow
               /\ rsi["1d"][today].null \/ fact_signals'[today] # NoRow
    <3>1. today \in Days /\ start <= today
      BY <1>3, <2>2 DEF LaunchInv, RunIsOver, Signals, TypeOK, Days
    <3>2. today \in HasRow(ohlcv["1d"])
      BY <2>1, <2>2, <3>1 DEF RangeInSilver, HasRow, Days
    <3>3. PICK p \in HasRow(rsi["1d"]) : today <= p
      BY <2>1, <3>2 DEF CaughtUp
    <3>4. rsi["1d"][today] # NoRow
      BY <1>3, <3>1, <3>3 DEF LaunchInv, NothingEarly, HasRow, Days
    <3>5. ASSUME ~ rsi["1d"][today].null
          PROVE  fact_signals'[today] # NoRow
      <4>1. SignalRows[today] # NoRow
        BY <1>3, <2>2, <3>1, <3>4, <3>5, BuiltSignalIsRow DEF Days, TypeOK
      <4> QED
        BY <1>3, <3>1, <4>1 DEF Signals, Merge
    <3> QED
      BY <3>4, <3>5
  <2> QED
    BY <2>1, <2>2 DEF Temporalities
<1> QED
  BY <1>1, <1>2, <1>3, TypeCorrect, PTL DEF Spec, LaunchDelivers

-----------------------------------------------------------------------------
(***************************************************************************)
(* A published signal is never repainted.                                  *)
(***************************************************************************)
\* When the signals stage runs, the weekly recursion has passed the week of every
\* day it may publish.
WeeksArePassed ==
    stage = "signals" =>
        \A d \in HasRow(rsi["1d"]) :
            start <= d => \E v \in HasRow(rsi["1w"]) : Monday(d) <= v

\* The signals stage would write a published signal as it is, and the weekly
\* recursion has passed the weeks its trend depends on.
SignalIsFinal(d) ==
    /\ fact_signals[d] = [daily |-> rsi["1d"][d].hist, trend |-> TrendOf(d)]
    /\ rsi["1d"][d] # NoRow
    /\ \E v \in HasRow(rsi["1w"]) : Monday(d) <= v

PublishedIsFinal == \A d \in HasRow(fact_signals) : SignalIsFinal(d)

FeatureHasCandle == HasRow(rsi["1d"]) \subseteq HasRow(ohlcv["1d"])

\* Silver loses no row.
LEMMA SilverRowsStay ==
    ASSUME TypeOK, "cleanup" \notin Env, [Next]_vars, NEW d \in HasRow(ohlcv["1d"])
    PROVE  d \in HasRow(ohlcv'["1d"])
<1>1. CASE Conform \/ DieInConform
  <2>1. ohlcv'["1d"] = DailyMerged
    BY <1>1 DEF Conform, DieInConform, TypeOK, Temporalities
  <2> QED
    BY <2>1 DEF DailyMerged, Merge, Within, HasRow
<1> QED
  BY <1>1
  DEF Next, StageStep, NextDay, PublishLate, Revise, DailyRun, LaunchByHand,
      Launch, HandIngest, Bootstrap, Incremental, Signals, Cleanup, Die, vars,
      source, tables, run

LEMMA FeatureHasCandleStep ==
    ASSUME "cleanup" \notin Env, TypeOK, FeatureHasCandle, [Next]_vars
    PROVE  FeatureHasCandle'
<1>1. HasRow(rsi'["1d"]) \subseteq HasRow(rsi["1d"]) \cup HasRow(ohlcv["1d"])
  <2>1. CASE rsi' = rsi
    BY <2>1
  <2>2. ASSUME NEW t \in Temporalities, Bootstrap(t)
        PROVE  HasRow(rsi'["1d"]) \subseteq HasRow(rsi["1d"]) \cup HasRow(ohlcv["1d"])
    BY <2>2 DEF Bootstrap, TypeOK, Merge, BootstrapRows, RsiRows, HasRow,
                Temporalities
  <2>3. ASSUME NEW t \in Temporalities, Incremental(t)
        PROVE  HasRow(rsi'["1d"]) \subseteq HasRow(rsi["1d"]) \cup HasRow(ohlcv["1d"])
    BY <2>3 DEF Incremental, TypeOK, Merge, IncrementalRows, RsiRows, HasRow,
                Temporalities
  <2> QED
    BY <2>1, <2>2, <2>3, RsiUnchanged DEF Cleanup
<1> QED
  BY <1>1, SilverRowsStay DEF FeatureHasCandle

\* A weekly RSI row that a step adds comes after all that were there.
LEMMA NewWeeksAreLater ==
    ASSUME "cleanup" \notin Env, TypeOK, [Next]_vars,
           NEW v \in HasRow(rsi["1w"]), NEW w \in Days, w <= v
    PROVE  rsi'["1w"][w] = rsi["1w"][w]
<1>1. CASE rsi' = rsi
  BY <1>1
<1>2. ASSUME NEW t \in Temporalities, Bootstrap(t)
      PROVE  rsi'["1w"][w] = rsi["1w"][w]
  BY <1>2 DEF Bootstrap, TypeOK, Temporalities
<1>3. ASSUME NEW t \in Temporalities, Incremental(t)
      PROVE  rsi'["1w"][w] = rsi["1w"][w]
  <2>1. PICK last \in HasRow(rsi[t]) :
          /\ \A d \in HasRow(rsi[t]) : d <= last
          /\ rsi' = [rsi EXCEPT
                ![t] = Merge(rsi[t], IncrementalRows(rsi[t], last, ohlcv[t]))]
    BY <1>3 DEF Incremental
  <2>2. CASE t = "1w"
    BY <2>1, <2>2
    DEF Merge, IncrementalRows, RsiRows, HasRow, Days, TypeOK, Temporalities
  <2>3. CASE t # "1w"
    BY <2>1, <2>3 DEF TypeOK, Temporalities
  <2> QED
    BY <2>2, <2>3
<1> QED
  BY <1>1, <1>2, <1>3, RsiUnchanged DEF Cleanup

\* So the trend of a day that the recursion has passed is settled.
LEMMA TrendIsSettled ==
    ASSUME "cleanup" \notin Env, TypeOK, [Next]_vars, NEW d \in Days,
           NEW v \in HasRow(rsi["1w"]), Monday(d) <= v
    PROVE  TrendOf(d)' = TrendOf(d)
<1>1. Monday(d) \in Days
  BY MondayInDays
<1>2. \A w \in Days : w <= Monday(d) => rsi'["1w"][w] = rsi["1w"][w]
  BY <1>1, NewWeeksAreLater DEF HasRow, Days
<1>3. \A w \in Days : w <= Monday(d) =>
         (w \in PublishedWeeks <=> w \in PublishedWeeks')
  BY <1>2 DEF PublishedWeeks, HasRow
<1>4. \A w \in Days : TrendOf(d)'[w] = TrendOf(d)[w]
  <2> SUFFICES ASSUME NEW w \in Days PROVE TrendOf(d)'[w] = TrendOf(d)[w]
    OBVIOUS
  <2>1. CASE w <= Monday(d)
    BY <1>1, <1>2, <1>3, <2>1 DEF TrendOf, PublishedWeeks, HasRow
  <2>2. CASE ~ (w <= Monday(d))
    BY <1>1, <2>2 DEF TrendOf, PublishedWeeks, HasRow, Days
  <2> QED
    BY <2>1, <2>2
<1> QED
  BY <1>4 DEF TrendOf

\* What a run of the signals stage builds is final.
LEMMA BuiltSignalIsFinal ==
    ASSUME WeeksArePassed, stage = "signals", NEW d \in Days, SignalRows[d] # NoRow
    PROVE  /\ SignalRows[d] = [daily |-> rsi["1d"][d].hist, trend |-> TrendOf(d)]
           /\ rsi["1d"][d] # NoRow
           /\ \E v \in HasRow(rsi["1w"]) : Monday(d) <= v
BY DEF SignalRows, WeeksArePassed, HasRow

\* A step writes a signal only where there was none, or as it was.
LEMMA SignalsAreFinal ==
    ASSUME "cleanup" \notin Env, TypeOK, WeeksArePassed, PublishedIsFinal, [Next]_vars
    PROVE  /\ \A d \in HasRow(fact_signals) : fact_signals'[d] = fact_signals[d]
           /\ PublishedIsFinal'
<1>1. ASSUME NEW d \in Days, rsi["1d"][d] # NoRow,
             NEW v \in HasRow(rsi["1w"]), Monday(d) <= v
      PROVE  /\ rsi'["1d"][d] = rsi["1d"][d]
             /\ TrendOf(d)' = TrendOf(d)
             /\ v \in HasRow(rsi'["1w"])
  <2>1. rsi'["1d"][d] = rsi["1d"][d] /\ rsi'["1w"][v] = rsi["1w"][v]
    BY <1>1, RsiRowsAreFinal DEF HasRow, Temporalities
  <2> QED
    BY <1>1, <2>1, TrendIsSettled DEF HasRow
<1>2. CASE fact_signals' = fact_signals
  <2>1. ASSUME NEW d \in HasRow(fact_signals)
        PROVE  SignalIsFinal(d)'
    <3>1. SignalIsFinal(d) /\ d \in Days
      BY DEF PublishedIsFinal, HasRow
    <3> QED
      BY <1>1, <1>2, <3>1 DEF SignalIsFinal
  <2> QED
    BY <1>2, <2>1 DEF PublishedIsFinal, HasRow
<1>3. CASE Signals
  <2>1. ASSUME NEW d \in Days
        PROVE  fact_signals'[d] = IF SignalRows[d] # NoRow
                                  THEN SignalRows[d] ELSE fact_signals[d]
    BY <1>3 DEF Signals, Merge
  <2>2. ASSUME NEW d \in Days, SignalRows[d] # NoRow
        PROVE  /\ SignalIsFinal(d)'
               /\ fact_signals[d] # NoRow => fact_signals'[d] = fact_signals[d]
    <3>1. /\ SignalRows[d] = [daily |-> rsi["1d"][d].hist, trend |-> TrendOf(d)]
          /\ rsi["1d"][d] # NoRow
          /\ \E v \in HasRow(rsi["1w"]) : Monday(d) <= v
      BY <1>3, <2>2, BuiltSignalIsFinal DEF Signals
    <3>2. SignalIsFinal(d)'
      BY <1>1, <2>1, <2>2, <3>1 DEF SignalIsFinal
    <3> QED
      BY <2>1, <2>2, <3>1, <3>2 DEF PublishedIsFinal, SignalIsFinal, HasRow
  <2>3. ASSUME NEW d \in Days, SignalRows[d] = NoRow, fact_signals[d] # NoRow
        PROVE  SignalIsFinal(d)' /\ fact_signals'[d] = fact_signals[d]
    <3>1. SignalIsFinal(d)
      BY <2>3 DEF PublishedIsFinal, HasRow
    <3> QED
      BY <1>1, <2>1, <2>3, <3>1 DEF SignalIsFinal
  <2> QED
    BY <2>1, <2>2, <2>3 DEF PublishedIsFinal, HasRow
<1> QED
  BY <1>2, <1>3
  DEF Next, StageStep, NextDay, PublishLate, Revise, DailyRun, LaunchByHand,
      Launch, HandIngest, Conform, Bootstrap, Incremental, Cleanup, Die,
      DieInConform, vars, source, tables, run

\* Of runs that always go through all stages: once a run has conformed, the week of
\* each day of its range has a candle, and its weekly RSI stage reaches them all.
RangeHasWeeks ==
    stage \in {"rsi1d", "rsi1w", "signals"} =>
        \A d \in HasRow(ohlcv["1d"]) :
            start <= d => ohlcv["1w"][Monday(d)] # NoRow

WeeksAreFolded == stage = "signals" => CaughtUp("1w")

WholeRunInv == only = "all" /\ RangeHasWeeks /\ WeeksAreFolded

LEMMA OnlyWholeRuns ==
    ASSUME "stages" \notin Env, only = "all", [Next]_vars
    PROVE  only' = "all"
BY DEF Next, StageStep, NextDay, PublishLate, Revise, DailyRun, LaunchByHand,
       Launch, HandIngest, Conform, Bootstrap, Incremental, Signals, Cleanup, Die,
       DieInConform, Relaunch, Goto, EndRun, StageArgs, vars, run

LEMMA RangeHasWeeksStep ==
    ASSUME "cleanup" \notin Env, "stages" \notin Env, only = "all",
           TypeOK, RunHasRange, RangeHasWeeks, [Next]_vars
    PROVE  RangeHasWeeks'
<1>1. CASE Conform
  <2>1. /\ ohlcv'["1d"] = DailyMerged
        /\ ohlcv'["1w"] = WeeklyMerged(DailyMerged, start)
        /\ start' = start /\ start \in Days
        /\ DailyMerged \in Candles
    BY <1>1, ConformTypes
    DEF Conform, Goto, LastStage, RunHasRange, TypeOK, Temporalities
  <2>2. ASSUME NEW d \in HasRow(DailyMerged), start <= d
        PROVE  WeeklyMerged(DailyMerged, start)[Monday(d)] # NoRow
    <3>1. /\ d \in Days /\ Monday(d) \in Days
          /\ Monday(start) <= Monday(d)
      BY <2>1, <2>2, MondayInDays, MondayMonotone DEF HasRow
    <3>2. WeekRows(DailyMerged, Monday(d)) # {}
      BY <2>2 DEF WeekRows
    <3>3. WeeklyClose(DailyMerged, Monday(d)) # NoRow
      BY <2>1, <3>2, WeeklyCloseType, PipelineAssumption
    <3> QED
      BY <3>1, <3>2, <3>3 DEF WeeklyMerged, Weekly, Merge
  <2> QED
    BY <2>1, <2>2 DEF RangeHasWeeks
<1>2. CASE Die \/ DieInConform
  BY <1>2 DEF Die, DieInConform, Relaunch, EntryStage, EndRun, RangeHasWeeks
<1>3. CASE \E t \in Temporalities : Bootstrap(t) \/ Incremental(t)
  BY <1>3
  DEF Bootstrap, Incremental, RsiStage, AfterRsi, Goto, LastStage, EndRun,
      RangeHasWeeks, TypeOK, Temporalities
<1>4. CASE Signals
  BY <1>4 DEF Signals, EndRun, RangeHasWeeks
<1> QED
  BY <1>1, <1>2, <1>3, <1>4
  DEF Next, StageStep, NextDay, PublishLate, Revise, DailyRun, LaunchByHand,
      Launch, EntryStage, StageArgs, HandIngest, Cleanup, RangeHasWeeks, vars,
      source, tables, run

LEMMA WeeksAreFoldedStep ==
    ASSUME "cleanup" \notin Env, "stages" \notin Env, only = "all",
           TypeOK, WeeksAreFolded, [Next]_vars
    PROVE  WeeksAreFolded'
<1>1. ASSUME NEW t \in Temporalities, Bootstrap(t) \/ Incremental(t)
      PROVE  WeeksAreFolded'
  <2>1. CASE t = "1w"
    BY <1>1, <2>1, RsiCatchesUp DEF WeeksAreFolded
  <2>2. CASE t = "1d"
    BY <1>1, <2>2
    DEF Bootstrap, Incremental, AfterRsi, Goto, EndRun, WeeksAreFolded
  <2> QED
    BY <2>1, <2>2 DEF Temporalities
<1>2. CASE Conform \/ Die \/ DieInConform
  BY <1>2
  DEF Conform, Die, DieInConform, Goto, Relaunch, EntryStage, EndRun,
      WeeksAreFolded
<1> QED
  BY <1>1, <1>2
  DEF Next, StageStep, NextDay, PublishLate, Revise, DailyRun, LaunchByHand,
      Launch, EntryStage, StageArgs, HandIngest, Signals, EndRun, Cleanup,
      WeeksAreFolded, CaughtUp,
      vars, source, tables, run

\* Of runs that are seen through: a daily feature has a weekly one at or after its
\* week, except on the way of a run that has yet to write both.
FeatureHasWeek ==
    stage \in {"idle", "signals"} \/ only \in {"conform", "signals"} =>
        \A d \in HasRow(rsi["1d"]) : \E v \in HasRow(rsi["1w"]) : Monday(d) <= v

LEMMA FeatureHasWeekStep ==
    ASSUME "cleanup" \notin Env, "abandon" \notin Env, TypeOK,
           StageOfRun, WeeklyInv, FeatureHasCandle, FeatureHasWeek, [Next]_vars
    PROVE  FeatureHasWeek'
<1>1. ASSUME NEW t \in Temporalities, Bootstrap(t) \/ Incremental(t)
      PROVE  FeatureHasWeek'
  <2>1. CASE t = "1d"
    BY <1>1, <2>1
    DEF Bootstrap, Incremental, RsiStage, AfterRsi, Goto, EndRun, LastStage,
        StageArgs, TypeOK, StageOfRun, FeatureHasWeek
  <2>2. CASE t = "1w"
    <3>1. /\ CaughtUp("1w")' /\ ohlcv' = ohlcv
          /\ rsi'["1d"] = rsi["1d"] /\ stage = "rsi1w"
      BY <1>1, <2>2, RsiCatchesUp
      DEF Bootstrap, Incremental, RsiStage, TypeOK, Temporalities
    <3>2. ASSUME NEW d \in HasRow(rsi["1d"])
          PROVE  Monday(d) \in HasRow(ohlcv["1w"])
      <4>1. d \in HasRow(ohlcv["1d"]) /\ d \in Days /\ Monday(d) \in Days
        BY MondayInDays DEF FeatureHasCandle, HasRow
      <4>2. WeekRows(ohlcv["1d"], Monday(d)) # {}
        BY <4>1 DEF WeekRows
      <4>3. ohlcv["1w"][Monday(d)] = WeeklyClose(ohlcv["1d"], Monday(d))
        BY <3>1, <4>1, <4>2, WholeCalendar DEF WeeklyInv
      <4>4. ohlcv["1w"][Monday(d)] # NoRow
        BY <4>2, <4>3, WeeklyCloseType, PipelineAssumption DEF TypeOK, Temporalities
      <4> QED
        BY <4>1, <4>4 DEF HasRow
    <3> QED
      BY <3>1, <3>2 DEF CaughtUp, FeatureHasWeek
  <2> QED
    BY <2>1, <2>2 DEF Temporalities
<1>2. CASE DailyRun \/ \E first, last \in Days : \E arg \in StageArgs :
             LaunchByHand(arg, first, last)
  BY <1>2 DEF DailyRun, LaunchByHand, Launch, FeatureHasWeek
<1>3. CASE Conform
  BY <1>3 DEF Conform, Goto, EndRun, LastStage, StageArgs, TypeOK, FeatureHasWeek
<1>4. CASE Die \/ DieInConform
  <2>1. rsi' = rsi /\ only' = only /\ stage' = EntryStage(only)
    BY <1>4 DEF Die, DieInConform, Relaunch, tables
  <2> QED
    BY <2>1 DEF EntryStage, StageArgs, TypeOK, FeatureHasWeek
<1> QED
  BY <1>1, <1>2, <1>3, <1>4
  DEF Next, StageStep, NextDay, PublishLate, Revise, HandIngest, Signals, EndRun,
      Cleanup, FeatureHasWeek, vars, source, tables, run

LEMMA WeeksArePassedByWholeRuns ==
    ASSUME "cleanup" \notin Env, "stages" \notin Env
    PROVE  Spec => []WeeksArePassed
<1>1. Init => RunHasRange /\ WholeRunInv /\ FeatureHasCandle
  BY DEF Init, RunHasRange, WholeRunInv, RangeHasWeeks, WeeksAreFolded,
         FeatureHasCandle, HasRow, NoRows, Temporalities
<1>2. TypeOK /\ RunHasRange /\ WholeRunInv /\ FeatureHasCandle /\ [Next]_vars =>
         RunHasRange' /\ WholeRunInv' /\ FeatureHasCandle'
  BY RunHasRangeStep, OnlyWholeRuns, RangeHasWeeksStep, WeeksAreFoldedStep,
     FeatureHasCandleStep
  DEF WholeRunInv
<1>3. ASSUME WholeRunInv, FeatureHasCandle
      PROVE  WeeksArePassed
  <2> SUFFICES ASSUME stage = "signals", NEW d \in HasRow(rsi["1d"]), start <= d
               PROVE  \E v \in HasRow(rsi["1w"]) : Monday(d) <= v
    BY DEF WeeksArePassed
  <2>1. d \in HasRow(ohlcv["1d"])
    BY <1>3 DEF FeatureHasCandle
  <2>2. Monday(d) \in HasRow(ohlcv["1w"])
    BY <1>3, <2>1, MondayInDays DEF WholeRunInv, RangeHasWeeks, HasRow
  <2> QED
    BY <1>3, <2>2 DEF WholeRunInv, WeeksAreFolded, CaughtUp
<1> QED
  BY <1>1, <1>2, <1>3, TypeCorrect, PTL DEF Spec

LEMMA WeeksArePassedByFinishedRuns ==
    ASSUME "cleanup" \notin Env, "abandon" \notin Env
    PROVE  Spec => []WeeksArePassed
<1> DEFINE I == /\ RunHasRange /\ StageOfRun /\ WeeklyInv
                /\ FeatureHasCandle /\ FeatureHasWeek
<1>1. Init => I
  <2>1. Init => RunHasRange /\ StageOfRun /\ FeatureHasCandle /\ FeatureHasWeek
    BY DEF Init, RunHasRange, StageOfRun, FeatureHasCandle, FeatureHasWeek,
           HasRow, NoRows, Temporalities
  <2> QED
    BY <2>1, WeeklyInvInit
<1>2. TypeOK /\ I /\ [Next]_vars => I'
  BY RunHasRangeStep, StageOfRunStep, WeeklyInvStep, FeatureHasCandleStep,
     FeatureHasWeekStep
<1>3. I => WeeksArePassed
  BY DEF FeatureHasWeek, WeeksArePassed
<1> QED
  BY <1>1, <1>2, <1>3, TypeCorrect, PTL DEF Spec

\* Where nobody deletes rows, a signal once published never changes: not when its
\* window is run again, when a hole before it is filled, when a price is revised,
\* when a run dies anywhere; and not when a run is given up halfway, unless single
\* stages are run by hand too: the signals stage alone, after a run that was given
\* up between the daily and the weekly RSI, does publish what a later run repaints.
THEOREM NoRepaintHolds ==
    ASSUME "cleanup" \notin Env, "abandon" \notin Env \/ "stages" \notin Env
    PROVE  Spec => NoRepaint
<1>1. Init => PublishedIsFinal
  BY DEF Init, PublishedIsFinal, HasRow, NoRows
<1>2. TypeOK /\ WeeksArePassed /\ PublishedIsFinal /\ [Next]_vars =>
         PublishedIsFinal'
  BY SignalsAreFinal
<1>3. TypeOK /\ WeeksArePassed /\ PublishedIsFinal /\ [Next]_vars =>
         [\A d \in HasRow(fact_signals) : fact_signals'[d] = fact_signals[d]]_vars
  BY SignalsAreFinal
<1>4. Spec => []WeeksArePassed
  BY WeeksArePassedByWholeRuns, WeeksArePassedByFinishedRuns
<1> QED
  BY <1>1, <1>2, <1>3, <1>4, TypeCorrect, PTL DEF Spec, NoRepaint
=============================================================================
