------------------------ MODULE StagingMerge_proofs ------------------------
(***************************************************************************)
(* Theorems about StagingMerge, for every number of days and re-launches.  *)
(***************************************************************************)
EXTENDS StagingMerge, TLAPS

-----------------------------------------------------------------------------
(***************************************************************************)
(* Type correctness.                                                       *)
(***************************************************************************)
\* The rows of a job are rows of the table.
LEMMA NewRowsType ==
    ASSUME TypeOK, NEW t \in Temporalities, NEW last \in 0 .. LastDay
    PROVE  NewRows(t, last) \in SUBSET Row
<1>1. silver[t] \in 0 .. LastDay
  BY DEF TypeOK
<1> QED
  BY <1>1, StagingAssumption DEF NewRows, Row

\* What a job is: an identity and rows.
LEMMA JobType ==
    ASSUME NEW j \in Job
    PROVE  j # None /\ j.rows \in SUBSET Row
BY StagingAssumption DEF Job

LEMMA LaunchType ==
    ASSUME TypeOK, day # 0, Launch
    PROVE  own' \in Job /\ own'.rows = NewRows(stage, prior)
<1>1. NewRows(stage, prior) \in SUBSET Row
  BY NewRowsType DEF TypeOK
<1>2. <<day, tries, stage>> \in (1 .. LastDay) \X (0 .. MaxRetries) \X Temporalities
  BY StagingAssumption DEF TypeOK
<1> QED
  BY <1>1, <1>2 DEF Launch, Job

\* A run has a day.
DayOK == pc # "idle" => day # 0

LEMMA TypeStep ==
    ASSUME TypeOK, DayOK, [Next]_vars
    PROVE  TypeOK' /\ DayOK'
<1>1. CASE NextRun
  BY <1>1, StagingAssumption DEF NextRun, TypeOK, DayOK, Temporalities
<1>2. CASE Fetch \/ Truncate \/ JobSeen \/ Signals
  BY <1>2 DEF Fetch, Truncate, JobSeen, Signals, TypeOK, DayOK
<1>3. CASE Launch
  BY <1>3, LaunchType DEF Launch, TypeOK, DayOK
<1>4. CASE MergeStaging
  BY <1>4 DEF MergeStaging, TypeOK, DayOK, Temporalities
<1>5. ASSUME NEW j \in jobs, JobEnds(j)
      PROVE  TypeOK' /\ DayOK'
  BY <1>5, JobType DEF JobEnds, TypeOK, DayOK, driver
<1>6. CASE Kill
  BY <1>6, StagingAssumption DEF Kill, TypeOK, DayOK, Temporalities
<1>7. ASSUME NEW t, NEW first, NEW last, Cleanup(t, first, last)
      PROVE  TypeOK' /\ DayOK'
  BY <1>7 DEF Cleanup, TypeOK, DayOK, driver
<1>8. CASE UNCHANGED vars
  BY <1>8 DEF vars, driver, TypeOK, DayOK
<1> QED
  BY <1>1, <1>2, <1>3, <1>4, <1>5, <1>6, <1>7, <1>8 DEF Next, DriverStep

LEMMA TypeInit == Init => TypeOK /\ DayOK
BY StagingAssumption DEF Init, TypeOK, DayOK, Temporalities

\* Every variable keeps its type.
THEOREM StagingTypeCorrect == Spec => []TypeOK
<1>1. TypeOK /\ DayOK /\ [Next]_vars => TypeOK' /\ DayOK'
  BY TypeStep
<1> QED
  BY <1>1, TypeInit, PTL DEF Spec

-----------------------------------------------------------------------------
(***************************************************************************)
(* Until a job outlives its driver the protocol is one atomic upsert per   *)
(* attempt.                                                                *)
(***************************************************************************)
\* No job but the driver's runs, and staging holds exactly what the driver's own
\* job left there, from the truncation to the MERGE.
OwnStaging ==
    /\ \A j \in jobs : j = own /\ pc = "wait"
    /\ pc = "launch" => staging = {}
    /\ pc = "wait" => staging = IF own \in jobs THEN {} ELSE own.rows
    /\ pc = "merge" => staging = own.rows

StagingInv ==
    /\ own # None <=> pc \in {"wait", "merge"}
    /\ "orphan" \notin upsets => OwnStaging

LEMMA StagingInvStep ==
    ASSUME TypeOK, DayOK, StagingInv, [Next]_vars
    PROVE  StagingInv'
<1> USE DEF StagingInv, OwnStaging
<1>1. CASE NextRun \/ Fetch \/ Truncate \/ JobSeen \/ Signals \/ MergeStaging
  BY <1>1
  DEF NextRun, Fetch, Truncate, JobSeen, Signals, MergeStaging, TypeOK
<1>2. CASE Launch
  <2>1. own' \in Job /\ own' # None
    BY <1>2, LaunchType, JobType DEF Launch, DayOK
  <2> QED
    BY <1>2, <2>1 DEF Launch
<1>3. ASSUME NEW j \in jobs, JobEnds(j)
      PROVE  StagingInv'
  BY <1>3 DEF JobEnds, driver
<1>4. CASE Kill
  BY <1>4 DEF Kill
<1>5. CASE (\E t \in Temporalities, first, last \in 1 .. LastDay :
               Cleanup(t, first, last)) \/ UNCHANGED vars
  BY <1>5 DEF Cleanup, vars, driver
<1> QED
  BY <1>1, <1>2, <1>3, <1>4, <1>5 DEF Next, DriverStep

\* The batch of the abstract specification.
Batch == IF own = None THEN {} ELSE own.rows

LEMMA RefinementStep ==
    ASSUME TypeOK, DayOK, StagingInv, [Next]_vars, "orphan" \notin upsets'
    PROVE  Table!Next \/ UNCHANGED <<features, own>>
<1> USE DEF Table!Next, Table!Compute, Table!Commit, Table!Fail, Table!Delete
<1>0. "orphan" \notin upsets
  BY DEF Next, DriverStep, NextRun, Fetch, Truncate, Launch, JobSeen, MergeStaging,
         Signals, JobEnds, Kill, Cleanup, vars
<1>1. CASE NextRun \/ Fetch \/ Truncate \/ JobSeen \/ Signals \/ UNCHANGED vars
  BY <1>1 DEF NextRun, Fetch, Truncate, JobSeen, Signals, vars, driver
<1>2. CASE Launch
  <2>1. Batch = {} /\ Batch' \subseteq Row /\ features' = features
    BY <1>2, LaunchType, JobType DEF Launch, Batch, StagingInv, DayOK
  <2> QED
    BY <2>1 DEF Batch
<1>3. CASE MergeStaging
  BY <1>0, <1>3 DEF MergeStaging, Batch, StagingInv, OwnStaging
<1>4. ASSUME NEW j \in jobs, JobEnds(j)
      PROVE  UNCHANGED <<features, own>>
  BY <1>4 DEF JobEnds, driver
<1>5. CASE Kill
  BY <1>5 DEF Kill, Batch
<1>6. ASSUME NEW t, NEW first, NEW last, Cleanup(t, first, last)
      PROVE  Table!Next
  <2>1. features' \subseteq features /\ Batch = {} /\ Batch' = Batch
    BY <1>6 DEF Cleanup, Batch, StagingInv, driver
  <2> QED
    BY <2>1 DEF Batch
<1> QED
  BY <1>1, <1>2, <1>3, <1>4, <1>5, <1>6 DEF Next, DriverStep

\* As long as no job outlives its driver, truncate, Beam write and MERGE, with
\* dead drivers and re-launches between any two of them, are one atomic upsert of
\* the rows the attempt computed.
THEOREM AtomicUpsertHolds == Spec => AtomicUpsert
<1>1. Init => StagingInv /\ Table!Init
  BY DEF Init, StagingInv, OwnStaging, Table!Init
<1>2. TypeOK /\ DayOK /\ [Next]_vars => TypeOK' /\ DayOK'
  BY TypeStep
<1>3. TypeOK /\ DayOK /\ StagingInv /\ [Next]_vars => StagingInv'
  BY StagingInvStep
<1>4. TypeOK /\ DayOK /\ StagingInv /\ [Next]_vars
        => [("orphan" \notin upsets') => Table!Next]_<<features, own>>
  BY RefinementStep
<1> QED
  BY <1>1, <1>2, <1>3, <1>4, TypeInit, PTL DEF Spec, AtomicUpsert

-----------------------------------------------------------------------------
(***************************************************************************)
(* No hole, orphans or not.                                                *)
(***************************************************************************)
\* Rows that leave no hole when they are merged into the table.
Continues(rows, table) ==
    \A r \in rows : \A n \in 1 .. r[2] : <<r[1], n>> \in rows \cup table

\* What is in staging, in a running job, or about to be computed continues the
\* features; features only grow, so an orphan's rows still do when they land.
HoleParts ==
    /\ Continues(features, features)
    /\ Continues(staging, features)
    /\ \A j \in jobs : Continues(j.rows, features)
    /\ pc \in {"truncate", "launch"} =>
         prior = 0 \/ <<stage, prior>> \in features

HoleInv == "cleanup" \notin upsets => HoleParts

LEMMA NewRowsContinue ==
    ASSUME TypeOK, Continues(features, features),
           prior = 0 \/ <<stage, prior>> \in features
    PROVE  Continues(NewRows(stage, prior), features)
<1> SUFFICES ASSUME NEW r \in NewRows(stage, prior), NEW n \in 1 .. r[2]
             PROVE  <<r[1], n>> \in NewRows(stage, prior) \cup features
  BY DEF Continues
<1>1. /\ r[1] = stage /\ r[2] \in prior + 1 .. silver[stage]
      /\ prior \in Nat /\ silver[stage] \in Nat
  BY DEF NewRows, TypeOK
<1>2. CASE n <= prior
  <2>1. <<stage, prior>> \in features /\ n \in 1 .. prior
    BY <1>1, <1>2
  <2>2. \A m \in 1 .. <<stage, prior>>[2] : <<stage, m>> \in features
    BY <2>1 DEF Continues
  <2> QED
    BY <1>1, <2>1, <2>2
<1>3. CASE n > prior
  BY <1>1, <1>3 DEF NewRows
<1> QED
  BY <1>1, <1>2, <1>3

LEMMA HoleInvStep ==
    ASSUME TypeOK, DayOK, HoleInv, [Next]_vars
    PROVE  HoleInv'
<1> USE DEF HoleInv, HoleParts
<1>1. CASE NextRun \/ Truncate \/ JobSeen \/ Signals \/ Kill \/ UNCHANGED vars
  BY <1>1
  DEF NextRun, Truncate, JobSeen, Signals, Kill, vars, driver, Continues
<1>2. CASE Fetch
  BY <1>2 DEF Fetch, IsLast
<1>3. CASE Launch
  BY <1>3, NewRowsContinue DEF Launch
<1>4. CASE MergeStaging
  BY <1>4 DEF MergeStaging, Continues
<1>5. ASSUME NEW j \in jobs, JobEnds(j)
      PROVE  HoleInv'
  BY <1>5 DEF JobEnds, driver
<1>6. ASSUME NEW t, NEW first, NEW last, Cleanup(t, first, last)
      PROVE  HoleInv'
  BY <1>6 DEF Cleanup
<1> QED
  BY <1>1, <1>2, <1>3, <1>4, <1>5, <1>6 DEF Next, DriverStep

\* Whatever attempts die and whenever their jobs end, the features of a
\* temporality never have a hole, unless somebody deletes rows.
THEOREM NoHoleHolds == Spec => []NoHole
<1>1. Init => HoleInv
  BY DEF Init, HoleInv, HoleParts, Continues
<1>2. TypeOK /\ DayOK /\ [Next]_vars => TypeOK' /\ DayOK'
  BY TypeStep
<1>3. TypeOK /\ DayOK /\ HoleInv /\ [Next]_vars => HoleInv'
  BY HoleInvStep
<1>4. HoleInv => NoHole
  BY DEF HoleInv, HoleParts, NoHole, Continues
<1> QED
  BY <1>1, <1>2, <1>3, <1>4, TypeInit, PTL DEF Spec

-----------------------------------------------------------------------------
(***************************************************************************)
(* Nothing is missing when a launch reaches the signals stage.             *)
(***************************************************************************)
UpTo(t, k) == \A n \in 1 .. k : <<t, n>> \in features
Complete(t) == UpTo(t, silver[t])

\* A run has the candles up to the last row it fetched in the table, the rest of them
\* in its job; a temporality is complete from its MERGE to the end of the launch.
CompleteParts ==
    /\ pc \in {"truncate", "launch", "wait", "merge"} => UpTo(stage, prior)
    /\ pc \in {"wait", "merge"} => own.rows = NewRows(stage, prior)
    /\ stage = "1w" => Complete("1d")
    /\ pc = "signals" => Complete("1d") /\ Complete("1w")

CompleteInv == upsets = {} => CompleteParts

LEMMA MergeCompletes ==
    ASSUME TypeOK, StagingInv, upsets = {}, CompleteParts, MergeStaging,
           NEW t \in Temporalities, t = stage \/ Complete(t)
    PROVE  Complete(t)'
<1>1. /\ features' = features \cup own.rows /\ silver' = silver
      /\ own.rows = NewRows(stage, prior) /\ UpTo(stage, prior)
      /\ prior \in Nat /\ silver[t] \in Nat
  BY DEF MergeStaging, StagingInv, OwnStaging, CompleteParts, TypeOK
<1>2. CASE t = stage
  <2> SUFFICES ASSUME NEW n \in 1 .. silver[t]
               PROVE  <<t, n>> \in features'
    BY <1>1 DEF Complete, UpTo
  <2>1. CASE n <= prior
    BY <1>1, <1>2, <2>1 DEF UpTo
  <2>2. CASE n > prior
    BY <1>1, <1>2, <2>2 DEF NewRows
  <2> QED
    BY <1>1, <2>1, <2>2
<1>3. CASE Complete(t)
  BY <1>1, <1>3 DEF Complete, UpTo
<1> QED
  BY <1>2, <1>3

LEMMA FetchUpTo ==
    ASSUME NoHole, upsets = {}, Fetch
    PROVE  UpTo(stage, prior')
<1>1. CASE prior' = 0
  BY <1>1 DEF UpTo
<1>2. CASE <<stage, prior'>> \in features
  <2>1. \A n \in 1 .. <<stage, prior'>>[2] : <<stage, n>> \in features
    BY <1>2 DEF NoHole
  <2> QED
    BY <2>1 DEF UpTo
<1> QED
  BY <1>1, <1>2 DEF Fetch, IsLast

LEMMA CompleteInvStep ==
    ASSUME TypeOK, DayOK, NoHole, StagingInv, CompleteInv, [Next]_vars
    PROVE  CompleteInv'
<1> SUFFICES ASSUME upsets' = {}
             PROVE  CompleteParts'
  BY DEF CompleteInv
<1>0. upsets = {} /\ CompleteParts
  BY DEF CompleteInv, Next, DriverStep, NextRun, Fetch, Truncate, Launch, JobSeen,
         MergeStaging, Signals, JobEnds, Kill, Cleanup, vars
<1>1. CASE NextRun \/ Kill
  BY <1>1 DEF NextRun, Kill, CompleteParts
<1>2. CASE Fetch
  <2>1. UpTo(stage, prior')
    BY <1>0, <1>2, FetchUpTo
  <2> QED
    BY <1>0, <1>2, <2>1 DEF Fetch, CompleteParts, Complete, UpTo
<1>3. CASE Launch
  <2>1. own'.rows = NewRows(stage, prior)
    BY <1>3, LaunchType DEF Launch, DayOK
  <2> QED
    BY <1>0, <1>3, <2>1 DEF Launch, CompleteParts, Complete, UpTo, NewRows
<1>4. CASE Truncate \/ JobSeen \/ Signals \/ UNCHANGED vars
  BY <1>0, <1>4
  DEF Truncate, JobSeen, Signals, vars, driver, CompleteParts, Complete, UpTo, NewRows
<1>5. CASE MergeStaging
  <2>1. \A t \in Temporalities : t = stage \/ Complete(t) => Complete(t)'
    BY <1>0, <1>5, MergeCompletes
  <2>2. \/ stage = "1d" /\ stage' = "1w" /\ pc' = "fetch"
        \/ stage = "1w" /\ stage' = "1d" /\ pc' = "signals"
    BY <1>5 DEF MergeStaging, TypeOK, Temporalities
  <2> QED
    BY <1>0, <2>1, <2>2 DEF CompleteParts, Temporalities
<1>6. ASSUME NEW j \in jobs, JobEnds(j)
      PROVE  CompleteParts'
  BY <1>0, <1>6 DEF JobEnds, driver, CompleteParts, Complete, UpTo, NewRows
<1>7. ASSUME NEW t, NEW first, NEW last, Cleanup(t, first, last)
      PROVE  FALSE
  BY <1>7 DEF Cleanup
<1> QED
  BY <1>1, <1>2, <1>3, <1>4, <1>5, <1>6, <1>7 DEF Next, DriverStep

\* Whatever attempts died before, a launch that reaches the signals stage has a row for
\* every candle, until a job outlives its driver or somebody deletes rows.
THEOREM CompleteAtSignalsHolds == Spec => []CompleteAtSignals
<1>1. Init => CompleteInv /\ StagingInv
  BY DEF Init, CompleteInv, CompleteParts, StagingInv, OwnStaging
<1>2. TypeOK /\ DayOK /\ [Next]_vars => TypeOK' /\ DayOK'
  BY TypeStep
<1>3. TypeOK /\ DayOK /\ StagingInv /\ [Next]_vars => StagingInv'
  BY StagingInvStep
<1>4. TypeOK /\ DayOK /\ NoHole /\ StagingInv /\ CompleteInv /\ [Next]_vars
        => CompleteInv'
  BY CompleteInvStep
<1>5. CompleteInv => CompleteAtSignals
  BY DEF CompleteInv, CompleteParts, CompleteAtSignals, Complete, UpTo, Temporalities
<1> QED
  BY <1>1, <1>2, <1>3, <1>4, <1>5, TypeInit, NoHoleHolds, PTL DEF Spec
=============================================================================
