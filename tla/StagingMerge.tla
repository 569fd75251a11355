---------------------------- MODULE StagingMerge ----------------------------
(***************************************************************************)
(* How a stage of the pipeline writes its table, step by step, on the stage*)
(* that is most exposed: RSI runs twice per launch (1d, then 1w) through   *)
(* one staging table.                                                      *)
(*                                                                         *)
(*   fetch the last state -> truncate staging -> launch a Beam job and wait*)
(*   for it (the job replaces staging with its rows, if it has any) ->     *)
(*   MERGE whatever staging holds into the target                          *)
(*                                                                         *)
(* The driver is a subprocess of an Airflow task with a timeout and one    *)
(* re-launch; the Beam job runs on Dataflow, and killing the driver does   *)
(* not stop it: the orphan still replaces staging when it ends.            *)
(*                                                                         *)
(* A row is its key <<temporality, n>>, the n-th candle of the temporality:*)
(* the candles of a temporality come in order, and a row of a key is the   *)
(* same whichever attempt computes it (silver is not written while the RSI *)
(* stage runs).                                                            *)
(***************************************************************************)
EXTENDS Integers

CONSTANTS
    LastDay,     \* bound: the number of runs
    MaxRetries,  \* re-launches of the launch task
    None,        \* the driver has no job
    Env          \* disturbances, a subset of the ones below

(***************************************************************************)
(* kill     the driver may die                                             *)
(* orphan   it may die while its job runs                                  *)
(* linger   an orphan may outlive the day of its run                       *)
(* cleanup  an operator may delete rows between runs                       *)
(***************************************************************************)
Disturbances == {"kill", "orphan", "linger", "cleanup"}

VARIABLES
    day,       \* the day of the current or last run
    silver,    \* the number of candles silver holds, per temporality
    features,  \* rsi_features
    staging,   \* rsi_features_staging
    jobs,      \* the Beam jobs running on Dataflow
    pc,        \* the driver's next step
    stage,     \* the temporality the driver works on
    prior,     \* the last row it fetched
    own,       \* the job it launched
    tries,     \* re-launches made by the current run
    upsets     \* history: what has happened of "orphan" and "cleanup"

driver == <<pc, stage, prior, own, tries>>
vars == <<day, silver, features, staging, jobs, driver, upsets>>

Temporalities == {"1d", "1w"}
Row == Temporalities \X (1 .. LastDay)
Job == [id : (1 .. LastDay) \X (0 .. MaxRetries) \X Temporalities,
        rows : SUBSET Row]

ASSUME StagingAssumption ==
    /\ LastDay \in Nat \ {0}
    /\ MaxRetries \in Nat
    /\ None \notin Job
    /\ Env \subseteq Disturbances

RowsOf(table, t) == {r \in table : r[1] = t}

\* The number of the last row of a temporality, 0 when it has none.
IsLast(n, t) ==
    /\ n = 0 \/ <<t, n>> \in features
    /\ \A r \in RowsOf(features, t) : r[2] <= n

\* The rows an RSI job computes: one per candle after the last row.
\* Mutants: only the day's candle; only the next candle.
LatestRow(t, last) == {t} \X {n \in last + 1 .. silver[t] : n = silver[t]}
NextRow(t, last) == {t} \X {n \in last + 1 .. silver[t] : n = last + 1}

NewRows(t, last) == {t} \X (last + 1 .. silver[t])

Init ==
    /\ day = 0
    /\ silver = [t \in Temporalities |-> 0]
    /\ features = {} /\ staging = {} /\ jobs = {}
    /\ pc = "idle" /\ stage = "1d" /\ prior = 0 /\ own = None /\ tries = 0
    /\ upsets = {}

\* A new day brings at most one candle per temporality (none when it is late, or
\* when the week has its candle), and its run reaches the RSI stage.
NextRun ==
    /\ pc = "idle"
    /\ day < LastDay
    /\ jobs = {} \/ ("linger" \in Env /\ day + 1 < LastDay)
    /\ day' = day + 1
    /\ silver' \in [Temporalities -> 0 .. LastDay]
    /\ \A t \in Temporalities : silver'[t] - silver[t] \in {0, 1}
    /\ pc' = "fetch" /\ stage' = "1d" /\ tries' = 0
    /\ UNCHANGED <<features, staging, jobs, prior, own, upsets>>

Fetch ==
    /\ pc = "fetch"
    /\ prior' \in 0 .. LastDay
    /\ IsLast(prior', stage)
    /\ pc' = "truncate"
    /\ UNCHANGED <<day, silver, features, staging, jobs, stage, own, tries, upsets>>

\* Mutant: staging is left to WRITE_TRUNCATE.
NoTruncate ==
    /\ pc = "truncate"
    /\ pc' = "launch"
    /\ UNCHANGED <<day, silver, features, staging, jobs, stage, prior, own, tries,
                   upsets>>

Truncate ==
    /\ pc = "truncate"
    /\ staging' = {}
    /\ pc' = "launch"
    /\ UNCHANGED <<day, silver, features, jobs, stage, prior, own, tries, upsets>>

Launch ==
    /\ pc = "launch"
    /\ own' = [id |-> <<day, tries, stage>>, rows |-> NewRows(stage, prior)]
    /\ jobs' = jobs \cup {own'}
    /\ pc' = "wait"
    /\ UNCHANGED <<day, silver, features, staging, stage, prior, tries, upsets>>

\* A job ends.  WRITE_TRUNCATE takes effect only when there is a row to load.
JobEnds(j) ==
    /\ j \in jobs
    /\ staging' = IF j.rows # {} THEN j.rows ELSE staging
    /\ jobs' = jobs \ {j}
    /\ UNCHANGED <<day, silver, features, driver, upsets>>

\* Mutant: the driver does not wait.
JobUnseen ==
    /\ pc = "wait"
    /\ pc' = "merge"
    /\ UNCHANGED <<day, silver, features, staging, jobs, stage, prior, own, tries,
                   upsets>>

JobSeen ==
    /\ pc = "wait"
    /\ own \notin jobs
    /\ pc' = "merge"
    /\ UNCHANGED <<day, silver, features, staging, jobs, stage, prior, own, tries,
                   upsets>>

MergeStaging ==
    /\ pc = "merge"
    /\ features' = features \cup staging
    /\ own' = None
    /\ IF stage = "1d"
       THEN stage' = "1w" /\ pc' = "fetch"
       ELSE stage' = "1d" /\ pc' = "signals"
    /\ UNCHANGED <<day, silver, staging, jobs, prior, tries, upsets>>

\* The signals stage reads features; nothing of the RSI stage changes.
Signals ==
    /\ pc = "signals"
    /\ pc' = "idle"
    /\ UNCHANGED <<day, silver, features, staging, jobs, stage, prior, own, tries,
                   upsets>>

\* Mutant: the re-launches are not counted.
KillForever ==
    /\ "kill" \in Env
    /\ day < LastDay
    /\ pc # "idle"
    /\ own \notin jobs \/ "orphan" \in Env
    /\ pc' = "fetch" /\ tries' = tries + 1
    /\ stage' = "1d" /\ own' = None
    /\ upsets' = IF own \in jobs THEN upsets \cup {"orphan"} ELSE upsets
    /\ UNCHANGED <<day, silver, features, staging, jobs, prior>>

\* The driver dies: the task is re-launched from the first stage, or gives up.
\* The bound that lets healing be observed: the last run is not disturbed.
Kill ==
    /\ "kill" \in Env
    /\ day < LastDay
    /\ pc # "idle"
    /\ own \notin jobs \/ "orphan" \in Env
    /\ IF tries < MaxRetries
       THEN pc' = "fetch" /\ tries' = tries + 1
       ELSE pc' = "idle" /\ UNCHANGED tries
    /\ stage' = "1d" /\ own' = None
    /\ upsets' = IF own \in jobs THEN upsets \cup {"orphan"} ELSE upsets
    /\ UNCHANGED <<day, silver, features, staging, jobs, prior>>

Cleanup(t, first, last) ==
    /\ "cleanup" \in Env
    /\ pc = "idle"
    /\ features' = features \ ({t} \X (first .. last))
    /\ upsets' = upsets \cup {"cleanup"}
    /\ UNCHANGED <<day, silver, staging, jobs, driver>>

DriverStep == Fetch \/ Truncate \/ Launch \/ JobSeen \/ MergeStaging \/ Signals

Next ==
    \/ NextRun
    \/ DriverStep
    \/ \E j \in jobs : JobEnds(j)
    \/ Kill
    \/ \E t \in Temporalities, first, last \in 1 .. LastDay :
         Cleanup(t, first, last)

Spec == Init /\ [][Next]_vars

\* The DAG runs every day, a live driver goes on, and every job ends.
FairSpec ==
    /\ Spec
    /\ WF_vars(NextRun)
    /\ WF_vars(DriverStep)
    /\ WF_vars(\E j \in jobs : JobEnds(j))
-----------------------------------------------------------------------------
\* Every variable keeps its type.
TypeOK ==
    /\ day \in 0 .. LastDay
    /\ silver \in [Temporalities -> 0 .. LastDay]
    /\ features \subseteq Row
    /\ staging \subseteq Row
    /\ jobs \subseteq Job
    /\ pc \in {"idle", "fetch", "truncate", "launch", "wait", "merge", "signals"}
    /\ stage \in Temporalities
    /\ prior \in 0 .. LastDay
    /\ own \in Job \cup {None}
    /\ tries \in 0 .. MaxRetries
    /\ upsets \subseteq {"orphan", "cleanup"}

\* The table as its readers see it: an attempt has a batch from the launch of its
\* job to its MERGE.
Table == INSTANCE UpsertTable
            WITH table <- features,
                 batch <- IF own = None THEN {} ELSE own.rows

\* As long as no job has outlived its driver, driver, job and staging table together
\* implement one atomic upsert per attempt: a zero-row run replays nothing, a dead
\* attempt leaves nothing half merged, and the 1w stage never merges what the 1d stage
\* left in staging.
AtomicUpsert ==
    /\ Table!Init
    /\ [][("orphan" \notin upsets') => Table!Next]_<<features, own>>

\* The features of a temporality never have a hole: even when orphans overwrite
\* staging between a later attempt's write and its MERGE, what is merged
\* continues what is there (nobody having deleted rows by hand).
NoHole ==
    "cleanup" \notin upsets =>
        \A r \in features : \A n \in 1 .. r[2] : <<r[1], n>> \in features

\* A merge lost to an orphan is made up for by a later run: every candle silver
\* holds gets its row, unless rows are deleted by hand.
Healed ==
    \A t \in Temporalities : \A n \in 1 .. LastDay :
        silver[t] >= n ~> (<<t, n>> \in features \/ "cleanup" \in upsets)

\* What the signals stage may count on ("MERGE is idempotent, so a single re-launch is
\* safe"), as far as it is true: until a job outlives its driver, every candle has its
\* row when a launch reaches that stage, whatever attempts died before.
CompleteAtSignals ==
    pc = "signals" /\ upsets = {} =>
        \A t \in Temporalities : \A n \in 1 .. silver[t] : <<t, n>> \in features
=============================================================================
