------------------------------ MODULE Backtest ------------------------------
(***************************************************************************)
(* The walk-forward evaluation of strategy 3 (run_walk_forward): the       *)
(* engine walks all pre-holdout weeks once, then walk_forward_splits cuts  *)
(* them into folds, with a purge before and an embargo after each          *)
(* boundary, and each fold pools the weeks on which the strategy and every *)
(* baseline have a return.                                                 *)
(*                                                                         *)
(* Weeks are 1..n, without gaps; index i of the code's sorted_dates is     *)
(* week i + 1.  A book is given by its weights in some unit, 0 for a symbol*)
(* it does not hold; what the engine earns is left out, what it trades is  *)
(* kept.                                                                   *)
(***************************************************************************)
EXTENDS Integers, FiniteSets, FiniteSetsExt

CONSTANTS
    MaxWeeks,      \* bound: weeks of data
    HoldoutStart,  \* the first sealed week
    Configs,       \* WalkForwardConfig: splits, minTrain, purge, embargo, rolling
    Symbol,
    Book,          \* books a week may form, the flat one included
    VolFrom,       \* the first week with a volatility, for the baselines
    PassiveFrom,   \* the first week with data of the 60/40 baseline
    RebalanceWeeks \* and the weeks between its rebalances (52)

Flat == [s \in Symbol |-> 0]

ASSUME BacktestAssumption ==
    /\ MaxWeeks \in Nat
    /\ HoldoutStart \in Nat
    /\ VolFrom \in Nat /\ PassiveFrom \in Nat /\ RebalanceWeeks \in Nat
    /\ IsFiniteSet(Symbol)
    /\ Flat \in Book /\ Book \subseteq [Symbol -> Int]
    /\ \A c \in Configs :
         /\ c.splits \in Nat \ {0}
         /\ c.minTrain \in Nat /\ c.purge \in Nat /\ c.embargo \in Nat
         /\ c.rolling \in BOOLEAN

VARIABLES
    cfg,
    n,         \* number of weeks loaded
    pc,
    week,      \* the signal week the engine is at
    book,      \* the book formed in each week so far
    prev,      \* prev_weights
    turnover,  \* of each return week recorded, -1 for a week without record
    fold,      \* fold_idx
    folds      \* the folds yielded so far: train, test, pooled

vars == <<cfg, n, pc, week, book, prev, turnover, fold, folds>>
engine == <<week, book, prev, turnover>>

Weeks == 1 .. MaxWeeks
MaxOf(i, j) == IF i > j THEN i ELSE j
MinOf(i, j) == IF i < j THEN i ELSE j
Abs(i) == IF i < 0 THEN -i ELSE i

\* Sum of |w_after - w_before| over every symbol of either book.
Traded(before, after) ==
    MapThenSumSet(LAMBDA s : Abs(after[s] - before[s]), Symbol)

-----------------------------------------------------------------------------
(***************************************************************************)
(* walk_forward_splits.                                                    *)
(***************************************************************************)
TestSize == (n - cfg.minTrain) \div cfg.splits

TestStart(f) == cfg.minTrain + f * TestSize

\* Mutant: the last fold is as long as the others.
EqualTestEnd(f) == TestStart(f) + TestSize

\* Mutant: the end index is taken as inclusive.
InclusiveTestEnd(f) ==
    IF f < cfg.splits - 1 THEN TestStart(f) + TestSize + 1 ELSE n

\* The last fold absorbs the remainder.
TestEnd(f) == IF f < cfg.splits - 1 THEN TestStart(f) + TestSize ELSE n

TrainStart(f) ==
    IF cfg.rolling THEN MaxOf(0, TestStart(f) - cfg.minTrain) ELSE 0

\* Mutant: no purge.
UnpurgedCutoff(f) == TestStart(f)

PurgeCutoff(f) == MaxOf(TrainStart(f), TestStart(f) - cfg.purge)

\* sorted_dates[a:b], as weeks, is a + 1 .. b.
Train(f) == TrainStart(f) + 1 .. PurgeCutoff(f)
Test(f) ==
    TestStart(f) + MinOf(cfg.embargo, TestEnd(f) - TestStart(f)) + 1 .. TestEnd(f)

-----------------------------------------------------------------------------
Init ==
    /\ cfg \in Configs
    /\ n \in 0 .. MaxWeeks
    /\ pc = "load"
    /\ week = 1
    /\ book = [w \in Weeks |-> Flat]
    /\ prev = Flat
    /\ turnover = [w \in Weeks |-> -1]
    /\ fold = 0
    /\ folds = {}

\* No rows, or a sealed week among them: nothing is run.
Load ==
    /\ pc = "load"
    /\ pc' = IF n = 0 \/ n >= HoldoutStart THEN "raised" ELSE "engine"
    /\ UNCHANGED <<cfg, n, engine, fold, folds>>

\* Mutant: a flat week does not close the book held before.
KeepOnFlat(b) ==
    /\ prev' = IF b = Flat THEN prev ELSE b
    /\ turnover' = IF b = Flat THEN turnover
                   ELSE [turnover EXCEPT ![week + 1] = Traded(prev, b)]

\* The book of the signal week `week` earns the return of the week after; a flat
\* week records nothing and forgets the book held before it.
Rebalance(b) ==
    /\ prev' = b
    /\ turnover' = IF b = Flat THEN turnover
                   ELSE [turnover EXCEPT ![week + 1] = Traded(prev, b)]

\* Mutant: the last week is taken as a signal week too.
EngineWeekToTheLast ==
    /\ pc = "engine"
    /\ week <= n
    /\ \E b \in Book :
         /\ book' = [book EXCEPT ![week] = b]
         /\ Rebalance(b)
    /\ week' = week + 1
    /\ UNCHANGED <<cfg, n, pc, fold, folds>>

\* The last week has no week after it to earn.
EngineWeek ==
    /\ pc = "engine"
    /\ week < n
    /\ \E b \in Book :
         /\ book' = [book EXCEPT ![week] = b]
         /\ Rebalance(b)
    /\ week' = week + 1
    /\ UNCHANGED <<cfg, n, pc, fold, folds>>

\* Too few weeks to train, or to give every fold one.
Split ==
    /\ pc = "engine"
    /\ week = n
    /\ pc' = IF n < cfg.minTrain + 1 \/ n - cfg.minTrain < cfg.splits
             THEN "raised" ELSE "folds"
    /\ UNCHANGED <<cfg, n, engine, fold, folds>>

(***************************************************************************)
(* The weeks of a test window on which each baseline has a return.         *)
(***************************************************************************)
\* Volatility-scaled buy-and-hold: a week is sized by the week before.
VolBhDates(test) == {w \in test : w - 1 >= VolFrom}

\* The historical mean: the same, with the sign of the training window.
TshDates(test, sign) == {w \in VolBhDates(test) : sign # 0}

\* 60/40: weights are bought in the first week or at a rebalance, and then drift.
\* When the first week has no data, the next try is RebalanceWeeks + 1 weeks later.
PassiveDates(test) ==
    LET bought == {w \in test : /\ w >= PassiveFrom
                                /\ \/ \A u \in test : u >= w
                                   \/ \E u \in test : u + RebalanceWeeks < w}
    IN  {w \in test : \E v \in bought : v <= w}

Recorded == {w \in Weeks : turnover[w] # -1}

\* _align_to_common_dates: all four strategies have a return.
Pooled(test, sign) ==
    Recorded \cap VolBhDates(test) \cap TshDates(test, sign) \cap PassiveDates(test)

Fold ==
    /\ pc = "folds"
    /\ fold < cfg.splits
    /\ Train(fold) # {} /\ Test(fold) # {}
    /\ \E sign \in {-1, 0, 1} :
         folds' = folds \cup
            {[idx |-> fold, train |-> Train(fold), test |-> Test(fold),
              pooled |-> Pooled(Test(fold), sign)]}
    /\ fold' = fold + 1
    /\ UNCHANGED <<cfg, n, pc, engine>>

SkipFold ==
    /\ pc = "folds"
    /\ fold < cfg.splits
    /\ Train(fold) = {} \/ Test(fold) = {}
    /\ fold' = fold + 1
    /\ UNCHANGED <<cfg, n, pc, engine, folds>>

Finish ==
    /\ pc = "folds"
    /\ fold = cfg.splits
    /\ pc' = "done"
    /\ UNCHANGED <<cfg, n, engine, fold, folds>>

Next == Load \/ EngineWeek \/ Split \/ Fold \/ SkipFold \/ Finish

Spec == Init /\ [][Next]_vars
-----------------------------------------------------------------------------
(***************************************************************************)
(* Properties.                                                             *)
(***************************************************************************)

\* Every variable keeps its type.
TypeOK ==
    /\ cfg \in Configs
    /\ n \in 0 .. MaxWeeks
    /\ pc \in {"load", "engine", "folds", "done", "raised"}
    /\ week \in 1 .. MaxOf(n, 1)
    /\ book \in [Weeks -> Book]
    /\ prev \in Book
    /\ turnover \in [Weeks -> Int]
    /\ fold \in 0 .. cfg.splits
    /\ folds \subseteq [idx : 0 .. cfg.splits - 1, train : SUBSET Weeks,
                        test : SUBSET Weeks, pooled : SUBSET Weeks]

\* Between the last week a fold trains on and the first it tests on there is the
\* whole purge and the whole embargo, however short the fold; and neither side
\* reaches the sealed weeks.
NoLeak ==
    \A f \in folds :
        /\ \A t \in f.train, u \in f.test : t + cfg.purge + cfg.embargo < u
        /\ \A u \in f.train \cup f.test : u < HoldoutStart

\* Folds move forward: a week is tested by one fold only, so that the pooled series
\* holds no return twice.
PooledOnce ==
    \A f, g \in folds : f.idx < g.idx =>
        \A t \in f.test, u \in g.test : t < u

\* When every fold is longer than the embargo, the tested weeks and the embargoes
\* make up all the weeks after the first training window: none falls between two
\* folds or after the last one.
NothingLost ==
    (/\ pc = "done"
     /\ cfg.embargo < TestSize
     /\ cfg.purge < cfg.minTrain)
        => n - cfg.minTrain =
             cfg.splits * cfg.embargo
               + Cardinality(UNION {f.test : f \in folds})

\* Each recorded week is charged for exactly the trades that lead from the book
\* of the week before, flat or not, to its own.
ChargedForItsTrades ==
    \A w \in Recorded :
        turnover[w] = Traded(IF w > 2 THEN book[w - 2] ELSE Flat, book[w - 1])
=============================================================================
