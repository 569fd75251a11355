--------------------------- MODULE Backtest_proofs ---------------------------
(***************************************************************************)
(* Theorems about Backtest, for any number of weeks, folds and weeks of    *)
(* purge and embargo, whatever books the engine forms.                     *)
(***************************************************************************)
EXTENDS Backtest, FiniteSetTheorems, WellFoundedInduction, TLAPS

\* What Split checked, at the stages that come after it.
Splittable == cfg.minTrain < n /\ cfg.splits <= n - cfg.minTrain

\* Inductive: a fold is the one its index gives, and folds are only cut from
\* weeks that Load let through.
FoldInv ==
    /\ cfg \in Configs
    /\ n \in Nat
    /\ fold \in 0 .. cfg.splits
    /\ pc \in {"load", "engine", "folds", "done", "raised"}
    /\ pc \in {"engine", "folds", "done"} => n < HoldoutStart
    /\ pc \in {"folds", "done"} => Splittable
    /\ pc \notin {"folds", "done"} => folds = {}
    /\ \A f \in folds :
         /\ f.idx \in 0 .. fold - 1
         /\ f.train = Train(f.idx) /\ f.train # {}
         /\ f.test = Test(f.idx) /\ f.test # {}

-----------------------------------------------------------------------------
\* Adding one more multiple: the arithmetic of fold positions.
LEMMA Multiples ==
    ASSUME NEW f \in Nat, NEW g \in Nat, NEW T \in Nat, f < g
    PROVE  f * T + T <= g * T
<1> DEFINE k == g - f - 1
<1>1. k \in Nat
  OBVIOUS
<1>2. g * T = f * T + T + k * T
  <2>1. g = f + 1 + k
    BY <1>1
  <2> HIDE DEF k
  <2> QED BY <2>1, <1>1
<1>3. k * T \in Nat
  BY <1>1
<1> HIDE DEF k
<1>4. f * T \in Nat /\ g * T \in Nat
  OBVIOUS
<1> QED BY <1>2, <1>3, <1>4

\* A quotient times its divisor is at most the dividend.
LEMMA Quotient ==
    ASSUME NEW m \in Nat, NEW k \in Nat \ {0}
    PROVE  /\ m \div k \in Nat
           /\ k * (m \div k) <= m
  OBVIOUS

\* The positions of a fold lie in order: training before the boundary, testing
\* after it, the end within the data.
LEMMA Positions ==
    ASSUME FoldInv, Splittable, NEW f \in 0 .. cfg.splits - 1
    PROVE  /\ TestSize \in Nat
           /\ TestStart(f) \in Nat /\ cfg.minTrain <= TestStart(f)
           /\ TestStart(f) + TestSize <= n
           /\ TestEnd(f) \in Nat
           /\ TestStart(f) + TestSize <= TestEnd(f)
           /\ TestEnd(f) <= n
           /\ TrainStart(f) \in Nat
           /\ PurgeCutoff(f) \in Nat
<1>1. /\ cfg.splits \in Nat \ {0} /\ cfg.minTrain \in Nat
      /\ cfg.purge \in Nat /\ cfg.embargo \in Nat
      /\ n \in Nat /\ cfg.minTrain < n
  BY BacktestAssumption DEF FoldInv, Splittable
<1>2. TestSize \in Nat /\ cfg.splits * TestSize <= n - cfg.minTrain
  BY <1>1, Quotient DEF TestSize
<1>3. f \in Nat /\ f < cfg.splits
  BY <1>1
<1>4. f * TestSize + TestSize <= cfg.splits * TestSize
  BY <1>1, <1>2, <1>3, Multiples
<1>5. f * TestSize \in Nat /\ cfg.splits * TestSize \in Nat
  BY <1>1, <1>2, <1>3
<1>6. /\ TestStart(f) \in Nat /\ cfg.minTrain <= TestStart(f)
      /\ TestStart(f) + TestSize <= n
  <2> DEFINE start == f * TestSize
             total == cfg.splits * TestSize
  <2> HIDE DEF start, total
  <2>1. /\ start \in Nat /\ total \in Nat
        /\ start + TestSize <= total /\ total <= n - cfg.minTrain
    BY <1>2, <1>4, <1>5 DEF start, total
  <2>2. TestStart(f) = cfg.minTrain + start
    BY DEF TestStart, start
  <2> QED BY <1>1, <1>2, <2>1, <2>2
<1>7. /\ TestEnd(f) \in Nat /\ TestStart(f) + TestSize <= TestEnd(f)
      /\ TestEnd(f) <= n
  BY <1>1, <1>2, <1>6 DEF TestEnd
<1>8. TrainStart(f) \in Nat
  BY <1>1, <1>6 DEF TrainStart, MaxOf
<1>9. PurgeCutoff(f) \in Nat
  BY <1>1, <1>6, <1>8 DEF PurgeCutoff, MaxOf
<1> QED BY <1>2, <1>6, <1>7, <1>8, <1>9

-----------------------------------------------------------------------------
\* No step changes what the folds are cut from.
LEMMA SameFolds ==
    ASSUME cfg' = cfg, n' = n
    PROVE  /\ Splittable' <=> Splittable
           /\ \A f \in Nat : Train(f)' = Train(f) /\ Test(f)' = Test(f)
  BY DEF Splittable, Train, Test, TestStart, TestEnd, TestSize, TrainStart,
         PurgeCutoff, MaxOf, MinOf

LEMMA FoldInvInductive == FoldInv /\ [Next]_vars => FoldInv'
<1> SUFFICES ASSUME FoldInv, [Next]_vars PROVE FoldInv'
  OBVIOUS
<1> USE DEF FoldInv
<1>0. cfg.splits \in Nat \ {0} /\ cfg.minTrain \in Nat
  BY BacktestAssumption
<1>1. CASE Load
  <2>1. folds' = {} /\ UNCHANGED <<cfg, n, fold>>
    BY <1>1 DEF Load, engine
  <2>2. pc' \in {"raised", "engine"} /\ (pc' = "engine" => n < HoldoutStart)
    BY <1>1, BacktestAssumption DEF Load
  <2> QED BY <2>1, <2>2
<1>2. CASE EngineWeek
  BY <1>2 DEF EngineWeek
<1>3. CASE Split
  <2>1. folds' = {} /\ UNCHANGED <<cfg, n, fold>> /\ n < HoldoutStart
    BY <1>3 DEF Split, engine
  <2>2. pc' \in {"raised", "folds"} /\ (pc' = "folds" => Splittable)
    BY <1>0, <1>3 DEF Split, Splittable
  <2> QED BY <2>1, <2>2, SameFolds
<1>4. CASE Fold
  <2>1. /\ UNCHANGED <<cfg, n, pc>> /\ pc = "folds" /\ fold' = fold + 1
        /\ fold < cfg.splits /\ Train(fold) # {} /\ Test(fold) # {}
    BY <1>4 DEF Fold, engine
  <2>2. ASSUME NEW f \in folds'
        PROVE  /\ f.idx \in 0 .. fold
               /\ f.train = Train(f.idx) /\ f.train # {}
               /\ f.test = Test(f.idx) /\ f.test # {}
    <3>1. CASE f \in folds
      BY <1>0, <3>1
    <3>2. CASE f \notin folds
      <4>1. f.idx = fold /\ f.train = Train(fold) /\ f.test = Test(fold)
        BY <1>4, <2>2, <3>2 DEF Fold
      <4> QED BY <1>0, <2>1, <4>1
    <3> QED BY <3>1, <3>2
  <2>3. \A f \in folds' : f.train = Train(f.idx)' /\ f.test = Test(f.idx)'
    BY <1>0, <2>1, <2>2, SameFolds
  <2> QED BY <1>0, <2>1, <2>2, <2>3, SameFolds
<1>5. CASE SkipFold
  <2>1. UNCHANGED <<cfg, n, pc, folds>> /\ fold' = fold + 1 /\ fold < cfg.splits
    BY <1>5 DEF SkipFold, engine
  <2> QED BY <1>0, <2>1, SameFolds
<1>6. CASE Finish
  <2>1. UNCHANGED <<cfg, n, fold, folds>> /\ pc = "folds" /\ pc' = "done"
    BY <1>6 DEF Finish, engine
  <2> QED BY <1>0, <2>1, SameFolds
<1>7. CASE UNCHANGED vars
  <2>1. UNCHANGED <<cfg, n, pc, fold, folds>>
    BY <1>7 DEF vars
  <2> QED BY <1>0, <2>1, SameFolds
<1> QED BY <1>1, <1>2, <1>3, <1>4, <1>5, <1>6, <1>7 DEF Next

LEMMA FoldInvHolds == Spec => []FoldInv
<1>1. Init => FoldInv
  BY BacktestAssumption DEF Init, FoldInv
<1> QED BY <1>1, FoldInvInductive, PTL DEF Spec

-----------------------------------------------------------------------------
\* A fold that is kept has the whole purge before its boundary and the whole
\* embargo after it: were either cut short, one side would be empty.
LEMMA FoldAroundBoundary ==
    ASSUME FoldInv, NEW f \in folds
    PROVE  /\ f.idx \in 0 .. cfg.splits - 1 /\ TestStart(f.idx) \in Nat
           /\ f.train = TrainStart(f.idx) + 1 .. TestStart(f.idx) - cfg.purge
           /\ f.test = TestStart(f.idx) + cfg.embargo + 1 .. TestEnd(f.idx)
           /\ TrainStart(f.idx) \in Nat /\ TestEnd(f.idx) \in Nat
           /\ TestEnd(f.idx) <= n
           /\ TestStart(f.idx) <= TestEnd(f.idx)
<1> DEFINE i == f.idx
<1>1. /\ cfg.splits \in Nat \ {0} /\ cfg.purge \in Nat /\ cfg.embargo \in Nat
      /\ fold \in 0 .. cfg.splits /\ Splittable
  BY BacktestAssumption DEF FoldInv
<1>2. /\ i \in 0 .. cfg.splits - 1
      /\ f.train = Train(i) /\ f.train # {} /\ f.test = Test(i) /\ f.test # {}
  BY <1>1 DEF FoldInv
<1> HIDE DEF i
<1>3. /\ TestSize \in Nat /\ TestStart(i) \in Nat /\ TestEnd(i) \in Nat
      /\ TestStart(i) + TestSize <= TestEnd(i) /\ TestEnd(i) <= n
      /\ TrainStart(i) \in Nat /\ PurgeCutoff(i) \in Nat
  BY <1>1, <1>2, Positions
<1>4. TrainStart(i) < PurgeCutoff(i)
  BY <1>2, <1>3 DEF Train
<1>5. PurgeCutoff(i) = TestStart(i) - cfg.purge
  BY <1>1, <1>3, <1>4 DEF PurgeCutoff, MaxOf
<1>6. cfg.embargo < TestEnd(i) - TestStart(i)
  BY <1>1, <1>2, <1>3 DEF Test, MinOf
<1>7. f.test = TestStart(i) + cfg.embargo + 1 .. TestEnd(i)
  BY <1>1, <1>2, <1>3, <1>6 DEF Test, MinOf
<1> QED BY <1>1, <1>2, <1>3, <1>5, <1>7 DEF Train, i

\* Purge and embargo lie between training and testing in every fold, and no fold
\* reaches the holdout.
THEOREM NoLeakHolds == Spec => []NoLeak
<1>1. FoldInv => NoLeak
  <2> SUFFICES ASSUME FoldInv, NEW f \in folds
               PROVE  /\ \A t \in f.train, u \in f.test :
                           t + cfg.purge + cfg.embargo < u
                      /\ \A u \in f.train \cup f.test : u < HoldoutStart
    BY DEF NoLeak
  <2>1. /\ cfg.purge \in Nat /\ cfg.embargo \in Nat
        /\ n \in Nat /\ n < HoldoutStart /\ HoldoutStart \in Nat
    BY BacktestAssumption DEF FoldInv
  <2> QED BY <2>1, FoldAroundBoundary
<1> QED BY <1>1, FoldInvHolds, PTL

\* Test windows of successive folds follow each other without overlapping, whatever
\* remainder the last one absorbs.
THEOREM PooledOnceHolds == Spec => []PooledOnce
<1>1. FoldInv => PooledOnce
  <2> SUFFICES ASSUME FoldInv, NEW f \in folds, NEW g \in folds, f.idx < g.idx,
                      NEW t \in f.test, NEW u \in g.test
               PROVE  t < u
    BY DEF PooledOnce
  <2>1. /\ cfg.splits \in Nat \ {0} /\ cfg.minTrain \in Nat /\ cfg.embargo \in Nat
        /\ Splittable
    BY BacktestAssumption DEF FoldInv
  <2> DEFINE i == f.idx
             j == g.idx
  <2>2. i \in 0 .. cfg.splits - 1 /\ j \in 0 .. cfg.splits - 1 /\ i < j
    BY FoldAroundBoundary
  <2>3. t \in Nat /\ t <= TestEnd(i)
    <3>1. /\ TestStart(i) \in Nat /\ TestEnd(i) \in Nat
          /\ t \in TestStart(i) + cfg.embargo + 1 .. TestEnd(i)
      BY FoldAroundBoundary
    <3> QED BY <2>1, <3>1
  <2>4. u \in Nat /\ TestStart(j) < u
    <3>1. /\ TestStart(j) \in Nat /\ TestEnd(j) \in Nat
          /\ u \in TestStart(j) + cfg.embargo + 1 .. TestEnd(j)
      BY FoldAroundBoundary
    <3> QED BY <2>1, <3>1
  <2> HIDE DEF i, j
  <2>5. i \in Nat /\ j \in Nat /\ TestSize \in Nat /\ TestEnd(i) \in Nat
        /\ TestStart(j) \in Nat
    BY <2>1, <2>2, Positions
  <2>6. i * TestSize + TestSize <= j * TestSize
    BY <2>2, <2>5, Multiples
  <2>7. TestEnd(i) = cfg.minTrain + (i * TestSize + TestSize)
    <3>1. i < cfg.splits - 1
      BY <2>1, <2>2
    <3>2. i * TestSize \in Nat
      BY <2>5
    <3> QED BY <2>1, <2>5, <3>1, <3>2 DEF TestEnd, TestStart
  <2>8. TestEnd(i) <= TestStart(j)
    <3>1. i * TestSize \in Nat /\ j * TestSize \in Nat
      BY <2>5
    <3> QED BY <2>1, <2>5, <2>6, <2>7, <3>1 DEF TestStart
  <2> QED BY <2>3, <2>4, <2>5, <2>8
<1> QED BY <1>1, FoldInvHolds, PTL
-----------------------------------------------------------------------------
\* Inductive: the engine's one remembered book is that of the week before, flat or
\* not, and records only reach the week it is at.
ChargeInv ==
    /\ n \in 0 .. MaxWeeks
    /\ week \in Nat \ {0}
    /\ book \in [Weeks -> Book]
    /\ turnover = [w \in Weeks |-> turnover[w]]
    /\ prev = IF week > 1 THEN book[week - 1] ELSE Flat
    /\ \A w \in Recorded : 1 < w /\ w <= week
    /\ ChargedForItsTrades

LEMMA ChargeInvInductive == ChargeInv /\ [Next]_vars => ChargeInv'
<1> SUFFICES ASSUME ChargeInv, [Next]_vars PROVE ChargeInv'
  OBVIOUS
<1>1. CASE EngineWeek
  <2>1. /\ week < n /\ week \in Weeks /\ week + 1 \in Weeks
        /\ week' = week + 1 /\ n' = n
    BY <1>1, BacktestAssumption DEF EngineWeek, ChargeInv, Weeks
  <2>2. PICK b \in Book : book' = [book EXCEPT ![week] = b] /\ Rebalance(b)
    BY <1>1 DEF EngineWeek
  <2>3. /\ prev' = b /\ book' \in [Weeks -> Book] /\ book'[week] = b
        /\ \A w \in Weeks : w # week => book'[w] = book[w]
    BY <2>1, <2>2 DEF Rebalance, ChargeInv
  <2>4. /\ turnover' = [w \in Weeks |-> turnover'[w]]
        /\ \A w \in Weeks : w # week + 1 => turnover'[w] = turnover[w]
        /\ turnover'[week + 1] \in {turnover[week + 1], Traded(prev, b)}
    BY <2>1, <2>2 DEF Rebalance, ChargeInv
  <2>5. turnover[week + 1] = -1
    BY <2>1 DEF ChargeInv, Recorded, Weeks
  <2>6. ASSUME NEW w \in Recorded'
        PROVE  /\ 1 < w /\ w <= week'
               /\ turnover'[w] = Traded(IF w > 2 THEN book'[w - 2] ELSE Flat,
                                        book'[w - 1])
    <3>1. w \in Weeks /\ turnover'[w] # -1
      BY <2>6 DEF Recorded, Weeks
    <3>2. CASE w = week + 1
      <4>1. turnover'[w] = Traded(prev, b)
        BY <2>4, <2>5, <3>1, <3>2
      <4>2. book'[w - 1] = b
        BY <2>1, <2>3, <3>2 DEF Weeks
      <4>3. prev = IF w > 2 THEN book'[w - 2] ELSE Flat
        <5>1. CASE week > 1
          <6>1. week - 1 \in Weeks /\ week - 1 # week /\ w - 2 = week - 1 /\ w > 2
            BY <2>1, <3>2, <5>1, BacktestAssumption DEF Weeks
          <6>2. book'[w - 2] = book[week - 1]
            BY <2>3, <6>1
          <6> QED BY <5>1, <6>1, <6>2 DEF ChargeInv
        <5>2. CASE ~ (week > 1)
          <6>1. ~ (w > 2)
            BY <2>1, <3>2, <5>2 DEF Weeks
          <6> QED BY <5>2, <6>1 DEF ChargeInv
        <5> QED BY <5>1, <5>2
      <4>4. 1 < w /\ w <= week'
        BY <2>1, <3>2 DEF Weeks
      <4> QED BY <4>1, <4>2, <4>3, <4>4
    <3>3. CASE w # week + 1
      <4>1. w \in Recorded /\ turnover'[w] = turnover[w]
        BY <2>4, <3>1, <3>3 DEF Recorded
      <4>2. 1 < w /\ w <= week /\ w \in Int /\ week \in Int
        BY <2>1, <3>1, <4>1 DEF ChargeInv, Weeks
      <4>3. w - 1 \in Weeks /\ w - 1 # week
            /\ (w > 2 => w - 2 \in Weeks /\ w - 2 # week)
        BY <3>1, <4>2, BacktestAssumption DEF Weeks
      <4>4. book'[w - 1] = book[w - 1] /\ (w > 2 => book'[w - 2] = book[w - 2])
        BY <2>3, <4>3
      <4>5. turnover[w] = Traded(IF w > 2 THEN book[w - 2] ELSE Flat, book[w - 1])
        BY <4>1 DEF ChargeInv, ChargedForItsTrades
      <4> QED BY <2>1, <4>1, <4>2, <4>4, <4>5
    <3> QED BY <3>2, <3>3
  <2>7. week' \in Nat \ {0} /\ n' \in 0 .. MaxWeeks
    BY <2>1 DEF Weeks, ChargeInv
  <2>8. prev' = IF week' > 1 THEN book'[week' - 1] ELSE Flat
    BY <2>1, <2>3 DEF Weeks
  <2>9. ChargedForItsTrades'
    BY <2>6 DEF ChargedForItsTrades
  <2> QED BY <2>3, <2>4, <2>6, <2>7, <2>8, <2>9 DEF ChargeInv
<1>2. ASSUME UNCHANGED <<n, week, book, prev, turnover>> PROVE ChargeInv'
  BY <1>2 DEF ChargeInv, ChargedForItsTrades, Recorded
<1> QED BY <1>1, <1>2 DEF Next, Load, Split, Fold, SkipFold, Finish, engine, vars

\* Every recorded week is charged for exactly the trades that lead to its book, for
\* any number of weeks and symbols and any books.
THEOREM ChargedForItsTradesHolds == Spec => []ChargedForItsTrades
<1>1. Init => ChargeInv
  BY BacktestAssumption DEF Init, ChargeInv, ChargedForItsTrades, Recorded
<1>2. ChargeInv => ChargedForItsTrades
  BY DEF ChargeInv
<1> QED BY <1>1, <1>2, ChargeInvInductive, PTL DEF Spec

-----------------------------------------------------------------------------
(***************************************************************************)
(* Types.                                                                  *)
(***************************************************************************)

\* Induction over numbers, for a property given by the set of those that have it.
LEMMA NumberInduction ==
    ASSUME NEW G, 0 \in G, \A k \in Nat : k \in G => k + 1 \in G
    PROVE  Nat \subseteq G
<1> DEFINE Wrong == Nat \ G
<1> SUFFICES ASSUME Wrong # {} PROVE FALSE
  OBVIOUS
<1>1. Wrong \subseteq Nat
  OBVIOUS
<1>2. PICK k \in Wrong : \A y \in Wrong : ~ (<<y, k>> \in OpToRel(<, Nat))
  <2> HIDE DEF Wrong
  <2> QED BY <1>1, WFMin, NatLessThanWellFounded
<1>3. \A y \in Wrong : ~ (y < k)
  BY <1>2 DEF OpToRel
<1>4. k # 0 /\ k - 1 \in Nat /\ k - 1 < k
  OBVIOUS
<1>5. k - 1 \in G
  BY <1>3, <1>4
<1>6. (k - 1) + 1 \in G
  BY <1>4, <1>5
<1> QED BY <1>4, <1>6

\* What MapThenSumSet adds up in Traded is a number: there are partial sums, by the
\* number of symbols they are over, and each is one.
Choice(T) == CHOOSE s \in T : TRUE
Change(before, after, s) == Abs(after[s] - before[s])
PartialSums(it, before, after, D) ==
    it = [T \in D |-> IF T = {} THEN 0
                      ELSE Change(before, after, Choice(T)) + it[T \ {Choice(T)}]]

LEMMA PartialSumsExist ==
    ASSUME NEW before, NEW after
    PROVE  \E it : PartialSums(it, before, after, SUBSET Symbol)
<1> DEFINE Small(k) == {T \in SUBSET Symbol : Cardinality(T) <= k}
           G == {k \in Nat : \E it : PartialSums(it, before, after, Small(k))}
<1>0. \A T \in SUBSET Symbol : IsFiniteSet(T) /\ Cardinality(T) \in Nat
  BY BacktestAssumption, FS_Subset, FS_CardinalityType
<1>1. 0 \in G
  <2> DEFINE it == [T \in Small(0) |-> 0]
  <2>1. \A T \in Small(0) : T = {}
    BY <1>0, FS_EmptySet
  <2>2. PartialSums(it, before, after, Small(0))
    BY <2>1 DEF PartialSums
  <2> QED BY <2>2
<1>2. ASSUME NEW k \in Nat, k \in G PROVE k + 1 \in G
  <2>1. PICK g : PartialSums(g, before, after, Small(k))
    BY <1>2
  <2> DEFINE h == [T \in Small(k + 1) |->
                    IF T = {} THEN 0
                    ELSE Change(before, after, Choice(T)) + g[T \ {Choice(T)}]]
  <2>2. ASSUME NEW T \in Small(k + 1), T # {}
        PROVE  h[T \ {Choice(T)}] = g[T \ {Choice(T)}]
    <3> DEFINE U == T \ {Choice(T)}
    <3>1. Choice(T) \in T
      BY <2>2 DEF Choice
    <3>2. Cardinality(U) = Cardinality(T) - 1
      BY <1>0, <3>1, FS_RemoveElement
    <3>3. U \in Small(k) /\ U \in Small(k + 1)
      BY <1>0, <3>2
    <3> QED BY <2>1, <3>3 DEF PartialSums
  <2>3. h = [T \in Small(k + 1) |->
              IF T = {} THEN 0
              ELSE Change(before, after, Choice(T)) + h[T \ {Choice(T)}]]
    <3>1. \A T \in Small(k + 1) : T # {} => h[T \ {Choice(T)}] = g[T \ {Choice(T)}]
      BY <2>2
    <3> HIDE DEF Small
    <3> QED BY <3>1, Zenon
  <2>4. PartialSums(h, before, after, Small(k + 1))
    BY <2>3 DEF PartialSums
  <2> HIDE DEF h, Small
  <2> QED BY <2>4
<1>3. Cardinality(Symbol) \in G
  <2> HIDE DEF G
  <2>1. Nat \subseteq G
    BY <1>1, <1>2, NumberInduction
  <2> QED BY <1>0, <2>1
<1>4. Small(Cardinality(Symbol)) = SUBSET Symbol
  BY BacktestAssumption, FS_Subset
<1> HIDE DEF Small
<1> QED BY <1>3, <1>4

LEMMA TradedType ==
    ASSUME NEW before \in Book, NEW after \in Book
    PROVE  Traded(before, after) \in Int
<1> DEFINE A(it) == [T \in SUBSET Symbol |->
                IF T = {} THEN 0
                ELSE Abs(after[CHOOSE s \in T : TRUE] - before[CHOOSE s \in T : TRUE])
                     + it[T \ {CHOOSE s \in T : TRUE}]]
<1>1. \A it : PartialSums(it, before, after, SUBSET Symbol) <=> it = A(it)
  BY DEF PartialSums, Change, Choice
<1>2. PICK it : it = (CHOOSE x : x = A(x))
  OBVIOUS
<1>3. it = A(it)
  <2> HIDE DEF A
  <2>1. \E x : x = A(x)
    BY <1>1, PartialSumsExist
  <2> QED BY <1>2, <2>1
<1>4. Traded(before, after) = it[Symbol]
  BY <1>2 DEF Traded, MapThenSumSet, MapThenFoldSet
<1>5. \A s \in Symbol : Abs(after[s] - before[s]) \in Int
  BY BacktestAssumption DEF Abs
<1> DEFINE G == {k \in Nat : \A T \in SUBSET Symbol :
                               Cardinality(T) = k => it[T] \in Int}
<1>6. \A T \in SUBSET Symbol : IsFiniteSet(T) /\ Cardinality(T) \in Nat
  BY BacktestAssumption, FS_Subset, FS_CardinalityType
<1>7. 0 \in G
  <2> SUFFICES ASSUME NEW T \in SUBSET Symbol, Cardinality(T) = 0 PROVE it[T] \in Int
    OBVIOUS
  <2>1. T = {}
    BY <1>6, FS_EmptySet
  <2> QED BY <1>3, <2>1
<1>8. ASSUME NEW k \in Nat, k \in G PROVE k + 1 \in G
  <2> SUFFICES ASSUME NEW T \in SUBSET Symbol, Cardinality(T) = k + 1
               PROVE  it[T] \in Int
    OBVIOUS
  <2> DEFINE c == CHOOSE s \in T : TRUE
  <2>1. T # {}
    BY FS_EmptySet
  <2>2. c \in T
    BY <2>1
  <2>3. Cardinality(T \ {c}) = k
    <3> HIDE DEF c
    <3>1. Cardinality(T \ {c}) = Cardinality(T) - 1
      BY <1>6, <2>2, FS_RemoveElement
    <3> QED BY <3>1
  <2>4. it[T \ {c}] \in Int
    BY <1>8, <2>3
  <2>5. it[T] = Abs(after[c] - before[c]) + it[T \ {c}]
    BY <1>3, <2>1
  <2> HIDE DEF c
  <2> QED BY <1>5, <2>2, <2>4, <2>5
<1>9. Cardinality(Symbol) \in G
  <2> HIDE DEF G
  <2>1. Nat \subseteq G
    BY <1>7, <1>8, NumberInduction
  <2> QED BY <1>6, <2>1
<1> QED BY <1>4, <1>9

\* Inductive, with FoldInv and ChargeInv: what TypeOK adds to them.
TypeInv ==
    /\ week <= MaxOf(n, 1)
    /\ prev \in Book
    /\ turnover \in [Weeks -> Int]
    /\ folds \subseteq [idx : 0 .. cfg.splits - 1, train : SUBSET Weeks,
                        test : SUBSET Weeks, pooled : SUBSET Weeks]

\* No side of a fold leaves the data.
LEMMA SidesAreWeeks ==
    ASSUME FoldInv, n \in 0 .. MaxWeeks, Splittable, NEW f \in 0 .. cfg.splits - 1
    PROVE  Train(f) \subseteq Weeks /\ Test(f) \subseteq Weeks
<1>1. /\ n \in Nat /\ n <= MaxWeeks /\ MaxWeeks \in Nat
      /\ cfg.purge \in Nat /\ cfg.embargo \in Nat /\ cfg.minTrain \in Nat
  BY BacktestAssumption DEF FoldInv
<1>2. /\ TestSize \in Nat /\ TestStart(f) \in Nat /\ TestEnd(f) \in Nat
      /\ TestStart(f) + TestSize <= TestEnd(f) /\ TestEnd(f) <= n
      /\ TrainStart(f) \in Nat /\ PurgeCutoff(f) \in Nat
  BY Positions
<1>3. TrainStart(f) <= TestStart(f)
  BY <1>1, <1>2 DEF TrainStart, MaxOf
<1>4. PurgeCutoff(f) <= TestStart(f)
  BY <1>1, <1>2, <1>3 DEF PurgeCutoff, MaxOf
<1>5. MinOf(cfg.embargo, TestEnd(f) - TestStart(f)) \in Nat
  BY <1>1, <1>2 DEF MinOf
<1>6. Train(f) \subseteq Weeks
  BY <1>1, <1>2, <1>4 DEF Train, Weeks
<1>7. Test(f) \subseteq Weeks
  BY <1>1, <1>2, <1>5 DEF Test, Weeks
<1> QED BY <1>6, <1>7

LEMMA TypeInvInductive ==
    FoldInv /\ ChargeInv /\ TypeInv /\ [Next]_vars => TypeInv'
<1> SUFFICES ASSUME FoldInv, ChargeInv, TypeInv, [Next]_vars PROVE TypeInv'
  OBVIOUS
<1>0. /\ n \in Nat /\ n \in 0 .. MaxWeeks /\ week \in Nat \ {0}
      /\ MaxWeeks \in Nat /\ cfg.splits \in Nat \ {0}
  BY BacktestAssumption DEF FoldInv, ChargeInv
<1>1. CASE Load
  BY <1>1 DEF Load, engine, TypeInv, MaxOf
<1>2. CASE EngineWeek
  <2>1. week < n /\ week' = week + 1 /\ UNCHANGED <<cfg, n, pc, folds>>
    BY <1>2 DEF EngineWeek
  <2>2. week' <= MaxOf(n', 1)
    BY <1>0, <2>1 DEF MaxOf
  <2>3. PICK b \in Book : Rebalance(b)
    BY <1>2 DEF EngineWeek
  <2>4. Traded(prev, b) \in Int
    BY TradedType DEF TypeInv
  <2>5. prev' \in Book /\ turnover' \in [Weeks -> Int]
    BY <2>3, <2>4 DEF Rebalance, TypeInv
  <2> QED BY <2>1, <2>2, <2>5 DEF TypeInv
<1>3. CASE Split
  BY <1>3 DEF Split, engine, TypeInv, MaxOf
<1>4. CASE Fold
  <2>1. /\ UNCHANGED <<cfg, n, pc, week, prev, turnover>>
        /\ fold < cfg.splits /\ pc = "folds"
    BY <1>4 DEF Fold, engine
  <2>2. PICK sign \in {-1, 0, 1} :
          folds' = folds \cup
            {[idx |-> fold, train |-> Train(fold), test |-> Test(fold),
              pooled |-> Pooled(Test(fold), sign)]}
    BY <1>4 DEF Fold
  <2>3. fold \in 0 .. cfg.splits - 1
    BY <1>0, <2>1 DEF FoldInv
  <2>4. Train(fold) \subseteq Weeks /\ Test(fold) \subseteq Weeks
    BY <1>0, <2>1, <2>3, SidesAreWeeks DEF FoldInv
  <2>5. Pooled(Test(fold), sign) \subseteq Weeks
    BY DEF Pooled, Recorded
  <2>6. folds' \subseteq [idx : 0 .. cfg.splits - 1, train : SUBSET Weeks,
                          test : SUBSET Weeks, pooled : SUBSET Weeks]
    BY <2>2, <2>3, <2>4, <2>5 DEF TypeInv
  <2> QED BY <2>1, <2>6 DEF TypeInv, MaxOf
<1>5. CASE SkipFold
  BY <1>5 DEF SkipFold, engine, TypeInv, MaxOf
<1>6. CASE Finish
  BY <1>6 DEF Finish, engine, TypeInv, MaxOf
<1>7. CASE UNCHANGED vars
  BY <1>7 DEF vars, TypeInv, MaxOf
<1> QED BY <1>1, <1>2, <1>3, <1>4, <1>5, <1>6, <1>7 DEF Next

LEMMA InvariantsHold == Spec => [](FoldInv /\ ChargeInv /\ TypeInv)
<1>1. Init => ChargeInv
  BY BacktestAssumption DEF Init, ChargeInv, ChargedForItsTrades, Recorded
<1>2. Init => TypeInv
  BY BacktestAssumption DEF Init, TypeInv, MaxOf
<1> QED BY <1>1, <1>2, FoldInvHolds, ChargeInvInductive, TypeInvInductive, PTL DEF Spec

\* Every variable keeps its type, for any configuration: no fold reaches past the
\* data, the engine never past the last week, and a turnover is a number.
THEOREM BacktestTypeCorrect == Spec => []TypeOK
<1>1. FoldInv /\ ChargeInv /\ TypeInv => TypeOK
  <2> SUFFICES ASSUME FoldInv, ChargeInv, TypeInv PROVE TypeOK
    OBVIOUS
  <2>1. week \in 1 .. MaxOf(n, 1)
    BY DEF FoldInv, ChargeInv, TypeInv, MaxOf
  <2> QED BY <2>1 DEF FoldInv, ChargeInv, TypeInv, TypeOK
<1> QED BY <1>1, InvariantsHold, PTL

-----------------------------------------------------------------------------
(***************************************************************************)
(* Nothing is lost between the folds.                                      *)
(***************************************************************************)

\* Inductive, with FoldInv: a fold is passed over only if one of its sides is empty.
KeptInv ==
    /\ pc = "done" => fold = cfg.splits
    /\ \A i \in 0 .. fold - 1 :
          Train(i) # {} /\ Test(i) # {} => \E f \in folds : f.idx = i

LEMMA KeptInvInductive == FoldInv /\ KeptInv /\ [Next]_vars => KeptInv'
<1> SUFFICES ASSUME FoldInv, KeptInv, [Next]_vars PROVE KeptInv'
  OBVIOUS
<1>0. fold \in Nat /\ cfg.splits \in Nat
  BY BacktestAssumption DEF FoldInv
\* The folds behind are as before.
<1>1. ASSUME cfg' = cfg, n' = n, folds \subseteq folds', NEW i \in 0 .. fold - 1,
             Train(i)' # {}, Test(i)' # {}
      PROVE  \E f \in folds' : f.idx = i
  <2>1. Train(i) # {} /\ Test(i) # {}
    BY <1>1, <1>0, SameFolds
  <2> QED BY <1>1, <2>1 DEF KeptInv
<1>2. CASE Fold
  <2>1. /\ UNCHANGED <<cfg, n, pc>> /\ pc = "folds" /\ fold' = fold + 1
        /\ folds \subseteq folds' /\ \E f \in folds' : f.idx = fold
    <3>1. PICK sign \in {-1, 0, 1} :
            folds' = folds \cup
              {[idx |-> fold, train |-> Train(fold), test |-> Test(fold),
                pooled |-> Pooled(Test(fold), sign)]}
      BY <1>2 DEF Fold
    <3> DEFINE new == [idx |-> fold, train |-> Train(fold), test |-> Test(fold),
                       pooled |-> Pooled(Test(fold), sign)]
    <3>2. new \in folds' /\ new.idx = fold /\ folds \subseteq folds'
      BY <3>1
    <3>3. UNCHANGED <<cfg, n, pc>> /\ pc = "folds" /\ fold' = fold + 1
      BY <1>2 DEF Fold, engine
    <3> HIDE DEF new
    <3> QED BY <3>2, <3>3
  <2>2. ASSUME NEW i \in 0 .. fold' - 1, Train(i)' # {}, Test(i)' # {}
        PROVE  \E f \in folds' : f.idx = i
    <3>1. CASE i = fold
      BY <2>1, <3>1
    <3>2. CASE i # fold
      <4>1. i \in 0 .. fold - 1
        BY <1>0, <2>1, <3>2
      <4> QED BY <1>1, <2>1, <2>2, <4>1
    <3> QED BY <3>1, <3>2
  <2> QED BY <2>1, <2>2 DEF KeptInv
<1>3. CASE SkipFold
  <2>1. /\ UNCHANGED <<cfg, n, pc, folds>> /\ pc = "folds" /\ fold' = fold + 1
        /\ Train(fold) = {} \/ Test(fold) = {}
    BY <1>3 DEF SkipFold, engine
  <2>2. ASSUME NEW i \in 0 .. fold' - 1, Train(i)' # {}, Test(i)' # {}
        PROVE  \E f \in folds' : f.idx = i
    <3>1. i # fold
      BY <1>0, <2>1, <2>2, SameFolds
    <3>2. i \in 0 .. fold - 1
      BY <1>0, <2>1, <3>1
    <3> QED BY <1>1, <2>1, <2>2, <3>2
  <2> QED BY <2>1, <2>2 DEF KeptInv
<1>4. ASSUME UNCHANGED <<cfg, n, fold, folds>>,
             pc' = "done" => pc = "done" \/ fold = cfg.splits
      PROVE  KeptInv'
  <2>1. \A i \in 0 .. fold' - 1 :
          Train(i)' # {} /\ Test(i)' # {} => \E f \in folds' : f.idx = i
    BY <1>1, <1>4
  <2>2. pc' = "done" => fold' = cfg'.splits
    BY <1>4 DEF KeptInv
  <2> QED BY <2>1, <2>2 DEF KeptInv
<1>5. CASE Load \/ EngineWeek \/ Split \/ Finish \/ UNCHANGED vars
  BY <1>4, <1>5 DEF Load, EngineWeek, Split, Finish, engine, vars
<1> QED BY <1>2, <1>3, <1>5 DEF Next

\* Where a fold ends, and the next one starts.
Bound(i) == IF i = cfg.splits THEN n ELSE TestStart(i)

\* When the embargo is shorter than a fold and the purge than the training window,
\* every fold has two sides, and tests all of its weeks but the embargo.
LEMMA WholeFold ==
    ASSUME FoldInv, Splittable, cfg.embargo < TestSize, cfg.purge < cfg.minTrain,
           NEW i \in 0 .. cfg.splits - 1
    PROVE  /\ Train(i) # {} /\ Test(i) # {}
           /\ Test(i) = Bound(i) + cfg.embargo + 1 .. Bound(i + 1)
           /\ Bound(i) \in Nat /\ Bound(i + 1) \in Nat
           /\ Bound(i) + cfg.embargo <= Bound(i + 1)
<1>1. /\ cfg.splits \in Nat \ {0} /\ cfg.minTrain \in Nat
      /\ cfg.purge \in Nat /\ cfg.embargo \in Nat /\ n \in Nat
  BY BacktestAssumption DEF FoldInv
<1>2. /\ TestSize \in Nat /\ TestStart(i) \in Nat /\ cfg.minTrain <= TestStart(i)
      /\ TestEnd(i) \in Nat /\ TestStart(i) + TestSize <= TestEnd(i)
  BY Positions
<1>3. i \in Nat /\ i < cfg.splits
  BY <1>1
<1>4. Bound(i) = TestStart(i)
  BY <1>1, <1>3 DEF Bound
<1>5. Bound(i + 1) = TestEnd(i)
  <2>1. CASE i + 1 = cfg.splits
    BY <1>1, <1>3, <2>1 DEF Bound, TestEnd
  <2>2. CASE i + 1 # cfg.splits
    <3>1. TestEnd(i) = TestStart(i) + TestSize /\ Bound(i + 1) = TestStart(i + 1)
      BY <1>1, <1>3, <2>2 DEF Bound, TestEnd
    <3>2. (i + 1) * TestSize = i * TestSize + TestSize /\ i * TestSize \in Nat
      BY <1>2, <1>3
    <3> QED BY <1>1, <1>2, <3>1, <3>2 DEF TestStart
  <2> QED BY <2>1, <2>2
<1>6. MinOf(cfg.embargo, TestEnd(i) - TestStart(i)) = cfg.embargo
  BY <1>1, <1>2 DEF MinOf
<1>7. Test(i) = TestStart(i) + cfg.embargo + 1 .. TestEnd(i) /\ Test(i) # {}
  <2>1. Test(i) = TestStart(i) + cfg.embargo + 1 .. TestEnd(i)
    BY <1>6 DEF Test
  <2>2. TestEnd(i) \in TestStart(i) + cfg.embargo + 1 .. TestEnd(i)
    BY <1>1, <1>2
  <2> QED BY <2>1, <2>2
<1>8. Train(i) # {}
  <2>1. TrainStart(i) \in Nat /\ TrainStart(i) < TestStart(i) - cfg.purge
    BY <1>1, <1>2 DEF TrainStart, MaxOf
  <2>2. PurgeCutoff(i) = TestStart(i) - cfg.purge
    BY <1>1, <1>2, <2>1 DEF PurgeCutoff, MaxOf
  <2>3. TrainStart(i) + 1 \in Train(i)
    BY <1>1, <1>2, <2>1, <2>2 DEF Train
  <2> QED BY <2>3
<1> QED BY <1>1, <1>2, <1>4, <1>5, <1>7, <1>8

\* The weeks tested by the first folds, and their embargoes, reach from the first
\* training window to where the last of them ends.
LEMMA TestedWeeks ==
    ASSUME FoldInv, Splittable, cfg.embargo < TestSize, cfg.purge < cfg.minTrain
    PROVE  n - cfg.minTrain =
             cfg.splits * cfg.embargo
               + Cardinality(UNION {Test(i) : i \in 0 .. cfg.splits - 1})
<1> DEFINE Tested(k) == UNION {Test(i) : i \in 0 .. k - 1}
           Counted(k) ==
             /\ IsFiniteSet(Tested(k)) /\ Bound(k) \in Nat
             /\ \A w \in Tested(k) : w \in Nat /\ w <= Bound(k)
             /\ Bound(k) - cfg.minTrain = k * cfg.embargo + Cardinality(Tested(k))
           G == {k \in Nat : k <= cfg.splits => Counted(k)}
<1>1. /\ cfg.splits \in Nat \ {0} /\ cfg.minTrain \in Nat /\ cfg.embargo \in Nat
      /\ n \in Nat /\ TestSize \in Nat
  BY BacktestAssumption, Positions DEF FoldInv
<1>2. 0 \in G
  <2>1. Tested(0) = {}
    <3>1. 0 .. 0 - 1 = {}
      OBVIOUS
    <3> QED BY <3>1
  <2>2. Bound(0) = cfg.minTrain
    <3>1. 0 * TestSize = 0
      BY <1>1
    <3> QED BY <1>1, <3>1 DEF Bound, TestStart
  <2>3. IsFiniteSet(Tested(0)) /\ Cardinality(Tested(0)) = 0 /\ 0 * cfg.embargo = 0
    BY <1>1, <2>1, FS_EmptySet
  <2> HIDE DEF Tested
  <2>4. Counted(0)
    BY <1>1, <2>1, <2>2, <2>3
  <2> QED BY <2>4
<1>3. ASSUME NEW k \in Nat, k \in G PROVE k + 1 \in G
  <2> SUFFICES ASSUME k + 1 <= cfg.splits PROVE Counted(k + 1)
    OBVIOUS
  <2>1. k \in 0 .. cfg.splits - 1 /\ Counted(k)
    BY <1>1, <1>3
  <2>2. /\ Test(k) = Bound(k) + cfg.embargo + 1 .. Bound(k + 1)
        /\ Bound(k) \in Nat /\ Bound(k + 1) \in Nat
        /\ Bound(k) + cfg.embargo <= Bound(k + 1)
    BY <2>1, WholeFold
  <2>3. Tested(k + 1) = Tested(k) \cup Test(k)
    <3>1. 0 .. (k + 1) - 1 = (0 .. k - 1) \cup {k}
      OBVIOUS
    <3> QED BY <3>1
  <2>4. /\ IsFiniteSet(Test(k))
        /\ Cardinality(Test(k)) = Bound(k + 1) - (Bound(k) + cfg.embargo)
    <3> DEFINE lo == Bound(k) + cfg.embargo + 1
               hi == Bound(k + 1)
    <3>1. lo \in Int /\ hi \in Int /\ lo <= hi + 1
      BY <1>1, <2>2
    <3> HIDE DEF lo, hi
    <3>2. /\ IsFiniteSet(lo .. hi)
          /\ Cardinality(lo .. hi) = IF lo > hi THEN 0 ELSE hi - lo + 1
      BY <3>1, FS_Interval
    <3>3. Cardinality(lo .. hi) = hi + 1 - lo
      BY <3>1, <3>2
    <3>4. hi + 1 - lo = Bound(k + 1) - (Bound(k) + cfg.embargo)
      BY <1>1, <2>2 DEF lo, hi
    <3> QED BY <2>2, <3>2, <3>3, <3>4 DEF lo, hi
  <2>5. Tested(k) \cap Test(k) = {}
    <3> SUFFICES ASSUME NEW w \in Tested(k), w \in Test(k) PROVE FALSE
      OBVIOUS
    <3>1. w \in Nat /\ w <= Bound(k)
      BY <2>1
    <3> HIDE DEF Tested
    <3> QED BY <1>1, <2>2, <3>1
  <2>6. IsFiniteSet(Tested(k))
    BY <2>1
  <2> HIDE DEF Tested
  <2>7. /\ IsFiniteSet(Tested(k + 1))
        /\ Cardinality(Tested(k + 1)) = Cardinality(Tested(k)) + Cardinality(Test(k))
    <3>1. /\ IsFiniteSet(Tested(k) \cup Test(k))
          /\ Cardinality(Tested(k) \cup Test(k)) =
               Cardinality(Tested(k)) + Cardinality(Test(k))
                 - Cardinality(Tested(k) \cap Test(k))
      BY <2>4, <2>6, FS_Union
    <3>2. Cardinality(Tested(k) \cap Test(k)) = 0
      BY <2>5, FS_EmptySet
    <3> DEFINE x == Cardinality(Tested(k))
               y == Cardinality(Test(k))
    <3>3. x \in Nat /\ y \in Nat
      BY <2>4, <2>6, FS_CardinalityType
    <3>4. Cardinality(Tested(k + 1)) = x + y - 0
      BY <2>3, <3>1, <3>2
    <3>5. x + y - 0 = x + y
      BY <3>3
    <3> QED BY <2>3, <3>1, <3>4, <3>5
  <2>8. \A w \in Tested(k + 1) : w \in Nat /\ w <= Bound(k + 1)
    BY <1>1, <2>1, <2>2, <2>3
  <2>9. Bound(k + 1) - cfg.minTrain =
          (k + 1) * cfg.embargo + Cardinality(Tested(k + 1))
    <3> DEFINE tested == Cardinality(Tested(k))
    <3>1. tested \in Nat
      BY <2>6, FS_CardinalityType
    <3>2. Bound(k) - cfg.minTrain = k * cfg.embargo + tested
      BY <2>1
    <3>3. (k + 1) * cfg.embargo = k * cfg.embargo + cfg.embargo /\ k * cfg.embargo \in Nat
      BY <1>1
    <3>4. Cardinality(Tested(k + 1)) = tested + (Bound(k + 1) - (Bound(k) + cfg.embargo))
      BY <2>4, <2>7
    <3> DEFINE all == Cardinality(Tested(k + 1))
               gaps == k * cfg.embargo
               from == Bound(k)
               to == Bound(k + 1)
    <3>5. /\ from - cfg.minTrain = gaps + tested /\ all = tested + (to - (from + cfg.embargo))
          /\ gaps \in Nat /\ from \in Nat /\ to \in Nat
      BY <2>2, <3>2, <3>3, <3>4
    <3> HIDE DEF tested, all, gaps, from, to
    <3>6. to - cfg.minTrain = gaps + cfg.embargo + all
      BY <1>1, <3>1, <3>5
    <3> QED BY <3>3, <3>6 DEF all, gaps, to
  <2> QED BY <2>2, <2>7, <2>8, <2>9
<1>4. cfg.splits \in G
  <2> HIDE DEF G
  <2>1. Nat \subseteq G
    BY <1>2, <1>3, NumberInduction
  <2> QED BY <1>1, <2>1
<1>5. Counted(cfg.splits)
  <2> HIDE DEF Counted
  <2> QED BY <1>1, <1>4
<1>6. Bound(cfg.splits) = n
  BY DEF Bound
<1> QED BY <1>5, <1>6

\* When every fold is longer than the embargo, and the training window than the purge,
\* tested weeks and embargoes make up all weeks after the first training window, for any
\* number of weeks and folds, whatever remainder the last fold absorbs.
THEOREM NothingLostHolds == Spec => []NothingLost
<1>1. Init => KeptInv
  BY BacktestAssumption DEF Init, KeptInv
<1>2. FoldInv /\ KeptInv => NothingLost
  <2> SUFFICES ASSUME FoldInv, KeptInv, pc = "done",
                      cfg.embargo < TestSize, cfg.purge < cfg.minTrain
               PROVE  n - cfg.minTrain = cfg.splits * cfg.embargo
                        + Cardinality(UNION {f.test : f \in folds})
    BY DEF NothingLost
  <2>1. Splittable /\ fold = cfg.splits
    BY DEF FoldInv, KeptInv
  <2>2. {f.test : f \in folds} = {Test(i) : i \in 0 .. cfg.splits - 1}
    <3>1. ASSUME NEW f \in folds PROVE f.idx \in 0 .. cfg.splits - 1 /\ f.test = Test(f.idx)
      BY <2>1 DEF FoldInv
    <3>2. ASSUME NEW i \in 0 .. cfg.splits - 1 PROVE \E f \in folds : f.test = Test(i)
      <4>1. PICK f \in folds : f.idx = i
        BY <2>1, WholeFold DEF KeptInv
      <4> QED BY <3>1, <4>1
    <3> QED BY <3>1, <3>2
  <2> QED BY <2>1, <2>2, TestedWeeks
<1> QED BY <1>1, <1>2, FoldInvHolds, KeptInvInductive, PTL DEF Spec
=============================================================================
