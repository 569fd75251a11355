------------------------ MODULE ContextIngest_proofs ------------------------
(***************************************************************************)
(* Type correctness, unambiguous as-of joins, up-to-date windows and       *)
(* one-way updates of ContextIngest, for every feed, calendar, look-back   *)
(* and chunk size.                                                         *)
(***************************************************************************)
EXTENDS ContextIngest, FiniteSetTheorems, SequenceTheorems, TLAPS

-----------------------------------------------------------------------------
(***************************************************************************)
(* Days.                                                                   *)
(***************************************************************************)

\* The bounds as numbers.
LEMMA Numbers ==
    /\ LastDay \in Nat \ {0} /\ Lookback \in Nat /\ ChunkSize \in Nat \ {0}
    /\ Forever = LastDay + 1
    /\ Days = 1 .. LastDay
    /\ \A d \in Days : d \in Nat /\ 1 <= d /\ d <= LastDay
  BY ContextAssumption DEF Forever, Days

\* A non-empty set of days has a first one, which is its Min.
LEMMA FirstOfDays ==
    ASSUME NEW T \in SUBSET Days, T # {}
    PROVE  Min(T) \in T /\ \A y \in T : Min(T) <= y
  <1>1. T \subseteq Nat /\ \A y \in T : y \in Nat
    BY Numbers
  <1>2. PICK x \in T : \A y \in T : ~ (<<y, x>> \in OpToRel(<, Nat))
    BY <1>1, WFMin, NatLessThanWellFounded
  <1>3. \A y \in T : ~ (y < x)
    BY <1>1, <1>2 DEF OpToRel
  <1>4. \E z \in T : \A y \in T : z <= y
    BY <1>1, <1>3
  <1> QED BY <1>4 DEF Min

\* And a last one, which is its Max.
LEMMA LastOfDays ==
    ASSUME NEW T \in SUBSET Days, T # {}
    PROVE  Max(T) \in T /\ \A y \in T : y <= Max(T)
  <1> DEFINE S == {LastDay + 1 - y : y \in T}
  <1>1. \A y \in T : y \in Nat /\ 1 <= y /\ y <= LastDay
    BY Numbers
  <1>2. S \in SUBSET Days /\ S # {}
    <2>1. \A y \in T : LastDay + 1 - y \in 1 .. LastDay
      BY <1>1, Numbers
    <2> QED BY <2>1, Numbers
  <1>3. PICK m \in S : \A y \in S : m <= y
    BY <1>2, FirstOfDays
  <1>4. PICK x \in T : m = LastDay + 1 - x
    BY <1>3
  <1>5. \A y \in T : LastDay + 1 - x <= LastDay + 1 - y
    BY <1>3, <1>4
  <1>6. \A y \in T : x >= y
    BY <1>1, <1>5, Numbers
  <1>7. Max(T) \in T /\ \A y \in T : Max(T) >= y
    BY <1>6 DEF Max
  <1> QED BY <1>1, <1>7

\* Of the values published on the days T, the last day that of day p was current.
End(T, p) ==
    IF {q \in T : q > p} = {} THEN Forever ELSE Min({q \in T : q > p}) - 1

LEMMA EndOfVintage ==
    ASSUME NEW s \in Symbol, NEW d \in Days, NEW p
    PROVE  VintageEnd(s, d, p) = End(source[s][d], p)
  BY DEF VintageEnd, End

\* A value is current until the day before the next one, if there is a next one.
LEMMA EndFacts ==
    ASSUME NEW T \in SUBSET Days, NEW p \in Days
    PROVE  /\ End(T, p) \in p .. Forever
           /\ \A q \in T : p < q => End(T, p) < q
           /\ End(T, p) = Forever \/ \E q \in T : p < q /\ End(T, p) = q - 1
  <1> DEFINE L == {q \in T : q > p}
  <1>0. p \in Nat /\ p <= LastDay /\ \A q \in T : q \in Nat /\ q <= LastDay
    BY Numbers
  <1>1. CASE L = {}
    <2>1. End(T, p) = Forever
      BY <1>1 DEF End
    <2>2. \A q \in T : ~ (q > p)
      BY <1>1
    <2> QED BY <1>0, <2>1, <2>2, Numbers
  <1>2. CASE L # {}
    <2>1. Min(L) \in L /\ \A y \in L : Min(L) <= y
      BY <1>2, FirstOfDays
    <2>2. End(T, p) = Min(L) - 1
      BY <1>2 DEF End
    <2>3. Min(L) \in T /\ Min(L) > p
      BY <2>1
    <2>4. \A q \in T : p < q => Min(L) <= q
      BY <1>0, <2>1
    <2> HIDE DEF L
    <2>5. Min(L) \in Nat /\ Min(L) <= LastDay
      BY <1>0, <2>3
    <2>6. \A q \in T : p < q => End(T, p) < q
      BY <1>0, <2>2, <2>4, <2>5
    <2>7. End(T, p) \in p .. Forever
      BY <1>0, <2>2, <2>3, <2>5, Numbers
    <2> QED BY <2>2, <2>3, <2>6, <2>7
  <1> QED BY <1>1, <1>2

\* A set of days with more of them ends no value later.
LEMMA EndShrinks ==
    ASSUME NEW T \in SUBSET Days, NEW U \in SUBSET Days, T \subseteq U, NEW p \in Days
    PROVE  End(U, p) <= End(T, p)
  <1>1. End(T, p) = Forever \/ \E q \in T : p < q /\ End(T, p) = q - 1
    BY EndFacts
  <1>2. End(U, p) \in p .. Forever /\ \A q \in U : p < q => End(U, p) < q
    BY EndFacts
  <1>3. CASE End(T, p) = Forever
    BY <1>2, <1>3, Numbers
  <1>4. ASSUME NEW q \in T, p < q, End(T, p) = q - 1
        PROVE  End(U, p) <= End(T, p)
    BY <1>2, <1>4, Numbers
  <1> QED BY <1>1, <1>3, <1>4

\* Of the values of a date one is current for good: the last one.
LEMMA LastIsCurrent ==
    ASSUME NEW T \in SUBSET Days, T # {}
    PROVE  \E z \in T : End(T, z) = Forever /\ \A p \in T : p <= z
  <1>1. Max(T) \in T /\ \A y \in T : y <= Max(T)
    BY LastOfDays
  <1>2. \A q \in T : ~ (q > Max(T))
    <2>1. \A q \in T : q \in Nat
      BY Numbers
    <2> QED BY <1>1, <2>1
  <1>3. End(T, Max(T)) = Forever
    BY <1>2 DEF End
  <1> QED BY <1>1, <1>3
-----------------------------------------------------------------------------
(***************************************************************************)
(* Rows and chunks.                                                        *)
(***************************************************************************)

\* A row is its date, its first day and its last day.
LEMMA RowFields ==
    /\ \A r \in Row : /\ r.date \in Days /\ r.start \in Days
                      /\ r.end \in 1 .. Forever
    /\ \A q, r \in Row :
          q.date = r.date /\ q.start = r.start /\ q.end = r.end => q = r
  BY DEF Row

\* There are finitely many rows.
LEMMA RowsFinite == IsFiniteSet(Row)
  <1> DEFINE T == Days \X (Days \X (1 .. Forever))
             f == [r \in Row |-> <<r.date, <<r.start, r.end>>>>]
  <1>1. IsFiniteSet(Days) /\ IsFiniteSet(1 .. Forever)
    BY Numbers, FS_Interval
  <1>2. IsFiniteSet(Days \X (1 .. Forever))
    BY <1>1, FS_Product
  <1>3. IsFiniteSet(T)
    BY <1>1, <1>2, FS_Product
  <1>4. f \in [Row -> T]
    BY RowFields
  <1>5. \A q, r \in Row : f[q] = f[r] => q = r
    <2> SUFFICES ASSUME NEW q \in Row, NEW r \in Row, f[q] = f[r] PROVE q = r
      OBVIOUS
    <2>1. <<q.date, <<q.start, q.end>>>> = <<r.date, <<r.start, r.end>>>>
      OBVIOUS
    <2>2. q.date = r.date /\ q.start = r.start /\ q.end = r.end
      BY <2>1
    <2> QED BY <2>2, RowFields
  <1>6. f \in Injection(Row, T)
    <2> HIDE DEF f, T
    <2> QED BY <1>4, <1>5 DEF Injection, IsInjective
  <1> QED
    <2> HIDE DEF f, T
    <2> QED BY <1>3, <1>6, FS_Injection

\* A chunk is a beginning of the batch, and the rest is what is not in it.
LEMMA ChunkFacts ==
    ASSUME NEW B \in SUBSET Row
    PROVE  /\ Chunk(B) \subseteq B
           /\ RestOf(B) = B \ Chunk(B)
           /\ \A q, r \in B : Before(q, r) /\ r \in Chunk(B) => q \in Chunk(B)
  <1> DEFINE P(r) == {q \in B : Before(q, r)}
  <1>1. \A r : IsFiniteSet(P(r)) /\ Cardinality(P(r)) \in Nat
    <2> TAKE r
    <2>1. P(r) \in SUBSET Row
      OBVIOUS
    <2> HIDE DEF P
    <2> QED BY <2>1, RowsFinite, FS_Subset, FS_CardinalityType
  <1>2. \A r : Position(B, r) = Cardinality(P(r))
    BY DEF Position
  <1>3. \A q, r \in B : Before(q, r) => P(q) \subseteq P(r)
    BY RowFields, Numbers DEF Before
  <1>4. \A q, r \in B : Before(q, r) => Position(B, q) <= Position(B, r)
    <2> SUFFICES ASSUME NEW q \in B, NEW r \in B, Before(q, r)
                 PROVE  Cardinality(P(q)) <= Cardinality(P(r))
      BY <1>2
    <2>1. P(q) \in SUBSET P(r) /\ IsFiniteSet(P(r))
      BY <1>1, <1>3
    <2> HIDE DEF P
    <2> QED BY <2>1, FS_Subset
  <1>5. \A r : Position(B, r) \in Nat
    BY <1>1, <1>2
  <1> HIDE DEF P
  <1>6. Chunk(B) \subseteq B /\ RestOf(B) = B \ Chunk(B)
    BY <1>5, Numbers DEF Chunk, RestOf
  <1>7. ASSUME NEW q \in B, NEW r \in B, Before(q, r), r \in Chunk(B)
        PROVE  q \in Chunk(B)
    BY <1>4, <1>5, <1>7, Numbers DEF Chunk
  <1> QED BY <1>6, <1>7
-----------------------------------------------------------------------------
(***************************************************************************)
(* Type correctness.                                                       *)
(***************************************************************************)

\* What is known of a feed: it has a symbol, and only bars leave a day out.
LEMMA FeedFacts ==
    ASSUME TypeOK
    PROVE  /\ feed.symbols \in Seq(Symbol) /\ feed.symbols # <<>>
           /\ feed.symbols[1] \in Symbol
           /\ \A i \in DOMAIN feed.symbols : feed.symbols[i] \in Symbol
           /\ Vintages => feed.kind # "bars" /\ feed.kind # "last"
  <1>1. feed \in [kind : Kinds, symbols : Seq(Symbol) \ {<<>>}]
    BY ContextAssumption DEF TypeOK
  <1>2. feed.symbols \in Seq(Symbol) /\ feed.symbols # <<>>
    BY <1>1
  <1>3. feed.symbols[1] \in Symbol
    BY <1>2
  <1>4. \A i \in DOMAIN feed.symbols : feed.symbols[i] \in Symbol
    BY <1>2
  <1>5. Vintages => feed.kind # "bars" /\ feed.kind # "last"
    BY DEF Vintages
  <1> QED BY <1>2, <1>3, <1>4, <1>5

\* The windows a run requests are days.
LEMMA WindowDays ==
    ASSUME TypeOK
    PROVE  /\ \A w \in DailyWindows : w[1] \in Days /\ w[2] \in Days
           /\ Window \subseteq Days /\ Promised \subseteq Days
  <1>1. today \in Days /\ from \in Days /\ to \in Days
    BY DEF TypeOK
  <1>2. MaxOf(1, today - Lookback) \in Days
    BY <1>1, Numbers DEF MaxOf
  <1>3. \A d \in NewestDates : d \in Days
    BY <1>1, Numbers DEF NewestDates
  <1>4. \A w \in DailyWindows : w[1] \in Days /\ w[2] \in Days
    BY <1>1, <1>2, <1>3 DEF DailyWindows
  <1>5. Window \subseteq Days /\ Promised \subseteq Days
    BY <1>1, Numbers DEF Window, Promised
  <1> QED BY <1>4, <1>5

\* What a fetch answers with are rows.
LEMMA FetchedRows ==
    ASSUME TypeOK, NEW s \in Symbol, NEW d \in Days
    PROVE  VintageRecords(s, d, from) \subseteq Row /\ ValueRecords(s, d) \subseteq Row
  <1>1. source[s][d] \subseteq Days /\ from \in Days
    BY DEF TypeOK
  <1>2. \A p \in source[s][d] : p \in Days /\ VintageEnd(s, d, p) \in 1 .. Forever
    <2> TAKE p \in source[s][d]
    <2>1. p \in Days
      BY <1>1
    <2>2. VintageEnd(s, d, p) \in p .. Forever
      <3>1. End(source[s][d], p) \in p .. Forever
        BY <1>1, <2>1, EndFacts
      <3> QED BY <3>1, EndOfVintage
    <2> QED BY <2>1, <2>2, Numbers
  <1>3. \A p \in source[s][d] : MaxOf(p, from) \in Days
    BY <1>1, <1>2 DEF MaxOf
  <1>4. Forever \in 1 .. Forever
    BY Numbers
  <1>5. \A p \in source[s][d] :
          [date |-> d, start |-> MaxOf(p, from), end |-> VintageEnd(s, d, p)] \in Row
    BY <1>2, <1>3 DEF Row
  <1>6. \A p \in source[s][d] : [date |-> d, start |-> p, end |-> Forever] \in Row
    BY <1>2, <1>4 DEF Row
  <1> QED BY <1>5, <1>6 DEF VintageRecords, ValueRecords

LEMMA TypeInit == Init => TypeOK
  <1> SUFFICES ASSUME Init PROVE TypeOK
    OBVIOUS
  <1>1. todo \in Seq(Symbol)
    BY DEF Init
  <1> QED BY <1>1, Numbers DEF Init, TypeOK

LEMMA TypeFetch == TypeOK /\ todo # <<>> /\ Fetch => batch' \subseteq Row
  <1> SUFFICES ASSUME TypeOK, todo # <<>>, Fetch PROVE batch' \subseteq Row
    OBVIOUS
  <1>1. Head(todo) \in Symbol
    BY HeadTailProperties DEF TypeOK
  <1>2. \A d \in Window : d \in Days
    BY WindowDays
  <1>3. \A d \in Window : VintageRecords(Head(todo), d, from) \subseteq Row
                             /\ ValueRecords(Head(todo), d) \subseteq Row
    BY <1>1, <1>2, FetchedRows
  <1>4. batch' = UNION {IF Vintages THEN VintageRecords(Head(todo), d, from)
                                    ELSE ValueRecords(Head(todo), d) : d \in Window}
    BY DEF Fetch
  <1> QED BY <1>3, <1>4

LEMMA TypeStep == TypeOK /\ [Next]_vars => TypeOK'
  <1> SUFFICES ASSUME TypeOK, [Next]_vars PROVE TypeOK'
    OBVIOUS
  <1>1. CASE NextDay
    BY <1>1, Numbers DEF NextDay, TypeOK
  <1>2. ASSUME NEW i \in DOMAIN feed.symbols, NEW d \in Days,
               Publish(feed.symbols[i], d)
        PROVE  TypeOK'
    <2>1. today \in Days
      BY DEF TypeOK
    <2>2. source' \in [Symbol -> [Days -> SUBSET Days]]
      BY <1>2, <2>1 DEF Publish, TypeOK
    <2> QED BY <1>2, <2>2 DEF Publish, TypeOK
  <1>3. CASE StartDaily
    BY <1>3, FeedFacts, WindowDays DEF StartDaily, TypeOK
  <1>4. ASSUME NEW first \in Days, NEW last \in Days, StartByHand(first, last)
        PROVE  TypeOK'
    BY <1>4, FeedFacts DEF StartByHand, TypeOK
  <1>5. CASE Fetch
    <2>1. batch' \subseteq Row
      BY <1>5, TypeFetch DEF Fetch, Running
    <2>2. asof' \in 0 .. LastDay
      BY <1>5, Numbers DEF Fetch, TypeOK
    <2> QED BY <1>5, <2>1, <2>2 DEF Fetch, TypeOK
  <1>6. CASE MergeChunk
    <2>1. Chunk(batch) \subseteq Row /\ RestOf(batch) \subseteq Row
      BY ChunkFacts DEF TypeOK
    <2>2. \A s \in Symbol : Merged(table[s], Chunk(batch)) \subseteq Row
      BY <2>1 DEF Merged, TypeOK
    <2>3. table' \in [Symbol -> SUBSET Row]
      BY <1>6, <2>2 DEF MergeChunk, TypeOK
    <2> QED BY <1>6, <2>1, <2>3 DEF MergeChunk, TypeOK
  <1>7. CASE NextSymbol
    <2>1. Tail(todo) \in Seq(Symbol)
      BY <1>7, HeadTailProperties DEF NextSymbol, Running, TypeOK
    <2>2. 0 \in 0 .. LastDay
      BY Numbers
    <2>3. \A s \in Symbol : [d \in Days |-> IF d \in Promised THEN asof ELSE reach[s][d]]
                               \in [Days -> 0 .. LastDay]
      BY DEF TypeOK
    <2>4. reach' \in [Symbol -> [Days -> 0 .. LastDay]]
      BY <1>7, <2>3 DEF NextSymbol, TypeOK
    <2> QED BY <1>7, <2>1, <2>2, <2>4 DEF NextSymbol, TypeOK
  <1>8. CASE RunDies
    <2>1. <<>> \in Seq(Symbol) /\ 0 \in 0 .. LastDay
      BY Numbers
    <2> QED BY <1>8, <2>1 DEF RunDies, TypeOK
  <1>9. CASE UNCHANGED vars
    BY <1>9 DEF vars, TypeOK
  <1> QED BY <1>1, <1>2, <1>3, <1>4, <1>5, <1>6, <1>7, <1>8, <1>9 DEF Next

\* Every reachable state is well-typed: in particular every stored row has a first
\* day of a value, the NULL of a missing date having been dropped.
THEOREM ContextTypeCorrect == Spec => []TypeOK
  <1> QED BY TypeInit, TypeStep, PTL DEF Spec
-----------------------------------------------------------------------------
(***************************************************************************)
(* The inductive invariant.                                                *)
(***************************************************************************)

\* The symbol a run is at.
Cur == Head(todo)

\* Only a run has fetched something; nothing is fetched or published before its day.
Books ==
    /\ todo = <<>> => asof = 0
    /\ asof = 0 => batch = {}
    /\ asof <= today
    /\ \A s \in Symbol, d \in Days : reach[s][d] <= today
    /\ \A s \in Symbol, d \in Days : \A p \in source[s][d] : d <= p /\ p <= today

\* A row stands for a value its provider published, and is never closed too early.
IsRowOf(r, s) ==
    /\ r.start \in source[s][r.date]
    /\ VintageEnd(s, r.date, r.start) <= r.end
    /\ ~ Vintages => r.end = Forever

OneEach(rows) == \A q, r \in rows : SameKey(q, r) => q = r

RowsInv ==
    /\ \A s \in Symbol : OneEach(table[s]) /\ \A r \in table[s] : IsRowOf(r, s)
    /\ OneEach(batch) /\ \A r \in batch : IsRowOf(r, Cur)

\* The first of two rows of a date is closed when the second begins.
Closed(q, r) == q.date = r.date /\ q.start < r.start => q.end < r.start

\* That holds in the table all along a MERGE in chunks: a fetched vintage comes
\* after the chunk that closes the one before it.
Ordered ==
    Vintages =>
        /\ \A s \in Symbol : \A q, r \in table[s] : Closed(q, r)
        /\ \A q \in batch : \A r \in batch \cup table[Cur] : Closed(q, r)
        /\ \A r \in batch : \A q \in table[Cur] :
              Closed(q, r) \/ \E p \in batch : SameKey(p, q)

\* A fetched row is of the value stored or a later one, and closed as much.
Later ==
    \A q \in batch : \A r \in table[Cur] :
        SameKey(q, r) => r.start <= q.start /\ q.end <= r.end

\* Row r tells of the value published on day p for date d, as known before day x.
Serves(r, s, d, p, x) ==
    /\ r.date = d /\ p <= r.start
    /\ Vintages => /\ r.start = p
                   /\ \A q \in source[s][d] : p < q /\ q < x => r.end < q

\* Finished fetches are in the table.
Kept ==
    \A s \in Symbol, d \in Days : \A p \in source[s][d] :
        p < reach[s][d] => \E r \in table[s] : Serves(r, s, d, p, reach[s][d])

\* The one that is going on is in the table or in what is left of its batch.
Coming ==
    asof # 0 => \A d \in Promised : \A p \in source[Cur][d] :
        p < asof => \E r \in table[Cur] \cup batch : Serves(r, Cur, d, p, asof)

FetchInv == Books /\ RowsInv /\ Ordered /\ Later /\ Kept /\ Coming

LEMMA FetchInit == Init => FetchInv
  <1> SUFFICES ASSUME Init PROVE FetchInv
    OBVIOUS
  <1>1. /\ batch = {} /\ asof = 0 /\ today = 1
        /\ \A s \in Symbol : table[s] = {}
        /\ \A s \in Symbol, d \in Days : source[s][d] = {} /\ reach[s][d] = 0
    BY DEF Init
  <1>2. Books
    BY <1>1 DEF Books
  <1>3. RowsInv
    BY <1>1 DEF RowsInv, OneEach
  <1>4. Ordered /\ Later
    BY <1>1 DEF Ordered, Later
  <1>5. Kept /\ Coming
    BY <1>1 DEF Kept, Coming
  <1> QED BY <1>2, <1>3, <1>4, <1>5 DEF FetchInv

\* The numbers of a state.
LEMMA StateNumbers ==
    ASSUME TypeOK
    PROVE  /\ today \in Nat /\ asof \in Nat /\ from \in Nat /\ to \in Nat
           /\ \A s \in Symbol, d \in Days : reach[s][d] \in Nat
           /\ \A s \in Symbol, d \in Days : \A p \in source[s][d] : p \in Days /\ p \in Nat
           /\ \A s \in Symbol : \A r \in table[s] :
                 r \in Row /\ r.date \in Days /\ r.start \in Nat /\ r.end \in Nat
           /\ \A r \in batch :
                 r \in Row /\ r.date \in Days /\ r.start \in Nat /\ r.end \in Nat
  <1>1. \A r \in Row : r.date \in Days /\ r.start \in Nat /\ r.end \in Nat
    BY RowFields, Numbers
  <1>2. \A s \in Symbol : table[s] \subseteq Row
    BY DEF TypeOK
  <1>3. batch \subseteq Row
    BY DEF TypeOK
  <1>4. today \in Nat /\ asof \in Nat /\ from \in Nat /\ to \in Nat
    BY Numbers DEF TypeOK
  <1>5. \A s \in Symbol, d \in Days : reach[s][d] \in Nat
    BY DEF TypeOK
  <1>6. \A s \in Symbol, d \in Days : \A p \in source[s][d] : p \in Days /\ p \in Nat
    BY Numbers DEF TypeOK
  <1> QED BY <1>1, <1>2, <1>3, <1>4, <1>5, <1>6
-----------------------------------------------------------------------------
(***************************************************************************)
(* Steps that fetch nothing.                                               *)
(***************************************************************************)

\* A step that leaves the provider, the tables and the fetches alone.
LEMMA QuietStep ==
    ASSUME TypeOK, FetchInv, feed' = feed, source' = source, table' = table,
           reach' = reach, today' \in Nat, today <= today',
           batch' = {}, asof' = 0
    PROVE  FetchInv'
  <1>1. /\ Vintages' = Vintages
        /\ \A s, d, p : VintageEnd(s, d, p)' = VintageEnd(s, d, p)
        /\ \A q, r : SameKey(q, r)' = SameKey(q, r)
    BY DEF Vintages, VintageEnd, SameKey
  <1>2. Books'
    <2>1. \A s \in Symbol, d \in Days : reach[s][d] <= today'
      BY StateNumbers DEF FetchInv, Books
    <2>2. \A s \in Symbol, d \in Days : \A p \in source[s][d] : d <= p /\ p <= today'
      BY StateNumbers DEF FetchInv, Books
    <2> QED BY <2>1, <2>2 DEF Books
  <1>3. RowsInv'
    BY <1>1 DEF FetchInv, RowsInv, OneEach, IsRowOf
  <1>4. Ordered' /\ Later'
    BY <1>1 DEF FetchInv, Ordered, Later, Closed
  <1>5. Kept' /\ Coming'
    BY <1>1 DEF FetchInv, Kept, Coming, Serves
  <1> QED BY <1>2, <1>3, <1>4, <1>5 DEF FetchInv

\* A day passes.
LEMMA DayStep ==
    ASSUME TypeOK, FetchInv, feed' = feed, source' = source, table' = table,
           reach' = reach, today' \in Nat, today <= today',
           batch' = batch, asof' = asof, todo' = todo, from' = from, to' = to
    PROVE  FetchInv'
  <1>1. /\ Vintages' = Vintages /\ Cur' = Cur /\ Promised' = Promised
        /\ \A s, d, p : VintageEnd(s, d, p)' = VintageEnd(s, d, p)
        /\ \A q, r : SameKey(q, r)' = SameKey(q, r)
    BY DEF Vintages, VintageEnd, SameKey, Cur, Promised
  <1>2. Books'
    <2>1. \A s \in Symbol, d \in Days : reach[s][d] <= today'
      BY StateNumbers DEF FetchInv, Books
    <2>2. \A s \in Symbol, d \in Days : \A p \in source[s][d] : d <= p /\ p <= today'
      BY StateNumbers DEF FetchInv, Books
    <2>3. asof <= today'
      BY StateNumbers DEF FetchInv, Books
    <2> QED BY <2>1, <2>2, <2>3 DEF FetchInv, Books
  <1>3. RowsInv'
    BY <1>1 DEF FetchInv, RowsInv, OneEach, IsRowOf
  <1>4. Ordered' /\ Later'
    BY <1>1 DEF FetchInv, Ordered, Later, Closed
  <1>5. Kept' /\ Coming'
    BY <1>1 DEF FetchInv, Kept, Coming, Serves
  <1> QED BY <1>2, <1>3, <1>4, <1>5 DEF FetchInv
-----------------------------------------------------------------------------
(***************************************************************************)
(* The provider publishes.                                                 *)
(***************************************************************************)

\* A value of today changes nothing of what was known before a fetch.
LEMMA PublishStep ==
    ASSUME TypeOK, TypeOK', FetchInv, NEW s0 \in Symbol, NEW d0 \in Days, Publish(s0, d0)
    PROVE  FetchInv'
  <1>1. /\ Vintages' = Vintages /\ Cur' = Cur /\ Promised' = Promised
        /\ \A q, r : SameKey(q, r)' = SameKey(q, r)
    BY DEF Publish, Vintages, SameKey, Cur, Promised
  <1>2. /\ table' = table /\ batch' = batch /\ asof' = asof /\ reach' = reach
        /\ today' = today /\ todo' = todo /\ d0 <= today
    BY DEF Publish
  <1>3. \A s \in Symbol, d \in Days :
          /\ source[s][d] \subseteq source'[s][d]
          /\ \A p \in source'[s][d] : p \in source[s][d] \/ (p = today /\ d = d0)
    BY DEF Publish, TypeOK
  <1>0. \A s \in Symbol, d \in Days :
          source[s][d] \in SUBSET Days /\ source'[s][d] \in SUBSET Days
    <2>1. \A s \in Symbol, d \in Days : source[s][d] \in SUBSET Days
      BY DEF TypeOK
    <2>2. \A s \in Symbol, d \in Days : source'[s][d] \in SUBSET Days
      BY DEF TypeOK
    <2> QED BY <2>1, <2>2
  <1>4. \A s \in Symbol, d \in Days : \A p \in source[s][d] :
          VintageEnd(s, d, p)' <= VintageEnd(s, d, p)
    <2> SUFFICES ASSUME NEW s \in Symbol, NEW d \in Days, NEW p \in source[s][d]
                 PROVE  VintageEnd(s, d, p)' <= VintageEnd(s, d, p)
      OBVIOUS
    <2>1. source[s][d] \in SUBSET Days /\ source'[s][d] \in SUBSET Days /\ p \in Days
      BY <1>0
    <2>2. source[s][d] \subseteq source'[s][d]
      BY <1>3
    <2>3. End(source'[s][d], p) <= End(source[s][d], p)
      BY <2>1, <2>2, EndShrinks
    <2>4. VintageEnd(s, d, p)' = End(source'[s][d], p)
      BY DEF VintageEnd, End
    <2> QED BY <2>3, <2>4, EndOfVintage
  <1>5. Books'
    <2>1. today \in Nat /\ \A d \in Days : d \in Nat
      BY StateNumbers, Numbers
    <2>2. \A s \in Symbol, d \in Days : \A p \in source'[s][d] : d <= p /\ p <= today
      <3> SUFFICES ASSUME NEW s \in Symbol, NEW d \in Days, NEW p \in source'[s][d]
                   PROVE  d <= p /\ p <= today
        OBVIOUS
      <3>1. CASE p \in source[s][d]
        BY <3>1 DEF FetchInv, Books
      <3>2. CASE p = today /\ d = d0
        BY <1>2, <2>1, <3>2
      <3> QED BY <1>3, <3>1, <3>2
    <2> QED BY <1>2, <2>2 DEF FetchInv, Books
  <1>6. ASSUME NEW s \in Symbol, NEW r \in Row, IsRowOf(r, s)
        PROVE  IsRowOf(r, s)'
    <2>1. r.date \in Days /\ r.start \in source[s][r.date] /\ r.end \in Int
      BY <1>6, RowFields, Numbers DEF IsRowOf
    <2>2. r.start \in source'[s][r.date]
      BY <1>3, <2>1
    <2>3. VintageEnd(s, r.date, r.start)' <= VintageEnd(s, r.date, r.start)
      BY <1>4, <2>1
    <2>4. VintageEnd(s, r.date, r.start)' <= r.end
      <3>1. source[s][r.date] \in SUBSET Days /\ source'[s][r.date] \in SUBSET Days
            /\ r.start \in Days
        BY <2>1, <1>0
      <3>2. /\ VintageEnd(s, r.date, r.start)' = End(source'[s][r.date], r.start)
            /\ VintageEnd(s, r.date, r.start) = End(source[s][r.date], r.start)
        BY <2>1 DEF VintageEnd, End
      <3>3. /\ End(source'[s][r.date], r.start) \in r.start .. Forever
            /\ End(source[s][r.date], r.start) \in r.start .. Forever
        BY <3>1, EndFacts
      <3>4. VintageEnd(s, r.date, r.start) <= r.end
        BY <1>6 DEF IsRowOf
      <3>5. /\ VintageEnd(s, r.date, r.start)' \in Int
            /\ VintageEnd(s, r.date, r.start) \in Int
        BY <3>1, <3>2, <3>3, Numbers
      <3> QED BY <2>1, <2>3, <3>4, <3>5
    <2> QED BY <1>1, <1>6, <2>2, <2>4 DEF IsRowOf
  <1>7. RowsInv'
    <2>1. OneEach(batch)' /\ \A s \in Symbol : OneEach(table[s])'
      BY <1>1, <1>2 DEF FetchInv, RowsInv, OneEach
    <2>2. \A s \in Symbol : \A r \in table[s] : IsRowOf(r, s)'
      BY <1>6, StateNumbers DEF FetchInv, RowsInv
    <2>3. \A r \in batch : IsRowOf(r, Cur)'
      <3> SUFFICES ASSUME NEW r \in batch PROVE IsRowOf(r, Cur)'
        OBVIOUS
      <3>1. todo # <<>>
        BY DEF FetchInv, Books
      <3>2. Cur \in Symbol
        BY <3>1, HeadTailProperties DEF TypeOK, Cur
      <3>3. r \in Row /\ IsRowOf(r, Cur)
        BY StateNumbers DEF FetchInv, RowsInv
      <3>4. PICK c : c = Cur
        OBVIOUS
      <3>5. IsRowOf(r, c)'
        BY <1>6, <3>2, <3>3, <3>4
      <3> QED BY <1>1, <3>4, <3>5
    <2> QED BY <1>1, <1>2, <2>1, <2>2, <2>3 DEF RowsInv
  <1>8. Ordered' /\ Later'
    BY <1>1, <1>2 DEF FetchInv, Ordered, Later, Closed
  <1>9. ASSUME NEW s \in Symbol, NEW d \in Days, NEW p, NEW x \in Nat, x <= today,
               NEW r, Serves(r, s, d, p, x)
        PROVE  Serves(r, s, d, p, x)'
    <2>1. today \in Nat
      BY StateNumbers
    <2>2. \A q \in source'[s][d] : q < x => q \in source[s][d]
      BY <1>3, <1>9, <2>1
    <2> QED BY <1>1, <1>9, <2>2 DEF Serves
  <1>10. Kept'
    <2> SUFFICES ASSUME NEW s \in Symbol, NEW d \in Days, NEW p \in source'[s][d],
                        p < reach[s][d]
                 PROVE  \E r \in table[s] : Serves(r, s, d, p, reach[s][d])'
      BY <1>2 DEF Kept
    <2>1. reach[s][d] \in Nat /\ reach[s][d] <= today /\ today \in Nat
      BY StateNumbers DEF FetchInv, Books
    <2>2. p \in source[s][d]
      BY <1>3, <2>1
    <2>3. PICK r \in table[s] : Serves(r, s, d, p, reach[s][d])
      BY <2>2 DEF FetchInv, Kept
    <2>4. PICK x \in Nat : x = reach[s][d]
      BY <2>1
    <2>5. Serves(r, s, d, p, x)'
      BY <1>9, <2>1, <2>3, <2>4
    <2> QED BY <1>2, <2>4, <2>5
  <1>11. Coming'
    <2> SUFFICES ASSUME asof # 0, NEW d \in Promised, NEW p \in source'[Cur][d], p < asof
                 PROVE  \E r \in table[Cur] \cup batch : Serves(r, Cur, d, p, asof)'
      BY <1>1, <1>2 DEF Coming
    <2>1. todo # <<>> /\ asof \in Nat /\ asof <= today /\ today \in Nat
      BY StateNumbers DEF FetchInv, Books
    <2>2. Cur \in Symbol /\ d \in Days
      BY <2>1, HeadTailProperties, WindowDays DEF TypeOK, Cur
    <2>3. p \in source[Cur][d]
      BY <1>3, <2>1, <2>2
    <2>4. PICK r \in table[Cur] \cup batch : Serves(r, Cur, d, p, asof)
      BY <2>3 DEF FetchInv, Coming
    <2>5. PICK x \in Nat, c \in Symbol : x = asof /\ c = Cur
      BY <2>1, <2>2
    <2>6. Serves(r, c, d, p, x)'
      BY <1>9, <2>1, <2>2, <2>4, <2>5
    <2> QED BY <1>1, <1>2, <2>5, <2>6
  <1> QED BY <1>5, <1>7, <1>8, <1>10, <1>11 DEF FetchInv
-----------------------------------------------------------------------------
(***************************************************************************)
(* A fetch.                                                                *)
(***************************************************************************)

\* A vintage request answers with every value of its window, on the day it was
\* published: no value is older than its date, so none is cut off at the window.
LEMMA VintagesFetched ==
    ASSUME TypeOK, FetchInv, Fetch, Vintages
    PROVE  /\ \A r \in batch' : /\ r.date \in Window
                                /\ r.start \in source[Cur][r.date]
                                /\ r.end = VintageEnd(Cur, r.date, r.start)
           /\ \A d \in Window : \A p \in source[Cur][d] :
                 [date |-> d, start |-> p, end |-> VintageEnd(Cur, d, p)] \in batch'
  <1>1. Cur \in Symbol
    BY HeadTailProperties DEF Fetch, Running, Cur, TypeOK
  <1>2. batch' = UNION {VintageRecords(Cur, d, from) : d \in Window}
    BY DEF Fetch, Cur
  <1>3. \A d \in Window : d \in Days /\ d \in Nat /\ from \in Nat /\ from <= d
    BY StateNumbers, WindowDays, Numbers DEF Window
  <1>4. \A d \in Window : \A p \in source[Cur][d] :
          MaxOf(p, from) = p /\ VintageEnd(Cur, d, p) >= from
    <2> SUFFICES ASSUME NEW d \in Window, NEW p \in source[Cur][d]
                 PROVE  MaxOf(p, from) = p /\ VintageEnd(Cur, d, p) >= from
      OBVIOUS
    <2>1. d \in Days /\ source[Cur][d] \in SUBSET Days /\ p \in Days /\ p \in Nat
      BY <1>1, <1>3, Numbers DEF TypeOK
    <2>2. from <= p
      BY <1>1, <1>3, <2>1 DEF FetchInv, Books
    <2>3. End(source[Cur][d], p) \in p .. Forever
      BY <2>1, EndFacts
    <2>4. VintageEnd(Cur, d, p) \in p .. Forever
      BY <1>1, <2>1, <2>3, EndOfVintage
    <2> QED BY <1>3, <2>1, <2>2, <2>4 DEF MaxOf
  <1>5. \A d \in Window : VintageRecords(Cur, d, from) =
          {[date |-> d, start |-> p, end |-> VintageEnd(Cur, d, p)] : p \in source[Cur][d]}
    BY <1>4 DEF VintageRecords
  <1> QED BY <1>2, <1>5

\* Any other request answers, for each date of its window, with the last value.
LEMMA ValuesFetched ==
    ASSUME TypeOK, FetchInv, Fetch, ~ Vintages
    PROVE  /\ \A r \in batch' : /\ r.date \in Window
                                /\ r.start \in source[Cur][r.date]
                                /\ r.end = Forever
                                /\ \A p \in source[Cur][r.date] : p <= r.start
           /\ \A d \in Window : \A p \in source[Cur][d] :
                 \E r \in batch' : r.date = d /\ p <= r.start
  <1>1. Cur \in Symbol
    BY HeadTailProperties DEF Fetch, Running, Cur, TypeOK
  <1>2. batch' = UNION {ValueRecords(Cur, d) : d \in Window}
    BY DEF Fetch, Cur
  <1>3. \A d \in Window : d \in Days /\ source[Cur][d] \in SUBSET Days
    BY <1>1, WindowDays DEF TypeOK
  <1>4. \A d \in Window : ValueRecords(Cur, d) =
          {[date |-> d, start |-> p, end |-> Forever] :
              p \in {q \in source[Cur][d] : End(source[Cur][d], q) = Forever}}
    BY <1>1, <1>3, EndOfVintage DEF ValueRecords
  <1>5. ASSUME NEW d \in Window, NEW p \in source[Cur][d],
               End(source[Cur][d], p) = Forever, NEW q \in source[Cur][d]
        PROVE  q <= p
    <2>1. p < q => End(source[Cur][d], p) < q
      BY <1>3, EndFacts
    <2>2. p \in Nat /\ q \in Nat /\ q <= LastDay
      BY <1>3, Numbers
    <2> QED BY <1>5, <2>1, <2>2, Numbers
  <1>6. \A r \in batch' : \E d \in Window : \E p \in source[Cur][d] :
          /\ End(source[Cur][d], p) = Forever
          /\ r = [date |-> d, start |-> p, end |-> Forever]
    BY <1>2, <1>4
  <1>7. ASSUME NEW r \in batch'
        PROVE  /\ r.date \in Window /\ r.start \in source[Cur][r.date] /\ r.end = Forever
               /\ \A p \in source[Cur][r.date] : p <= r.start
    <2>1. PICK d \in Window : \E p \in source[Cur][d] :
            /\ End(source[Cur][d], p) = Forever
            /\ r = [date |-> d, start |-> p, end |-> Forever]
      BY <1>6
    <2>2. PICK p \in source[Cur][d] : /\ End(source[Cur][d], p) = Forever
                                      /\ r = [date |-> d, start |-> p, end |-> Forever]
      BY <2>1
    <2>3. r.date = d /\ r.start = p /\ r.end = Forever
      BY <2>2
    <2>4. \A q \in source[Cur][d] : q <= p
      BY <1>5, <2>2
    <2> QED BY <2>3, <2>4
  <1>8. ASSUME NEW d \in Window, NEW p \in source[Cur][d]
        PROVE  \E r \in batch' : r.date = d /\ p <= r.start
    <2>1. PICK z \in source[Cur][d] : /\ End(source[Cur][d], z) = Forever
                                      /\ \A q \in source[Cur][d] : q <= z
      <3>1. source[Cur][d] \in SUBSET Days /\ source[Cur][d] # {}
        BY <1>3
      <3> QED BY <3>1, LastIsCurrent
    <2>2. [date |-> d, start |-> z, end |-> Forever] \in batch'
      BY <1>2, <1>4, <2>1
    <2>3. PICK r \in batch' : r = [date |-> d, start |-> z, end |-> Forever]
      BY <2>2
    <2>4. r.date = d /\ r.start = z
      BY <2>3
    <2> QED BY <2>1, <2>4
  <1> QED BY <1>7, <1>8

\* What was fetched agrees with what is stored, and completes it.
LEMMA FetchStep ==
    ASSUME TypeOK, TypeOK', FetchInv, Fetch
    PROVE  FetchInv'
  <1>1. /\ Vintages' = Vintages /\ Cur' = Cur
        /\ \A q, r : SameKey(q, r)' = SameKey(q, r)
        /\ \A q, r : SameKey(q, r) <=> q.date = r.date /\ (Vintages => q.start = r.start)
        /\ \A s, d, p : VintageEnd(s, d, p)' = VintageEnd(s, d, p)
        /\ \A r, s : IsRowOf(r, s)' = IsRowOf(r, s)
        /\ \A r, s, d, p, x : Serves(r, s, d, p, x)' = Serves(r, s, d, p, x)
    BY DEF Fetch, Vintages, SameKey, Cur, VintageEnd, IsRowOf, Serves
  <1>2. /\ todo' = todo /\ todo # <<>> /\ asof' = today /\ batch = {}
        /\ feed' = feed /\ source' = source /\ table' = table /\ reach' = reach
        /\ from' = from /\ to' = to /\ today' = today
    BY DEF Fetch, Running, FetchInv, Books
  <1>3. Cur \in Symbol
    BY <1>2, HeadTailProperties DEF Cur, TypeOK
  <1>4. batch' \in SUBSET Row
    BY DEF TypeOK
  <1>5. \A r \in batch' : r \in Row /\ r.date \in Days /\ r.start \in Nat /\ r.end \in Nat
    BY <1>4, RowFields, Numbers
  <1>6. Books'
    <2>1. today \in Nat /\ today # 0
      BY Numbers DEF TypeOK
    <2> QED BY <1>2, <2>1 DEF FetchInv, Books
  <1>7. \A q, r \in batch' : SameKey(q, r) => q = r
    <2> SUFFICES ASSUME NEW q \in batch', NEW r \in batch', SameKey(q, r)
                 PROVE  q = r
      OBVIOUS
    <2>1. q.date = r.date
      BY <1>1
    <2>2. CASE Vintages
      BY <1>1, <1>5, <2>1, <2>2, VintagesFetched, RowFields
    <2>3. CASE ~ Vintages
      <3>1. q.start <= r.start /\ r.start <= q.start /\ q.end = r.end
        BY <2>1, <2>3, ValuesFetched
      <3> QED BY <1>5, <2>1, <3>1, RowFields
    <2> QED BY <2>2, <2>3
  <1>8. \A r \in batch' : IsRowOf(r, Cur)
    <2> SUFFICES ASSUME NEW r \in batch' PROVE IsRowOf(r, Cur)
      OBVIOUS
    <2>1. r.start \in source[Cur][r.date] /\ r.date \in Days /\ r.start \in Days
      BY <1>5, RowFields, VintagesFetched, ValuesFetched
    <2>2. VintageEnd(Cur, r.date, r.start) \in r.start .. Forever
      <3>1. source[Cur][r.date] \in SUBSET Days
        BY <1>3, <2>1 DEF TypeOK
      <3>2. End(source[Cur][r.date], r.start) \in r.start .. Forever
        BY <2>1, <3>1, EndFacts
      <3> QED BY <1>3, <2>1, <3>2, EndOfVintage
    <2>3. VintageEnd(Cur, r.date, r.start) \in Int /\ VintageEnd(Cur, r.date, r.start) <= Forever
      BY <2>1, <2>2, Numbers
    <2>4. CASE Vintages
      BY <2>1, <2>3, <2>4, VintagesFetched DEF IsRowOf
    <2>5. CASE ~ Vintages
      BY <2>1, <2>3, <2>5, ValuesFetched DEF IsRowOf
    <2> QED BY <2>4, <2>5
  <1>9. RowsInv'
    <2>1. OneEach(batch)'
      BY <1>1, <1>7 DEF OneEach
    <2>2. \A s \in Symbol : OneEach(table[s])'
      BY <1>1, <1>2 DEF FetchInv, RowsInv, OneEach
    <2>3. \A s \in Symbol : \A r \in table'[s] : IsRowOf(r, s)'
      BY <1>1, <1>2 DEF FetchInv, RowsInv
    <2>4. \A r \in batch' : IsRowOf(r, Cur)'
      <3>1. \A r, s : IsRowOf(r, s)' = (/\ r.start \in source[s][r.date]
                                        /\ VintageEnd(s, r.date, r.start) <= r.end
                                        /\ ~ Vintages => r.end = Forever)
        BY <1>1, Zenon DEF IsRowOf
      <3>2. PICK c : c = Cur
        OBVIOUS
      <3>3. \A r \in batch' : IsRowOf(r, c)'
        BY <1>1, <1>8, <3>2
      <3> QED BY <1>1, <3>2, <3>3
    <2> QED BY <1>2, <2>1, <2>2, <2>3, <2>4 DEF RowsInv
  <1>10. Ordered'
    <2> SUFFICES ASSUME Vintages
                 PROVE  /\ \A q \in batch' : \A r \in batch' \cup table[Cur] : Closed(q, r)
                        /\ \A r \in batch' : \A q \in table[Cur] :
                              Closed(q, r) \/ \E p \in batch' : SameKey(p, q)
      <3>1. Vintages => \A s \in Symbol : \A q, r \in table[s] : Closed(q, r)
        BY DEF FetchInv, Ordered
      <3> QED BY <1>1, <1>2, <3>1 DEF Ordered, Closed
    <2>1. ASSUME NEW q \in batch', NEW r \in batch' \cup table[Cur]
          PROVE  Closed(q, r)
      <3> SUFFICES ASSUME q.date = r.date, q.start < r.start PROVE q.end < r.start
        BY DEF Closed
      <3>1. r.start \in source[Cur][r.date]
        BY <1>3, <2>1, VintagesFetched DEF FetchInv, RowsInv, IsRowOf
      <3>2. q.end = VintageEnd(Cur, q.date, q.start) /\ q.date \in Days /\ q.start \in Days
        BY <1>5, RowFields, VintagesFetched
      <3>3. source[Cur][q.date] \in SUBSET Days
        BY <1>3, <3>2 DEF TypeOK
      <3>4. End(source[Cur][q.date], q.start) < r.start
        BY <3>1, <3>2, <3>3, EndFacts
      <3> QED BY <1>3, <3>2, <3>4, EndOfVintage
    <2>2. ASSUME NEW r \in batch', NEW q \in table[Cur], q.date = r.date
          PROVE  \E p \in batch' : SameKey(p, q)
      <3>1. q.start \in source[Cur][q.date] /\ q.date \in Window
        BY <1>3, <2>2, VintagesFetched DEF FetchInv, RowsInv, IsRowOf
      <3>2. [date |-> q.date, start |-> q.start, end |-> VintageEnd(Cur, q.date, q.start)]
              \in batch'
        BY <3>1, VintagesFetched
      <3>3. PICK p \in batch' : p = [date |-> q.date, start |-> q.start,
                                     end |-> VintageEnd(Cur, q.date, q.start)]
        BY <3>2
      <3>4. p.date = q.date /\ p.start = q.start
        BY <3>3
      <3> QED BY <3>4 DEF SameKey
    <2>3. \A r \in batch' : \A q \in table[Cur] : q.date # r.date => Closed(q, r)
      BY DEF Closed
    <2> QED BY <2>1, <2>2, <2>3
  <1>11. Later'
    <2> SUFFICES ASSUME NEW q \in batch', NEW r \in table[Cur], SameKey(q, r)
                 PROVE  r.start <= q.start /\ q.end <= r.end
      BY <1>1, <1>2 DEF Later
    <2>1. /\ r.start \in source[Cur][r.date] /\ VintageEnd(Cur, r.date, r.start) <= r.end
          /\ ~ Vintages => r.end = Forever
      BY <1>3 DEF FetchInv, RowsInv, IsRowOf
    <2>2. q.date = r.date /\ q.start \in Nat
      BY <1>1, <1>5
    <2>3. CASE Vintages
      BY <1>1, <2>1, <2>2, <2>3, VintagesFetched
    <2>4. CASE ~ Vintages
      BY <2>1, <2>2, <2>4, ValuesFetched, Numbers
    <2> QED BY <2>3, <2>4
  <1>12. Kept'
    BY <1>1, <1>2 DEF FetchInv, Kept
  <1>13. Coming'
    <2> DEFINE c == Cur
               x == today
    <2>1. \A d : d \in Promised' => d \in Window
      BY <1>1, <1>2, FeedFacts, StateNumbers, Numbers DEF Promised, Window, TypeOK
    <2>2. ASSUME NEW d \in Window, NEW p \in source[c][d], p < x
          PROVE  \E r \in batch' : Serves(r, c, d, p, x)
      <3>1. CASE Vintages
        <4>1. [date |-> d, start |-> p, end |-> VintageEnd(c, d, p)] \in batch'
          BY <3>1, VintagesFetched
        <4>2. PICK r \in batch' : r = [date |-> d, start |-> p, end |-> VintageEnd(c, d, p)]
          BY <4>1
        <4>3. r.date = d /\ r.start = p /\ r.end = VintageEnd(c, d, p)
          BY <4>2
        <4>4. d \in Days /\ source[c][d] \in SUBSET Days /\ p \in Days /\ p \in Nat
          <5>1. d \in Days
            BY WindowDays
          <5>2. source[c][d] \in SUBSET Days
            BY <1>3, <5>1 DEF TypeOK
          <5> QED BY <5>1, <5>2, Numbers
        <4>5. \A q \in source[c][d] : p < q => End(source[c][d], p) < q
          BY <4>4, EndFacts
        <4>6. \A q \in source[c][d] : p < q => r.end < q
          BY <1>3, <4>3, <4>4, <4>5, EndOfVintage
        <4> QED BY <4>3, <4>4, <4>6 DEF Serves
      <3>2. CASE ~ Vintages
        BY <3>2, ValuesFetched DEF Serves
      <3> QED BY <3>1, <3>2
    <2>3. PICK k, y : k = Cur /\ y = today
      OBVIOUS
    <2>4. \A d \in Window : \A p \in source[k][d] : p < y =>
            \E r \in batch' : Serves(r, k, d, p, y)
      BY <2>2, <2>3
    <2>5. \A d \in Promised' : \A p \in source'[k][d] : p < y =>
            \E r \in table'[k] \cup batch' : Serves(r, k, d, p, y)'
      BY <1>1, <1>2, <2>1, <2>4
    <2>6. k = Cur' /\ y = asof'
      BY <1>1, <1>2, <2>3
    <2> QED BY <2>5, <2>6 DEF Coming
  <1> QED BY <1>6, <1>9, <1>10, <1>11, <1>12, <1>13 DEF FetchInv
-----------------------------------------------------------------------------
(***************************************************************************)
(* A chunk is merged; a symbol is done.                                    *)
(***************************************************************************)

\* The table after a chunk, in terms of the batch: a stored row stays, or the row
\* of the chunk with its key takes its place.
LEMMA MergeFacts ==
    ASSUME TypeOK, FetchInv, MergeChunk
    PROVE  /\ todo # <<>> /\ Cur \in Symbol
           /\ Chunk(batch) \subseteq batch /\ batch' = batch \ Chunk(batch)
           /\ \A s \in Symbol : s # Cur => table'[s] = table[s]
           /\ \A r : r \in table'[Cur] <=>
                 \/ r \in table[Cur] /\ \A q \in Chunk(batch) : ~ SameKey(q, r)
                 \/ r \in Chunk(batch)
  <1>1. asof # 0 /\ todo # <<>>
    BY DEF FetchInv, Books, MergeChunk
  <1>2. Cur \in Symbol
    BY <1>1, HeadTailProperties DEF Cur, TypeOK
  <1>3. Chunk(batch) \subseteq batch /\ RestOf(batch) = batch \ Chunk(batch)
    BY ChunkFacts DEF TypeOK
  <1>4. /\ \A s \in Symbol : s # Cur => table'[s] = table[s]
        /\ table'[Cur] = Merged(table[Cur], Chunk(batch))
    BY <1>2 DEF MergeChunk, Cur, TypeOK
  <1> QED BY <1>1, <1>2, <1>3, <1>4 DEF MergeChunk, Merged

\* No row of the table is older than the one it took the place of.
LEMMA MergeReplaces ==
    ASSUME TypeOK, FetchInv, MergeChunk, NEW s \in Symbol, NEW r \in table[s]
    PROVE  \E q \in table'[s] : /\ SameKey(q, r)
                                /\ q.start >= r.start
                                /\ q.end <= r.end
  <1>1. r.start \in Nat /\ r.end \in Nat /\ SameKey(r, r)
    BY StateNumbers DEF SameKey
  <1>2. CASE s # Cur \/ \A q \in Chunk(batch) : ~ SameKey(q, r)
    BY <1>1, <1>2, MergeFacts
  <1>3. CASE s = Cur /\ \E q \in Chunk(batch) : SameKey(q, r)
    <2>1. PICK q \in Chunk(batch) : SameKey(q, r)
      BY <1>3
    <2>2. q \in batch /\ q \in table'[s]
      BY <1>3, MergeFacts
    <2>3. r.start <= q.start /\ q.end <= r.end
      BY <1>3, <2>1, <2>2 DEF FetchInv, Later
    <2>4. q.start \in Nat
      BY <2>2, StateNumbers
    <2> QED BY <1>1, <2>1, <2>2, <2>3, <2>4
  <1> QED BY <1>2, <1>3

\* A row of the same key that is no older tells of the same values.
LEMMA StillServes ==
    ASSUME NEW q, NEW r, NEW s \in Symbol, NEW d \in Days, NEW p \in Nat, NEW x \in Nat,
           q.start \in Nat, r.start \in Nat, q.end \in Nat, r.end \in Nat,
           \A v \in source[s][d] : v \in Nat,
           SameKey(q, r), q.start >= r.start, q.end <= r.end, Serves(r, s, d, p, x)
    PROVE  Serves(q, s, d, p, x)
  <1>1. q.date = d /\ p <= q.start
    BY DEF SameKey, Serves
  <1>2. ASSUME Vintages, NEW v \in source[s][d], p < v, v < x
        PROVE  q.end < v
    <2>1. r.end < v
      BY <1>2 DEF Serves
    <2> QED BY <2>1
  <1>3. Vintages => q.start = p
    BY DEF SameKey, Serves
  <1> QED BY <1>1, <1>2, <1>3 DEF Serves

\* Between two chunks the table is as sound as between two runs.
LEMMA MergeStep ==
    ASSUME TypeOK, TypeOK', FetchInv, MergeChunk
    PROVE  FetchInv'
  <1> DEFINE C == Chunk(batch)
  <1>1. /\ Vintages' = Vintages /\ Cur' = Cur /\ Promised' = Promised
        /\ \A q, r : SameKey(q, r)' = SameKey(q, r)
        /\ \A q, r : SameKey(q, r) <=> q.date = r.date /\ (Vintages => q.start = r.start)
        /\ \A s, d, p : VintageEnd(s, d, p)' = VintageEnd(s, d, p)
        /\ \A r, s, d, p, x : Serves(r, s, d, p, x)' = Serves(r, s, d, p, x)
    BY DEF MergeChunk, Vintages, SameKey, Cur, VintageEnd, Serves, Promised
  <1>2. /\ todo' = todo /\ asof' = asof /\ source' = source /\ reach' = reach
        /\ today' = today /\ asof # 0
    BY DEF MergeChunk, FetchInv, Books
  <1>3. /\ Cur \in Symbol /\ C \subseteq batch /\ batch' = batch \ C
        /\ \A s \in Symbol : s # Cur => table'[s] = table[s]
        /\ \A r : r \in table'[Cur] <=>
              \/ r \in table[Cur] /\ \A q \in C : ~ SameKey(q, r)
              \/ r \in C
    BY MergeFacts
  <1>4. \A q, r \in batch : Before(q, r) /\ r \in C => q \in C
    BY ChunkFacts DEF TypeOK
  <1>5. /\ \A r \in batch : r.start \in Nat /\ r.end \in Nat /\ r.date \in Days
        /\ \A s \in Symbol : \A r \in table[s] : r.start \in Nat /\ r.end \in Nat
    BY StateNumbers
  <1> HIDE DEF C
  <1>6. Books'
    BY <1>2 DEF FetchInv, Books
  <1>7. \A s \in Symbol : OneEach(table'[s]) /\ \A r \in table'[s] : IsRowOf(r, s)
    <2> SUFFICES ASSUME NEW s \in Symbol
                 PROVE  OneEach(table'[s]) /\ \A r \in table'[s] : IsRowOf(r, s)
      OBVIOUS
    <2>1. CASE s # Cur
      BY <1>3, <2>1 DEF FetchInv, RowsInv
    <2>2. CASE s = Cur
      <3>1. \A q, r \in table[Cur] : SameKey(q, r) => q = r
        BY <1>3 DEF FetchInv, RowsInv, OneEach
      <3>2. \A q, r \in batch : SameKey(q, r) => q = r
        BY DEF FetchInv, RowsInv, OneEach
      <3>3. \A q, r : SameKey(q, r) <=> SameKey(r, q)
        BY <1>1
      <3>4. OneEach(table'[Cur])
        BY <1>3, <3>1, <3>2, <3>3 DEF OneEach
      <3>5. \A r \in table'[Cur] : IsRowOf(r, Cur)
        BY <1>3 DEF FetchInv, RowsInv
      <3> QED BY <2>2, <3>4, <3>5
    <2> QED BY <2>1, <2>2
  <1>8. RowsInv'
    <2>1. OneEach(batch)' /\ \A s \in Symbol : OneEach(table[s])'
      BY <1>1, <1>3, <1>7 DEF FetchInv, RowsInv, OneEach
    <2>2. \A s \in Symbol : \A r \in table'[s] : IsRowOf(r, s)'
      BY <1>1, <1>2, <1>7 DEF IsRowOf
    <2>3. \A r \in batch' : IsRowOf(r, Cur)'
      BY <1>1, <1>2, <1>3 DEF FetchInv, RowsInv, IsRowOf
    <2> QED BY <2>1, <2>2, <2>3 DEF RowsInv
  <1>9. Ordered'
    <2> SUFFICES ASSUME Vintages
                 PROVE  /\ \A s \in Symbol : \A q, r \in table'[s] : Closed(q, r)
                        /\ \A q \in batch' : \A r \in batch' \cup table'[Cur] : Closed(q, r)
                        /\ \A r \in batch' : \A q \in table'[Cur] :
                              Closed(q, r) \/ \E p \in batch' : SameKey(p, q)
      BY <1>1 DEF Ordered, Closed
    <2>1. /\ \A s \in Symbol : \A q, r \in table[s] : Closed(q, r)
          /\ \A q \in batch : \A r \in batch \cup table[Cur] : Closed(q, r)
          /\ \A r \in batch : \A q \in table[Cur] :
                Closed(q, r) \/ \E p \in batch : SameKey(p, q)
      BY DEF FetchInv, Ordered
    <2>2. ASSUME NEW r \in C, NEW q \in table[Cur], \A p \in C : ~ SameKey(p, q)
          PROVE  Closed(q, r)
      <3> SUFFICES ASSUME q.date = r.date, q.start < r.start, ~ Closed(q, r) PROVE FALSE
        BY DEF Closed
      <3>1. PICK p \in batch : SameKey(p, q)
        BY <1>3, <2>1
      <3>2. Before(p, r)
        BY <1>1, <3>1 DEF Before
      <3>3. p \in C
        BY <1>3, <1>4, <3>2
      <3> QED BY <2>2, <3>1, <3>3
    <2>3. \A s \in Symbol : \A q, r \in table'[s] : Closed(q, r)
      <3> SUFFICES ASSUME NEW s \in Symbol, NEW q \in table'[s], NEW r \in table'[s]
                   PROVE  Closed(q, r)
        OBVIOUS
      <3>1. CASE s # Cur
        BY <1>3, <2>1, <3>1
      <3>2. CASE s = Cur /\ q \in C
        BY <1>3, <2>1, <3>2
      <3>3. CASE s = Cur /\ q \notin C /\ r \in C
        BY <1>3, <2>2, <3>3
      <3>4. CASE s = Cur /\ q \notin C /\ r \notin C
        BY <1>3, <2>1, <3>4
      <3> QED BY <3>1, <3>2, <3>3, <3>4
    <2>4. \A q \in batch' : \A r \in batch' \cup table'[Cur] : Closed(q, r)
      BY <1>3, <2>1
    <2>5. ASSUME NEW r \in batch', NEW q \in table'[Cur], ~ Closed(q, r)
          PROVE  \E p \in batch' : SameKey(p, q)
      <3>1. q \in table[Cur] /\ \A p \in C : ~ SameKey(p, q)
        BY <1>3, <2>1, <2>5
      <3>2. \E p \in batch : SameKey(p, q)
        BY <1>3, <2>1, <2>5, <3>1
      <3> QED BY <1>3, <3>1, <3>2
    <2> QED BY <2>3, <2>4, <2>5
  <1>10. Later'
    <2> SUFFICES ASSUME NEW q \in batch', NEW r \in table'[Cur], SameKey(q, r)
                 PROVE  r.start <= q.start /\ q.end <= r.end
      BY <1>1 DEF Later
    <2>1. CASE r \in C
      <3>1. q = r
        BY <1>3, <2>1 DEF FetchInv, RowsInv, OneEach
      <3> QED BY <1>3, <2>1, <3>1
    <2>2. CASE r \notin C
      BY <1>3, <2>2 DEF FetchInv, Later
    <2> QED BY <2>1, <2>2
  <1>11. ASSUME NEW s \in Symbol, NEW d \in Days, NEW p \in source[s][d], NEW x \in Nat,
                NEW r \in table[s], Serves(r, s, d, p, x)
         PROVE  \E q \in table'[s] : Serves(q, s, d, p, x)
    <2>1. PICK q \in table'[s] : SameKey(q, r) /\ q.start >= r.start /\ q.end <= r.end
      BY MergeReplaces
    <2>2. q.start \in Nat /\ q.end \in Nat
      <3>1. table'[s] \subseteq Row
        BY DEF TypeOK
      <3> QED BY <3>1, RowFields, Numbers
    <2>3. p \in Nat /\ \A v \in source[s][d] : v \in Nat
      BY StateNumbers
    <2>4. Serves(q, s, d, p, x)
      BY <1>5, <1>11, <2>1, <2>2, <2>3, StillServes
    <2> QED BY <2>4
  <1>12. Kept'
    <2> SUFFICES ASSUME NEW s \in Symbol, NEW d \in Days, NEW p \in source[s][d],
                        p < reach[s][d]
                 PROVE  \E q \in table'[s] : Serves(q, s, d, p, reach[s][d])
      BY <1>1, <1>2 DEF Kept
    <2>1. reach[s][d] \in Nat
      BY StateNumbers
    <2>2. PICK r \in table[s] : Serves(r, s, d, p, reach[s][d])
      BY DEF FetchInv, Kept
    <2> QED BY <1>11, <2>1, <2>2
  <1>13. Coming'
    <2> SUFFICES ASSUME NEW d \in Promised, NEW p \in source[Cur][d], p < asof
                 PROVE  \E q \in table'[Cur] \cup batch' : Serves(q, Cur, d, p, asof)
      BY <1>1, <1>2 DEF Coming
    <2>1. asof \in Nat /\ d \in Days
      BY StateNumbers, WindowDays
    <2>2. PICK r \in table[Cur] \cup batch : Serves(r, Cur, d, p, asof)
      BY <1>2 DEF FetchInv, Coming
    <2>3. CASE r \in table[Cur]
      BY <1>3, <1>11, <2>1, <2>2, <2>3
    <2>4. CASE r \in batch
      BY <1>3, <2>2, <2>4
    <2> QED BY <2>2, <2>3, <2>4
  <1> QED BY <1>6, <1>8, <1>9, <1>10, <1>12, <1>13 DEF FetchInv

\* A symbol is done with its whole batch in the table.
LEMMA SymbolStep ==
    ASSUME TypeOK, FetchInv, NextSymbol
    PROVE  FetchInv'
  <1>1. /\ Vintages' = Vintages
        /\ \A q, r : SameKey(q, r)' = SameKey(q, r)
        /\ \A s, d, p : VintageEnd(s, d, p)' = VintageEnd(s, d, p)
        /\ \A r, s, d, p, x : Serves(r, s, d, p, x)' = Serves(r, s, d, p, x)
    BY DEF NextSymbol, Vintages, SameKey, VintageEnd, Serves
  <1>2. /\ asof' = 0 /\ asof # 0 /\ batch = {} /\ batch' = {} /\ today' = today
        /\ source' = source /\ table' = table /\ feed' = feed /\ todo # <<>>
    BY DEF NextSymbol, Running
  <1>3. Cur \in Symbol
    BY <1>2, HeadTailProperties DEF Cur, TypeOK
  <1>4. \A s \in Symbol, d \in Days :
          reach'[s][d] = IF s = Cur /\ d \in Promised THEN asof ELSE reach[s][d]
    BY <1>3 DEF NextSymbol, Cur, TypeOK
  <1>5. today \in Nat /\ asof <= today
    BY StateNumbers DEF FetchInv, Books
  <1>6. Books'
    BY <1>2, <1>4, <1>5 DEF FetchInv, Books
  <1>7. RowsInv'
    BY <1>1, <1>2 DEF FetchInv, RowsInv, OneEach, IsRowOf
  <1>8. Ordered' /\ Later'
    BY <1>1, <1>2 DEF FetchInv, Ordered, Later, Closed
  <1>9. Kept'
    <2> SUFFICES ASSUME NEW s \in Symbol, NEW d \in Days, NEW p \in source[s][d],
                        p < reach'[s][d]
                 PROVE  \E r \in table[s] : Serves(r, s, d, p, reach'[s][d])
      BY <1>1, <1>2 DEF Kept
    <2>1. CASE s = Cur /\ d \in Promised
      BY <1>2, <1>4, <2>1 DEF FetchInv, Coming
    <2>2. CASE ~ (s = Cur /\ d \in Promised)
      BY <1>4, <2>2 DEF FetchInv, Kept
    <2> QED BY <2>1, <2>2
  <1>10. Coming'
    BY <1>2 DEF Coming
  <1> QED BY <1>6, <1>7, <1>8, <1>9, <1>10 DEF FetchInv
-----------------------------------------------------------------------------
(***************************************************************************)
(* The theorems.                                                           *)
(***************************************************************************)

LEMMA InvStep == TypeOK /\ FetchInv /\ [Next]_vars => FetchInv'
  <1> SUFFICES ASSUME TypeOK, FetchInv, [Next]_vars PROVE FetchInv'
    OBVIOUS
  <1>0. /\ TypeOK' /\ today \in Nat /\ asof \in Nat
        /\ ~ Running => asof = 0 /\ batch = {}
    BY TypeStep, StateNumbers DEF FetchInv, Books, Running
  <1>1. CASE NextDay
    BY <1>1, <1>0, DayStep DEF NextDay
  <1>2. ASSUME NEW i \in DOMAIN feed.symbols, NEW d \in Days,
               Publish(feed.symbols[i], d)
        PROVE  FetchInv'
    BY <1>0, <1>2, FeedFacts, PublishStep
  <1>3. CASE StartDaily
    BY <1>3, <1>0, QuietStep DEF StartDaily
  <1>4. ASSUME NEW first \in Days, NEW last \in Days, StartByHand(first, last)
        PROVE  FetchInv'
    BY <1>4, <1>0, QuietStep DEF StartByHand
  <1>5. CASE Fetch
    BY <1>0, <1>5, FetchStep
  <1>6. CASE MergeChunk
    BY <1>0, <1>6, MergeStep
  <1>7. CASE NextSymbol
    BY <1>7, SymbolStep
  <1>8. CASE RunDies
    BY <1>8, <1>0, QuietStep DEF RunDies
  <1>9. CASE UNCHANGED vars
    BY <1>9, <1>0, DayStep DEF vars
  <1> QED BY <1>1, <1>2, <1>3, <1>4, <1>5, <1>6, <1>7, <1>8, <1>9 DEF Next

\* Every reachable state is well-typed and keeps the books of its fetches.
LEMMA InvHolds == Spec => [](TypeOK /\ FetchInv)
  <1> QED BY TypeInit, TypeStep, FetchInit, InvStep, PTL DEF Spec

\* Two rows of a date were never current on the same day, whatever was fetched, merged
\* in part or cut short, so that the as-of join of the feature views finds one value.
THEOREM AsOfUnambiguousHolds == Spec => []AsOfUnambiguous
  <1>1. TypeOK /\ FetchInv => AsOfUnambiguous
    <2> SUFFICES ASSUME TypeOK, FetchInv, NEW s \in Symbol,
                        NEW q \in table[s], NEW r \in table[s],
                        q # r, q.date = r.date
                 PROVE  q.end < r.start \/ r.end < q.start
      BY DEF AsOfUnambiguous
    <2>1. ~ SameKey(q, r)
      BY DEF FetchInv, RowsInv, OneEach
    <2>2. Vintages /\ q.start # r.start
      BY <2>1 DEF SameKey
    <2>3. Closed(q, r) /\ Closed(r, q)
      BY <2>2 DEF FetchInv, Ordered
    <2>4. q.start \in Nat /\ r.start \in Nat
      BY StateNumbers
    <2> QED BY <2>2, <2>3, <2>4 DEF Closed
  <1> QED BY <1>1, InvHolds, PTL

\* No step takes the table back: a stored row keeps its key, and gives way only to one
\* with the same or a later value that is closed as much.
THEOREM NeverGoesBackHolds == Spec => NeverGoesBack
  <1>1. TypeOK /\ FetchInv /\ [Next]_vars =>
          [\A s \in Symbol : \A r \in table[s] : \E q \in table'[s] :
              /\ SameKey(q, r)
              /\ q.start >= r.start
              /\ q.end <= r.end]_vars
    <2> SUFFICES ASSUME TypeOK, FetchInv, Next,
                        NEW s \in Symbol, NEW r \in table[s]
                 PROVE  \E q \in table'[s] : /\ SameKey(q, r)
                                             /\ q.start >= r.start
                                             /\ q.end <= r.end
      OBVIOUS
    <2>1. CASE MergeChunk
      BY <2>1, MergeReplaces
    <2>2. CASE table' = table
      <3>1. r.start \in Nat /\ r.end \in Nat /\ SameKey(r, r)
        BY StateNumbers DEF SameKey
      <3> QED BY <2>2, <3>1
    <2>3. MergeChunk \/ table' = table
      BY DEF Next, NextDay, Publish, StartDaily, StartByHand, Fetch, NextSymbol, RunDies
    <2> QED BY <2>1, <2>2, <2>3
  <1> QED BY <1>1, InvHolds, PTL DEF Spec, NeverGoesBack

\* What a finished fetch promised stays true: for the days before the fetch the table
\* knows of each date of its window what the provider knew; of a feed without vintages
\* it has the value of the day or a later one.
THEOREM UpToDateHolds == Spec => []UpToDate
  <1>1. TypeOK /\ FetchInv => UpToDate
    <2> SUFFICES ASSUME TypeOK, FetchInv, NEW s \in Symbol, NEW d \in Days,
                        NEW x \in 1 .. LastDay, x < reach[s][d]
                 PROVE  IF Vintages
                        THEN KnownOn(table[s], d, x) = KnownOn(VintageRecords(s, d, 0), d, x)
                        ELSE \A p \in source[s][d] : p <= x =>
                                \E r \in table[s] : r.date = d /\ r.start >= p
      BY DEF UpToDate
    <2>1. /\ reach[s][d] \in Nat /\ x \in Nat
          /\ \A p \in source[s][d] : p \in Days /\ p \in Nat
          /\ \A r \in table[s] : r \in Row /\ r.start \in Nat /\ r.end \in Nat
      BY StateNumbers, Numbers
    <2>2. \A p \in source[s][d] : p <= x =>
            \E r \in table[s] : Serves(r, s, d, p, reach[s][d])
      BY <2>1 DEF FetchInv, Kept
    <2>3. CASE ~ Vintages
      <3> SUFFICES ASSUME NEW p \in source[s][d], p <= x
                   PROVE  \E r \in table[s] : r.date = d /\ r.start >= p
        BY <2>3
      <3>1. PICK r \in table[s] : Serves(r, s, d, p, reach[s][d])
        BY <2>2
      <3> QED BY <2>1, <3>1 DEF Serves
    <2>4. CASE Vintages
      <3> DEFINE T == source[s][d]
                 E(p) == End(T, p)
      <3>1. T \in SUBSET Days
        BY DEF TypeOK
      <3>2. \A p \in T : /\ E(p) \in Nat /\ p <= E(p)
                         /\ \A q \in T : p < q => E(p) < q
                         /\ E(p) = Forever \/ \E q \in T : p < q /\ E(p) = q - 1
        <4> TAKE p \in T
        <4>1. p \in Days /\ p \in Nat
          BY <2>1
        <4>2. E(p) \in p .. Forever
          BY <3>1, <4>1, EndFacts
        <4>3. E(p) \in Nat /\ p <= E(p)
          BY <4>1, <4>2, Numbers
        <4> QED BY <3>1, <4>1, <4>3, EndFacts
      <3>3. VintageRecords(s, d, 0) = {[date |-> d, start |-> p, end |-> E(p)] : p \in T}
        <4>1. \A p \in T : VintageEnd(s, d, p) = E(p) /\ E(p) >= 0 /\ MaxOf(p, 0) = p
          BY <2>1, <3>2, EndOfVintage DEF MaxOf
        <4> QED BY <4>1 DEF VintageRecords
      <3>4. \A z : z \in KnownOn(VintageRecords(s, d, 0), d, x) <=>
                     z \in T /\ z <= x /\ x <= E(z)
        <4> DEFINE R == {[date |-> d, start |-> p, end |-> E(p)] : p \in T}
        <4>1. \A z : z \in KnownOn(R, d, x) <=>
                \E r \in R : r.date = d /\ r.start <= x /\ x <= r.end /\ z = r.start
          <5> HIDE DEF R
          <5> QED BY DEF KnownOn
        <4>2. \A z : (\E r \in R : r.date = d /\ r.start <= x /\ x <= r.end /\ z = r.start)
                       <=> \E p \in T : p <= x /\ x <= E(p) /\ z = p
          <5>1. \A p \in T : LET r == [date |-> d, start |-> p, end |-> E(p)]
                             IN  r.date = d /\ r.start = p /\ r.end = E(p)
            OBVIOUS
          <5> HIDE DEF T, E
          <5>2. ASSUME NEW z, NEW r \in R, r.date = d, r.start <= x, x <= r.end, z = r.start
                PROVE  \E p \in T : p <= x /\ x <= E(p) /\ z = p
            <6>1. PICK p \in T : r = [date |-> d, start |-> p, end |-> E(p)]
              OBVIOUS
            <6> QED BY <5>1, <5>2, <6>1
          <5>3. ASSUME NEW z, NEW p \in T, p <= x, x <= E(p), z = p
                PROVE  \E r \in R : r.date = d /\ r.start <= x /\ x <= r.end /\ z = r.start
            <6>1. [date |-> d, start |-> p, end |-> E(p)] \in R
              OBVIOUS
            <6> HIDE DEF R
            <6> QED BY <5>1, <5>3, <6>1
          <5> QED BY <5>2, <5>3
        <4> QED BY <3>3, <4>1, <4>2
      <3>5. ASSUME NEW z \in T, z <= x, x <= E(z)
            PROVE  z \in KnownOn(table[s], d, x)
        <4>1. PICK r \in table[s] : Serves(r, s, d, z, reach[s][d])
          BY <2>2, <3>5
        <4>2. r.date = d /\ r.start = z
          BY <2>4, <4>1 DEF Serves
        <4>3. E(z) <= r.end
          BY <3>5, <4>2, EndOfVintage DEF FetchInv, RowsInv, IsRowOf
        <4>4. r.start <= x /\ x <= r.end
          BY <2>1, <3>2, <3>5, <4>2, <4>3
        <4> QED BY <4>2, <4>4 DEF KnownOn
      <3>6. ASSUME NEW z \in KnownOn(table[s], d, x)
            PROVE  z \in T /\ z <= x /\ x <= E(z)
        <4>1. PICK r \in table[s] : /\ r.date = d /\ r.start <= x /\ x <= r.end
                                    /\ z = r.start
          BY DEF KnownOn
        <4>2. z \in T /\ z <= x
          BY <4>1 DEF FetchInv, RowsInv, IsRowOf
        <4>3. PICK v \in table[s] : Serves(v, s, d, z, reach[s][d])
          BY <2>2, <4>2
        <4>4. v.date = d /\ v.start = z
              /\ \A q \in T : z < q /\ q < reach[s][d] => v.end < q
          BY <2>4, <4>3 DEF Serves
        <4>5. v = r
          BY <4>1, <4>4 DEF FetchInv, RowsInv, OneEach, SameKey
        <4>6. \A q \in T : z < q => x < q
          BY <2>1, <4>1, <4>4, <4>5
        <4>7. x <= E(z)
          <5>1. CASE E(z) = Forever
            BY <5>1, Numbers
          <5>2. ASSUME NEW q \in T, z < q, E(z) = q - 1 PROVE x <= E(z)
            BY <2>1, <4>6, <5>2
          <5> QED BY <3>2, <4>2, <5>1, <5>2
        <4> QED BY <4>2, <4>7
      <3>7. KnownOn(table[s], d, x) = KnownOn(VintageRecords(s, d, 0), d, x)
        BY <3>4, <3>5, <3>6
      <3> QED BY <2>4, <3>7
    <2> QED BY <2>3, <2>4
  <1> QED BY <1>1, InvHolds, PTL
=============================================================================
