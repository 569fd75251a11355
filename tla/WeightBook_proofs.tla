-------------------------- MODULE WeightBook_proofs --------------------------
(***************************************************************************)
(* Theorems about WeightBook, for any universe, any returns and            *)
(* volatilities, any parameter versions and any number of weeks.           *)
(***************************************************************************)
EXTENDS WeightBook, FiniteSetTheorems, WellFoundedInduction, TLAPS

(***************************************************************************)
(* Folds over finite sets.                                                 *)
(***************************************************************************)
\* The element MapThenSumSet takes next.
Choice(T) == CHOOSE x \in T : TRUE

\* The sum and the product of f over S, with f a function: what the model folds is
\* of this form.
Total(f, S) == MapThenSumSet(LAMBDA s : f[s], S)
Product(f, S) == FoldSet(LAMBDA s, d : f[s] * d, 1, S)

\* Both are the last of the partial results that the fold goes through.
Unit(kind) == IF kind = "sum" THEN 0 ELSE 1
Step(kind, i, j) == IF kind = "sum" THEN i + j ELSE i * j
Partials(it, kind, f, S) ==
    it = [T \in SUBSET S |->
            IF T = {} THEN Unit(kind)
            ELSE Step(kind, f[Choice(T)], it[T \ {Choice(T)}])]
Last(kind, f, S) == (CHOOSE it : Partials(it, kind, f, S))[S]

\* Induction over the subsets of a finite set, for a property given by the set of
\* those that have it.
LEMMA SubsetInduction ==
    ASSUME NEW S, IsFiniteSet(S), NEW G,
           \A T \in SUBSET S : (SUBSET T) \ {T} \subseteq G => T \in G
    PROVE  SUBSET S \subseteq G
<1> DEFINE Wrong == (SUBSET S) \ G
<1> SUFFICES ASSUME Wrong # {} PROVE FALSE
  OBVIOUS
<1>1. IsWellFoundedOn(StrictSubsetOrdering(S), SUBSET S)
  <2>1. IsWellFoundedOn(StrictSubsetOrdering(S), FiniteSubsetsOf(S))
    BY FS_StrictSubsetOrderingWellFounded, Zenon
  <2>2. FiniteSubsetsOf(S) = SUBSET S
    BY FS_FiniteSubsetsOfFinite, Zenon
  <2> QED
    BY <2>1, <2>2, Zenon
<1>2. PICK T \in Wrong : \A U \in Wrong : ~ (<<U, T>> \in StrictSubsetOrdering(S))
  <2>1. Wrong \subseteq SUBSET S
    OBVIOUS
  <2> HIDE DEF Wrong
  <2> QED
    BY <1>1, <2>1, WFMin
<1>3. \A U \in (SUBSET T) \ {T} : U \in G
  <2> SUFFICES ASSUME NEW U \in (SUBSET T) \ {T}, U \notin G PROVE FALSE
    OBVIOUS
  <2>1. U \in Wrong
    OBVIOUS
  <2>2. <<U, T>> \in StrictSubsetOrdering(S)
    BY DEF StrictSubsetOrdering
  <2> QED
    BY <1>2, <2>1, <2>2
<1> QED
  BY <1>3

LEMMA TotalIsLast ==
    ASSUME NEW f, NEW S
    PROVE  Total(f, S) = Last("sum", f, S)
<1> DEFINE A(it) == [T \in SUBSET S |->
                IF T = {} THEN 0 ELSE f[Choice(T)] + it[T \ {Choice(T)}]]
<1>1. \A it : Partials(it, "sum", f, S) <=> it = A(it)
  BY DEF Partials, Step, Unit
<1>2. Last("sum", f, S) = (CHOOSE it : it = A(it))[S]
  <2> HIDE DEF A
  <2>1. (CHOOSE it : Partials(it, "sum", f, S)) = (CHOOSE it : it = A(it))
    BY <1>1, Zenon
  <2> QED
    BY <2>1 DEF Last
<1> QED
  BY <1>2 DEF Total, Choice, MapThenSumSet, MapThenFoldSet

LEMMA ProductIsLast ==
    ASSUME NEW f, NEW S
    PROVE  Product(f, S) = Last("product", f, S)
<1> DEFINE A(it) == [T \in SUBSET S |->
                IF T = {} THEN 1 ELSE f[Choice(T)] * it[T \ {Choice(T)}]]
<1>1. \A it : Partials(it, "product", f, S) <=> it = A(it)
  BY DEF Partials, Step, Unit
<1>2. Last("product", f, S) = (CHOOSE it : it = A(it))[S]
  <2> HIDE DEF A
  <2>1. (CHOOSE it : Partials(it, "product", f, S)) = (CHOOSE it : it = A(it))
    BY <1>1, Zenon
  <2> QED
    BY <2>1 DEF Last
<1> QED
  BY <1>2 DEF Product, Choice, FoldSet, MapThenFoldSet

\* Partial results do not depend on the set they are taken in.
LEMMA PartialsAgree ==
    ASSUME NEW kind, NEW f, NEW S, IsFiniteSet(S), NEW T \in SUBSET S,
           NEW i, Partials(i, kind, f, S), NEW j, Partials(j, kind, f, T)
    PROVE  i[T] = j[T]
<1> DEFINE G == {U \in SUBSET T : i[U] = j[U]}
<1>1. IsFiniteSet(T)
  BY FS_Subset
<1>2. ASSUME NEW U \in SUBSET T, (SUBSET U) \ {U} \subseteq G
      PROVE  U \in G
  <2>1. CASE U = {}
    BY <2>1 DEF Partials
  <2>2. CASE U # {}
    <3> DEFINE c == Choice(U)
    <3>1. c \in U
      BY <2>2 DEF Choice
    <3>2. U \ {c} \in G
      BY <1>2, <3>1
    <3>3. /\ i[U] = Step(kind, f[c], i[U \ {c}])
          /\ j[U] = Step(kind, f[c], j[U \ {c}])
      BY <2>2 DEF Partials
    <3> QED
      BY <3>2, <3>3
  <2> QED
    BY <2>1, <2>2
<1>3. SUBSET T \subseteq G
  <2> HIDE DEF G
  <2> QED
    BY <1>1, <1>2, SubsetInduction
<1> QED
  BY <1>3

\* Of a finite set there are partial results.
LEMMA PartialsExist ==
    ASSUME NEW kind, NEW f, NEW S, IsFiniteSet(S)
    PROVE  \E it : Partials(it, kind, f, S)
<1> DEFINE G == {U \in SUBSET S : \E it : Partials(it, kind, f, U)}
<1>1. ASSUME NEW T \in SUBSET S, (SUBSET T) \ {T} \subseteq G
      PROVE  T \in G
  <2> DEFINE Rest(U) == U \ {Choice(U)}
             h == [U \in SUBSET T |->
                    IF U = {} THEN Unit(kind)
                    ELSE Step(kind, f[Choice(U)], Last(kind, f, Rest(U)))]
  <2>1. ASSUME NEW U \in SUBSET T, U # {}
        PROVE  h[Rest(U)] = Last(kind, f, Rest(U))
    <3> DEFINE V == Rest(U)
               W == Rest(V)
    <3>1. Choice(U) \in U
      BY <2>1 DEF Choice
    <3>2. V \in G /\ W \in G
      BY <1>1, <3>1
    <3>3. PICK i : i = (CHOOSE it : Partials(it, kind, f, V))
      OBVIOUS
    <3>4. Partials(i, kind, f, V) /\ Last(kind, f, V) = i[V]
      BY <3>2, <3>3 DEF Last
    <3>5. CASE V = {}
      BY <3>4, <3>5 DEF Partials
    <3>6. CASE V # {}
      <4>1. PICK j : j = (CHOOSE it : Partials(it, kind, f, W))
        OBVIOUS
      <4>2. Partials(j, kind, f, W) /\ Last(kind, f, W) = j[W]
        BY <3>2, <4>1 DEF Last
      <4>3. IsFiniteSet(V) /\ W \in SUBSET V
        BY FS_Subset
      <4>4. i[W] = j[W]
        BY <3>4, <4>2, <4>3, PartialsAgree
      <4>5. i[V] = Step(kind, f[Choice(V)], i[W])
        BY <3>4, <3>6 DEF Partials
      <4>6. h[V] = Step(kind, f[Choice(V)], Last(kind, f, W))
        BY <3>6
      <4> QED
        BY <3>4, <4>2, <4>4, <4>5, <4>6
    <3> QED
      BY <3>5, <3>6
  <2>2. h = [U \in SUBSET T |->
                IF U = {} THEN Unit(kind) ELSE Step(kind, f[Choice(U)], h[Rest(U)])]
    <3>1. \A U \in SUBSET T : U # {} => h[Rest(U)] = Last(kind, f, Rest(U))
      BY <2>1
    <3> QED
      BY <3>1, Zenon
  <2>3. Partials(h, kind, f, T)
    BY <2>2 DEF Partials
  <2> QED
    BY <2>3
<1>2. SUBSET S \subseteq G
  <2> HIDE DEF G
  <2> QED
    BY <1>1, SubsetInduction
<1> QED
  BY <1>2

\* The recursion of a fold, on the results themselves.
LEMMA LastStep ==
    ASSUME NEW kind, NEW f, NEW S, IsFiniteSet(S)
    PROVE  /\ S = {} => Last(kind, f, S) = Unit(kind)
           /\ S # {} => /\ Choice(S) \in S
                        /\ Last(kind, f, S) =
                             Step(kind, f[Choice(S)], Last(kind, f, S \ {Choice(S)}))
<1>1. PICK i : i = (CHOOSE it : Partials(it, kind, f, S))
  OBVIOUS
<1>2. Partials(i, kind, f, S) /\ Last(kind, f, S) = i[S]
  BY <1>1, PartialsExist DEF Last
<1>3. CASE S = {}
  BY <1>2, <1>3 DEF Partials
<1>4. CASE S # {}
  <2> DEFINE T == S \ {Choice(S)}
  <2>1. T \in SUBSET S /\ IsFiniteSet(T) /\ Choice(S) \in S
    BY <1>4, FS_Subset DEF Choice
  <2>2. PICK j : j = (CHOOSE it : Partials(it, kind, f, T))
    OBVIOUS
  <2>3. Partials(j, kind, f, T) /\ Last(kind, f, T) = j[T]
    BY <2>1, <2>2, PartialsExist DEF Last
  <2>4. i[T] = j[T]
    BY <1>2, <2>1, <2>3, PartialsAgree
  <2>5. i[S] = Step(kind, f[Choice(S)], i[T])
    BY <1>2, <1>4 DEF Partials
  <2> QED
    BY <1>2, <1>4, <2>1, <2>3, <2>4, <2>5
<1> QED
  BY <1>3, <1>4

LEMMA TotalStep ==
    ASSUME NEW f, NEW S, IsFiniteSet(S)
    PROVE  /\ S = {} => Total(f, S) = 0
           /\ S # {} => /\ Choice(S) \in S
                        /\ Total(f, S) = f[Choice(S)] + Total(f, S \ {Choice(S)})
  BY LastStep, TotalIsLast DEF Step, Unit

LEMMA ProductStep ==
    ASSUME NEW f, NEW S, IsFiniteSet(S)
    PROVE  /\ S = {} => Product(f, S) = 1
           /\ S # {} => /\ Choice(S) \in S
                        /\ Product(f, S) = f[Choice(S)] * Product(f, S \ {Choice(S)})
  BY LastStep, ProductIsLast DEF Step, Unit

LEMMA EmptyFolds == \A f : Total(f, {}) = 0 /\ Product(f, {}) = 1
  BY FS_EmptySet, TotalStep, ProductStep

\* A fold only depends on the values folded.
LEMMA LastSame ==
    ASSUME NEW kind, NEW f, NEW g, NEW S, \A s \in S : f[s] = g[s]
    PROVE  Last(kind, f, S) = Last(kind, g, S)
<1> DEFINE A(it) == [T \in SUBSET S |->
                IF T = {} THEN Unit(kind)
                ELSE Step(kind, f[Choice(T)], it[T \ {Choice(T)}])]
           B(it) == [T \in SUBSET S |->
                IF T = {} THEN Unit(kind)
                ELSE Step(kind, g[Choice(T)], it[T \ {Choice(T)}])]
<1>1. \A T \in SUBSET S : T # {} => f[Choice(T)] = g[Choice(T)]
  BY DEF Choice
<1>2. \A it : A(it) = B(it)
  BY <1>1, Zenon
<1>3. \A it : Partials(it, kind, f, S) <=> Partials(it, kind, g, S)
  BY <1>2 DEF Partials
<1>4. (CHOOSE it : Partials(it, kind, f, S)) = (CHOOSE it : Partials(it, kind, g, S))
  BY <1>3, Zenon
<1> QED
  BY <1>4 DEF Last

LEMMA TotalSame ==
    ASSUME NEW f, NEW g, NEW S, \A s \in S : f[s] = g[s]
    PROVE  Total(f, S) = Total(g, S)
  BY LastSame, TotalIsLast

-----------------------------------------------------------------------------
LEMMA TotalInt ==
    ASSUME NEW f, NEW S, IsFiniteSet(S), \A s \in S : f[s] \in Int
    PROVE  Total(f, S) \in Int
<1> DEFINE G == {T \in SUBSET S : Total(f, T) \in Int}
<1>1. ASSUME NEW T \in SUBSET S, (SUBSET T) \ {T} \subseteq G
      PROVE  T \in G
  <2>1. IsFiniteSet(T)
    BY FS_Subset
  <2>2. CASE T = {}
    BY <2>2, EmptyFolds
  <2>3. CASE T # {}
    <3>1. Choice(T) \in T /\ Total(f, T) = f[Choice(T)] + Total(f, T \ {Choice(T)})
      BY <2>1, <2>3, TotalStep
    <3>2. T \ {Choice(T)} \in G
      BY <1>1, <3>1
    <3> QED
      BY <3>1, <3>2
  <2> QED
    BY <2>2, <2>3
<1>2. SUBSET S \subseteq G
  <2> HIDE DEF G
  <2> QED
    BY <1>1, SubsetInduction
<1> QED
  BY <1>2

\* Any element may be taken first.
LEMMA TotalWithout ==
    ASSUME NEW f, NEW S, IsFiniteSet(S), \A s \in S : f[s] \in Int, NEW x \in S
    PROVE  /\ Total(f, S \ {x}) \in Int
           /\ Total(f, S) = f[x] + Total(f, S \ {x})
<1> DEFINE G == {T \in SUBSET S :
                    \A y \in T : Total(f, T) = f[y] + Total(f, T \ {y})}
<1>1. \A T \in SUBSET S : IsFiniteSet(T) /\ Total(f, T) \in Int
  BY FS_Subset, TotalInt
<1>2. ASSUME NEW T \in SUBSET S, (SUBSET T) \ {T} \subseteq G
      PROVE  T \in G
  <2> SUFFICES ASSUME NEW y \in T
               PROVE  Total(f, T) = f[y] + Total(f, T \ {y})
    OBVIOUS
  <2> DEFINE c == Choice(T)
  <2>1. c \in T /\ Total(f, T) = f[c] + Total(f, T \ {c})
    BY <1>1, TotalStep
  <2>2. CASE y = c
    BY <2>1, <2>2
  <2>3. CASE y # c
    <3>1. T \ {c} \in G /\ T \ {y} \in G /\ (T \ {c}) \ {y} = (T \ {y}) \ {c}
      BY <1>2, <2>1
    <3> DEFINE rest == Total(f, (T \ {c}) \ {y})
    <3>2. /\ Total(f, T \ {c}) = f[y] + rest
          /\ Total(f, T \ {y}) = f[c] + rest
      BY <2>1, <2>3, <3>1
    <3>3. rest \in Int /\ f[y] \in Int /\ f[c] \in Int
      BY <1>1, <2>1
    <3> HIDE DEF rest, c
    <3> QED
      BY <2>1, <3>2, <3>3
  <2> QED
    BY <2>2, <2>3
<1>3. SUBSET S \subseteq G
  <2> HIDE DEF G
  <2> QED
    BY <1>2, SubsetInduction
<1> QED
  BY <1>1, <1>3

\* A sum of numbers that are not negative is not negative, and bounds each.
LEMMA TotalNat ==
    ASSUME NEW f, NEW S, IsFiniteSet(S), \A s \in S : f[s] \in Nat
    PROVE  /\ Total(f, S) \in Nat
           /\ \A s \in S : f[s] <= Total(f, S)
<1> DEFINE G == {T \in SUBSET S : Total(f, T) \in Nat}
<1>1. ASSUME NEW T \in SUBSET S, (SUBSET T) \ {T} \subseteq G
      PROVE  T \in G
  <2>1. IsFiniteSet(T)
    BY FS_Subset
  <2>2. CASE T = {}
    BY <2>2, EmptyFolds
  <2>3. CASE T # {}
    <3>1. Choice(T) \in T /\ Total(f, T) = f[Choice(T)] + Total(f, T \ {Choice(T)})
      BY <2>1, <2>3, TotalStep
    <3>2. T \ {Choice(T)} \in G
      BY <1>1, <3>1
    <3> QED
      BY <3>1, <3>2
  <2> QED
    BY <2>2, <2>3
<1>2. SUBSET S \subseteq G
  <2> HIDE DEF G
  <2> QED
    BY <1>1, SubsetInduction
<1>3. ASSUME NEW s \in S PROVE f[s] <= Total(f, S)
  <2>1. Total(f, S) = f[s] + Total(f, S \ {s})
    BY TotalWithout
  <2>2. Total(f, S \ {s}) \in Nat /\ f[s] \in Nat
    BY <1>2
  <2> QED
    BY <2>1, <2>2
<1> QED
  BY <1>2, <1>3

\* Elements that add nothing may be left out.
LEMMA TotalWithin ==
    ASSUME NEW f, NEW S, IsFiniteSet(S), \A s \in S : f[s] \in Int,
           NEW R \in SUBSET S, \A s \in S \ R : f[s] = 0
    PROVE  Total(f, S) = Total(f, R)
<1> DEFINE G == {T \in SUBSET S : Total(f, T) = Total(f, T \cap R)}
<1>1. ASSUME NEW T \in SUBSET S, (SUBSET T) \ {T} \subseteq G
      PROVE  T \in G
  <2>1. IsFiniteSet(T) /\ IsFiniteSet(T \cap R)
    BY FS_Subset
  <2>2. CASE T = {}
    BY <2>2
  <2>3. CASE T # {}
    <3> DEFINE c == Choice(T)
    <3>1. c \in T /\ Total(f, T) = f[c] + Total(f, T \ {c})
      BY <2>1, <2>3, TotalStep
    <3>2. Total(f, T \ {c}) = Total(f, (T \ {c}) \cap R)
      BY <1>1, <3>1
    <3>3. CASE c \in R
      <4>1. (T \ {c}) \cap R = (T \cap R) \ {c}
        OBVIOUS
      <4>2. Total(f, T \cap R) = f[c] + Total(f, (T \cap R) \ {c})
        BY <2>1, <3>1, <3>3, TotalWithout
      <4> QED
        BY <3>1, <3>2, <4>1, <4>2
    <3>4. CASE c \notin R
      <4>1. (T \ {c}) \cap R = T \cap R /\ f[c] = 0
        BY <3>1, <3>4
      <4>2. Total(f, T \cap R) \in Int
        BY <2>1, TotalInt
      <4>3. Total(f, T \ {c}) = Total(f, T \cap R)
        BY <3>2, <4>1
      <4>4. Total(f, T) = Total(f, T \cap R)
        <5> HIDE DEF c, G
        <5> QED
          BY <3>1, <4>1, <4>2, <4>3
      <4> QED
        BY <4>4
    <3> QED
      BY <3>3, <3>4
  <2> QED
    BY <2>2, <2>3
<1>2. SUBSET S \subseteq G
  <2> HIDE DEF G
  <2> QED
    BY <1>1, SubsetInduction
<1>3. S \cap R = R /\ S \in SUBSET S
  OBVIOUS
<1> QED
  BY <1>2, <1>3

\* Sums are linear.
LEMMA TotalPlus ==
    ASSUME NEW f, NEW g, NEW h, NEW S, IsFiniteSet(S),
           \A s \in S : f[s] \in Int /\ g[s] \in Int /\ h[s] = f[s] + g[s]
    PROVE  Total(h, S) = Total(f, S) + Total(g, S)
<1> DEFINE G == {T \in SUBSET S : Total(h, T) = Total(f, T) + Total(g, T)}
<1>1. ASSUME NEW T \in SUBSET S, (SUBSET T) \ {T} \subseteq G
      PROVE  T \in G
  <2>1. IsFiniteSet(T)
    BY FS_Subset
  <2>2. CASE T = {}
    BY <2>2, EmptyFolds
  <2>3. CASE T # {}
    <3> DEFINE c == Choice(T)
               U == T \ {c}
    <3>1. /\ c \in T
          /\ Total(f, T) = f[c] + Total(f, U)
          /\ Total(g, T) = g[c] + Total(g, U)
          /\ Total(h, T) = h[c] + Total(h, U)
      BY <2>1, <2>3, TotalStep
    <3>2. Total(h, U) = Total(f, U) + Total(g, U)
      BY <1>1, <3>1
    <3>3. /\ f[c] \in Int /\ g[c] \in Int /\ h[c] = f[c] + g[c]
          /\ Total(f, U) \in Int /\ Total(g, U) \in Int
      <4>1. IsFiniteSet(U)
        BY <2>1, FS_Subset
      <4> QED
        BY <3>1, <4>1, TotalInt
    <3> HIDE DEF c, U
    <3>4. Total(h, T) = Total(f, T) + Total(g, T)
      BY <3>1, <3>2, <3>3
    <3> QED
      BY <3>4
  <2> QED
    BY <2>2, <2>3
<1>2. SUBSET S \subseteq G
  <2> HIDE DEF G
  <2> QED
    BY <1>1, SubsetInduction
<1> QED
  BY <1>2

LEMMA TotalTimes ==
    ASSUME NEW f, NEW h, NEW k \in Int, NEW S, IsFiniteSet(S),
           \A s \in S : f[s] \in Int /\ h[s] = k * f[s]
    PROVE  Total(h, S) = k * Total(f, S)
<1> DEFINE G == {T \in SUBSET S : Total(h, T) = k * Total(f, T)}
<1>1. ASSUME NEW T \in SUBSET S, (SUBSET T) \ {T} \subseteq G
      PROVE  T \in G
  <2>1. IsFiniteSet(T)
    BY FS_Subset
  <2>2. CASE T = {}
    BY <2>2, EmptyFolds
  <2>3. CASE T # {}
    <3> DEFINE c == Choice(T)
               U == T \ {c}
    <3>1. /\ c \in T
          /\ Total(f, T) = f[c] + Total(f, U)
          /\ Total(h, T) = h[c] + Total(h, U)
      BY <2>1, <2>3, TotalStep
    <3>2. Total(h, U) = k * Total(f, U)
      BY <1>1, <3>1
    <3>3. f[c] \in Int /\ h[c] = k * f[c] /\ Total(f, U) \in Int
      <4>1. IsFiniteSet(U)
        BY <2>1, FS_Subset
      <4> QED
        BY <3>1, <4>1, TotalInt
    <3> HIDE DEF c, U
    <3>4. Total(h, T) = k * Total(f, T)
      BY <3>1, <3>2, <3>3
    <3> QED
      BY <3>4
  <2> QED
    BY <2>2, <2>3
<1>2. SUBSET S \subseteq G
  <2> HIDE DEF G
  <2> QED
    BY <1>1, SubsetInduction
<1> QED
  BY <1>2

\* A product of positive numbers is positive, and each divides it.
LEMMA ProductNat ==
    ASSUME NEW f, NEW S, IsFiniteSet(S), \A s \in S : f[s] \in Nat \ {0}
    PROVE  /\ Product(f, S) \in Nat \ {0}
           /\ \A s \in S : \E q \in Nat \ {0} : Product(f, S) = f[s] * q
<1> DEFINE G == {T \in SUBSET S :
                   /\ Product(f, T) \in Nat \ {0}
                   /\ \A s \in T : \E q \in Nat \ {0} : Product(f, T) = f[s] * q}
<1>1. ASSUME NEW T \in SUBSET S, (SUBSET T) \ {T} \subseteq G
      PROVE  T \in G
  <2>1. IsFiniteSet(T)
    BY FS_Subset
  <2>2. CASE T = {}
    BY <2>2, EmptyFolds
  <2>3. CASE T # {}
    <3> DEFINE c == Choice(T)
               U == T \ {c}
    <3>1. c \in T /\ Product(f, T) = f[c] * Product(f, U)
      BY <2>1, <2>3, ProductStep
    <3>2. U \in G
      BY <1>1, <3>1
    <3>3. f[c] \in Nat \ {0} /\ Product(f, U) \in Nat \ {0}
      BY <3>1, <3>2
    <3>4. Product(f, T) \in Nat \ {0}
      BY <3>1, <3>3
    <3>5. ASSUME NEW s \in T
          PROVE  \E q \in Nat \ {0} : Product(f, T) = f[s] * q
      <4>1. CASE s = c
        BY <3>1, <3>3, <4>1
      <4>2. CASE s # c
        <5>1. PICK q \in Nat \ {0} : Product(f, U) = f[s] * q
          BY <3>2, <4>2
        <5>2. f[s] \in Nat
          OBVIOUS
        <5>3. f[c] * q \in Nat \ {0} /\ f[c] * (f[s] * q) = f[s] * (f[c] * q)
          BY <3>3, <5>2
        <5> QED
          BY <3>1, <5>1, <5>3
      <4> QED
        BY <4>1, <4>2
    <3> QED
      BY <3>4, <3>5
  <2> QED
    BY <2>2, <2>3
<1>2. SUBSET S \subseteq G
  <2> HIDE DEF G
  <2> QED
    BY <1>1, SubsetInduction
<1> QED
  BY <1>2

-----------------------------------------------------------------------------
(***************************************************************************)
(* Types.                                                                  *)
(***************************************************************************)
\* The gross of legs is the sum of their sizes.
LEMMA GrossIsTotal ==
    ASSUME NEW raw, NEW S
    PROVE  GrossOf(raw, S) = Total([s \in S |-> Abs(raw[s])], S)
<1> DEFINE f == [s \in S |-> Abs(raw[s])]
           A(it) == [T \in SUBSET S |->
                IF T = {} THEN 0
                ELSE Abs(raw[CHOOSE x \in T : TRUE]) + it[T \ {CHOOSE x \in T : TRUE}]]
           B(it) == [T \in SUBSET S |->
                IF T = {} THEN 0
                ELSE f[CHOOSE x \in T : TRUE] + it[T \ {CHOOSE x \in T : TRUE}]]
<1>1. \A it : A(it) = B(it)
  OBVIOUS
<1>2. (CHOOSE it : it = A(it)) = (CHOOSE it : it = B(it))
  <2> HIDE DEF A, B
  <2> QED
    BY <1>1, Zenon
<1>3. GrossOf(raw, S) = (CHOOSE it : it = A(it))[S]
  BY DEF GrossOf, MapThenSumSet, MapThenFoldSet
<1>4. Total(f, S) = (CHOOSE it : it = B(it))[S]
  BY DEF Total, MapThenSumSet, MapThenFoldSet
<1> QED
  BY <1>2, <1>3, <1>4

LEMMA FreedIsTotal ==
    ASSUME NEW raw, NEW cap
    PROVE  Freed(raw, cap) =
             Total([c \in OverCap(raw, cap) |->
                      Abs(raw[c]) * cap[2] - cap[1] * GrossOf(raw, Symbol)],
                   OverCap(raw, cap))
<1> DEFINE S == OverCap(raw, cap)
           f == [c \in S |-> Abs(raw[c]) * cap[2] - cap[1] * GrossOf(raw, Symbol)]
           A(it) == [T \in SUBSET S |->
                IF T = {} THEN 0
                ELSE (Abs(raw[CHOOSE x \in T : TRUE]) * cap[2]
                        - cap[1] * GrossOf(raw, Symbol))
                     + it[T \ {CHOOSE x \in T : TRUE}]]
           B(it) == [T \in SUBSET S |->
                IF T = {} THEN 0
                ELSE f[CHOOSE x \in T : TRUE] + it[T \ {CHOOSE x \in T : TRUE}]]
<1>1. \A it : A(it) = B(it)
  <2> HIDE DEF S
  <2> QED
    OBVIOUS
<1>2. (CHOOSE it : it = A(it)) = (CHOOSE it : it = B(it))
  <2> HIDE DEF A, B
  <2> QED
    BY <1>1, Zenon
<1>3. Freed(raw, cap) = (CHOOSE it : it = A(it))[S]
  BY DEF Freed, MapThenSumSet, MapThenFoldSet
<1>4. Total(f, S) = (CHOOSE it : it = B(it))[S]
  BY DEF Total, MapThenSumSet, MapThenFoldSet
<1> QED
  BY <1>2, <1>3, <1>4

\* What the legs of a book are made of.
LEMMA RawBookType ==
    ASSUME NEW section \in [Symbol -> SignalRowType \cup {NoRow}],
           NEW scheme \in Schemes, NEW b \in Books
    PROVE  RawBook(section, scheme, b) \in [Symbol -> Int]
<1>1. ASSUME NEW s \in Symbol PROVE Raw(section[s], scheme) \in Int
  <2>1. CASE section[s] = NoRow
    BY <2>1 DEF Raw
  <2>2. CASE section[s] # NoRow
    <3>1. section[s].signal \in Int /\ section[s].invVol \in Int
      BY <2>2 DEF SignalRowType, Signs
    <3>2. section[s].signal * section[s].invVol \in Int
      BY <3>1
    <3> QED
      BY <2>2, <3>1, <3>2 DEF Raw
  <2> QED
    BY <2>1, <2>2
<1> QED
  BY <1>1 DEF RawBook

LEMMA GrossType ==
    ASSUME NEW raw \in [Symbol -> Int], NEW S \in SUBSET Symbol
    PROVE  /\ GrossOf(raw, S) \in Nat
           /\ \A s \in S : Abs(raw[s]) \in Nat /\ Abs(raw[s]) <= GrossOf(raw, S)
<1> DEFINE f == [s \in S |-> Abs(raw[s])]
<1>1. IsFiniteSet(S)
  BY WeightBookAssumption, FS_Subset
<1>2. \A s \in S : f[s] \in Nat
  BY DEF Abs
<1>3. Total(f, S) \in Nat /\ \A s \in S : f[s] <= Total(f, S)
  <2> HIDE DEF f
  <2> QED
    BY <1>1, <1>2, TotalNat
<1> QED
  BY <1>2, <1>3, GrossIsTotal

\* What Freed sums: positive for each leg over the cap.
LEMMA FreedType ==
    ASSUME NEW raw \in [Symbol -> Int], NEW cap \in Nat \X Nat
    PROVE  /\ OverCap(raw, cap) \subseteq Crypto
           /\ Freed(raw, cap) \in Nat
<1> DEFINE S == OverCap(raw, cap)
           f == [c \in S |-> Abs(raw[c]) * cap[2] - cap[1] * GrossOf(raw, Symbol)]
<1>1. S \subseteq Crypto /\ IsFiniteSet(S)
  BY WeightBookAssumption, FS_Subset DEF OverCap
<1>2. GrossOf(raw, Symbol) \in Nat /\ \A s \in Symbol : Abs(raw[s]) \in Nat
  BY GrossType
<1>3. ASSUME NEW c \in S PROVE f[c] \in Nat
  <2> DEFINE i == Abs(raw[c]) * cap[2]
             j == cap[1] * GrossOf(raw, Symbol)
  <2>1. i \in Nat /\ j \in Nat
    BY <1>1, <1>2, WeightBookAssumption
  <2>2. j < i /\ f[c] = i - j
    BY DEF OverCap
  <2> HIDE DEF i, j, f, S
  <2> QED
    BY <2>1, <2>2
<1>4. Total(f, S) \in Nat
  <2> HIDE DEF f, S
  <2> QED
    BY <1>1, <1>3, TotalNat
<1> QED
  BY <1>1, <1>4, FreedIsTotal

\* What a cap of a parameter row is.
LEMMA CapType ==
    ASSUME NEW v \in Versions, Params[v].cap # NoCap
    PROVE  /\ Params[v].cap \in Nat \X Nat
           /\ 0 < Params[v].cap[1] /\ Params[v].cap[1] <= Params[v].cap[2]
  BY WeightBookAssumption

\* The legs of a book are the ones the scheme holds, and their weights fractions.
LEMMA BookType ==
    ASSUME NEW section \in [Symbol -> SignalRowType \cup {NoRow}],
           NEW v \in Versions, NEW b \in Books
    PROVE  LET book == Book(section, Params[v], b)
               raw  == RawBook(section, Params[v].scheme, b)
           IN  /\ DOMAIN book = Legs(raw)
               /\ \A s \in DOMAIN book : book[s] \in Int \X Nat
<1> DEFINE p == Params[v]
           raw == RawBook(section, p.scheme, b)
<1>1. raw \in [Symbol -> Int]
  BY WeightBookAssumption, RawBookType
<1>2. Legs(raw) \subseteq Symbol
  BY DEF Legs
<1>3. /\ GrossOf(raw, Symbol) \in Nat /\ GrossOf(raw, Symbol \ Crypto) \in Nat
      /\ \A s \in Symbol : raw[s] \in Int
  BY <1>1, GrossType
<1>4. CASE p.cap # NoCap /\ OverCap(raw, p.cap) # {}
  <2>1. Book(section, p, b) = Capped(raw, p.cap)
    BY <1>4 DEF Book
  <2>2. p.cap[1] \in Nat /\ p.cap[2] \in Nat /\ Freed(raw, p.cap) \in Nat
    BY <1>1, <1>4, CapType, FreedType
  <2>3. ASSUME NEW s \in Legs(raw)
        PROVE  Capped(raw, p.cap)[s] \in Int \X Nat
    <3> DEFINE g == GrossOf(raw, Symbol)
               o == GrossOf(raw, Symbol \ Crypto)
               F == Freed(raw, p.cap)
    <3>1. Sgn(raw[s]) * p.cap[1] \in Int
      BY <2>2 DEF Sgn
    <3>2. raw[s] \in Int
      BY <1>2, <1>3
    <3>3. raw[s] * (o * p.cap[2] + F) \in Int /\ g * p.cap[2] * o \in Nat
      <4> HIDE DEF g, o, F, raw
      <4>1. o * p.cap[2] + F \in Int
        BY <1>3, <2>2 DEF o, F
      <4>2. g * p.cap[2] \in Nat /\ o \in Nat
        BY <1>3, <2>2 DEF g, o
      <4>3. g * p.cap[2] * o \in Nat
        BY <4>2
      <4> QED
        BY <3>2, <4>1, <4>3
    <3>4. Capped(raw, p.cap)[s] =
            IF s \in OverCap(raw, p.cap) THEN <<Sgn(raw[s]) * p.cap[1], p.cap[2]>>
            ELSE IF s \in Crypto THEN <<raw[s], g>>
            ELSE <<raw[s] * (o * p.cap[2] + F), g * p.cap[2] * o>>
      BY DEF Capped
    <3> HIDE DEF raw, p, o, F
    <3> QED
      BY <1>3, <2>2, <3>1, <3>2, <3>3, <3>4
  <2>4. DOMAIN Capped(raw, p.cap) = Legs(raw)
    BY DEF Capped
  <2> QED
    BY <2>1, <2>3, <2>4
<1>5. CASE ~ (p.cap # NoCap /\ OverCap(raw, p.cap) # {})
  <2>1. Book(section, p, b) = Uncapped(raw)
    BY <1>5 DEF Book
  <2> QED
    BY <1>2, <1>3, <2>1 DEF Uncapped
<1> QED
  BY <1>4, <1>5

\* Whatever the sign and size of a formation return, a signal row has its schema.
LEMMA SignalRowsType ==
    ASSUME TypeOK, NEW h \in Nat
    PROVE  SignalRows(h) \in [Symbol -> [Weeks -> SignalRowType \cup {NoRow}]]
<1>1. ASSUME NEW s \in Symbol, NEW w \in Weeks
      PROVE  SignalRow(s, w, h) \in SignalRowType
  <2>1. Sgn(FormationReturn(s, w, h)) \in Signs
    BY DEF Sgn, Signs
  <2>2. InvVol[s] \in Nat
    BY WeightBookAssumption
  <2> QED
    BY <2>1, <2>2 DEF SignalRow, SignalRowType
<1> QED
  BY <1>1 DEF SignalRows

\* A weight row, from the section of its week alone.
WeightRow(v, b, s, section) ==
    IF s \in DOMAIN Book(section, Params[v], b)
    THEN [weight |-> Book(section, Params[v], b)[s],
          scheme |-> Params[v].scheme, version |-> v]
    ELSE NoRow

LEMMA WeightRowOf ==
    ASSUME NEW v, NEW b \in Books, NEW s \in Symbol, NEW w \in Weeks
    PROVE  WeightRows(v)[b][s][w] = WeightRow(v, b, s, Section(w))
  BY DEF WeightRows, WeightRow

LEMMA SectionType ==
    ASSUME TypeOK, NEW w \in Weeks
    PROVE  Section(w) \in [Symbol -> SignalRowType \cup {NoRow}]
  BY DEF TypeOK, Section

LEMMA WeightRowsType ==
    ASSUME TypeOK, NEW v \in Versions
    PROVE  WeightRows(v) \in [Books -> [Symbol -> [Weeks -> WeightRowType \cup {NoRow}]]]
<1>1. ASSUME NEW b \in Books, NEW s \in Symbol, NEW w \in Weeks
      PROVE  WeightRow(v, b, s, Section(w)) \in WeightRowType \cup {NoRow}
  <2>1. \A t \in DOMAIN Book(Section(w), Params[v], b) :
          Book(Section(w), Params[v], b)[t] \in Int \X Nat
    BY SectionType, BookType
  <2>2. Params[v].scheme \in Schemes
    BY WeightBookAssumption
  <2> QED
    BY <2>1, <2>2 DEF WeightRow, WeightRowType
<1> DEFINE R(b, s, w) == WeightRow(v, b, s, Section(w))
<1>2. WeightRows(v) = [b \in Books |-> [s \in Symbol |-> [w \in Weeks |-> R(b, s, w)]]]
  BY DEF WeightRows, WeightRow
<1>3. \A b \in Books, s \in Symbol, w \in Weeks : R(b, s, w) \in WeightRowType \cup {NoRow}
  BY <1>1
<1> HIDE DEF R
<1> QED
  BY <1>2, <1>3

LEMMA TypeInit == Init => TypeOK
  BY WeightBookAssumption DEF Init, TypeOK, StageArgs

LEMMA TypeStep == TypeOK /\ [Next]_vars => TypeOK'
<1> SUFFICES ASSUME TypeOK, [Next]_vars PROVE TypeOK'
  OBVIOUS
<1> USE DEF TypeOK
<1>0. Params[active].horizon \in Nat /\ LastWeek \in Nat /\ MaxUpsets \in Nat
  BY WeightBookAssumption
<1>1. CASE NextWeek
  <2>1. now' \in 0 .. LastWeek
    BY <1>0, <1>1 DEF NextWeek
  <2> QED
    BY <1>1, <2>1 DEF NextWeek
<1>2. ASSUME NEW s \in Symbol, NEW w \in Weeks, WeekRow(s, w) \/ Revise(s, w)
      PROVE  TypeOK'
  <2>1. upsets' \in 0 .. MaxUpsets
    BY <1>0, <1>2 DEF WeekRow, Revise
  <2>2. Row(s, w)
    BY <1>2 DEF WeekRow, Revise
  <2>3. silver' \in [Symbol -> [Weeks -> Return \cup {NoRow}]]
    BY <2>2 DEF Row
  <2>4. changed' \in [Symbol -> 1 .. LastWeek + 1]
    <3>1. w \in 1 .. LastWeek + 1
      BY <1>0 DEF Weeks
    <3> QED
      BY <2>2, <3>1 DEF Row
  <2> QED
    BY <2>1, <2>2, <2>3, <2>4 DEF Row
<1>3. ASSUME NEW v \in Versions \ {active}, Promote(v) PROVE TypeOK'
  <2>1. upsets' \in 0 .. MaxUpsets
    BY <1>0, <1>3 DEF Promote
  <2>2. changed' \in [Symbol -> 1 .. LastWeek + 1]
    BY <1>0, <1>3 DEF Promote
  <2> QED
    BY <1>3, <2>1, <2>2 DEF Promote
<1>4. ASSUME NEW arg \in StageArgs, Start(arg) PROVE TypeOK'
  BY <1>4 DEF Start
<1>5. CASE TsmomSignal
  <2> DEFINE batch == SignalRows(Params[active].horizon)
  <2>1. batch \in [Symbol -> [Weeks -> SignalRowType \cup {NoRow}]]
    BY <1>0, SignalRowsType
  <2>2. fact_signals' = [s \in Symbol |-> [w \in Weeks |->
                           Upsert(fact_signals[s][w], batch[s][w])]]
    BY <1>5 DEF TsmomSignal
  <2>3. fact_signals' \in [Symbol -> [Weeks -> SignalRowType \cup {NoRow}]]
    <3> HIDE DEF batch
    <3> QED
      BY <2>1, <2>2 DEF Upsert
  <2>4. changed' \in [Symbol -> 1 .. LastWeek + 1]
    BY <1>0, <1>5 DEF TsmomSignal
  <2> QED
    BY <1>5, <2>3, <2>4 DEF TsmomSignal, EndRun, StageArgs
<1>6. CASE PortfolioWeights
  <2> DEFINE batch == WeightRows(active)
  <2>1. batch \in [Books -> [Symbol -> [Weeks -> WeightRowType \cup {NoRow}]]]
    BY WeightRowsType
  <2>2. weights' = [b \in Books |-> [s \in Symbol |-> [w \in Weeks |->
                      Upsert(weights[b][s][w], batch[b][s][w])]]]
    BY <1>6 DEF PortfolioWeights
  <2>3. weights' \in [Books -> [Symbol -> [Weeks -> WeightRowType \cup {NoRow}]]]
    <3> HIDE DEF batch
    <3> QED
      BY <2>1, <2>2 DEF Upsert
  <2> QED
    BY <1>6, <2>3 DEF PortfolioWeights, EndRun, StageArgs
<1>7. CASE Die
  BY <1>7 DEF Die, EndRun, StageArgs
<1>8. CASE UNCHANGED vars
  BY <1>8 DEF vars
<1> QED
  BY <1>1, <1>2, <1>3, <1>4, <1>5, <1>6, <1>7, <1>8 DEF Next

\* Every variable keeps its type: whatever signals and volatilities meet in a book,
\* what is stored for a leg is a fraction.
THEOREM WeightTypeCorrect == Spec => []TypeOK
  BY TypeInit, TypeStep, PTL DEF Spec

-----------------------------------------------------------------------------
(***************************************************************************)
(* What a run rewrites.                                                    *)
(***************************************************************************)
Batch == SignalRows(Params[active].horizon)

\* A leg is written for a symbol that has a signal, in the book it belongs to; and
\* where the scheme asks for a volatility, the signal's row has one.
HeldInv ==
    \A b \in Books, s \in Symbol, w \in Weeks :
        weights[b][s][w] # NoRow =>
            /\ fact_signals[s][w] # NoRow
            /\ b \/ s \notin Crypto
            /\ weights[b][s][w].scheme # "equal_weight" => fact_signals[s][w].invVol # 0

\* A stored volatility is warm, and stays so: rows of silver never vanish.
WarmInv ==
    \A s \in Symbol, w \in Weeks :
        fact_signals[s][w] # NoRow /\ fact_signals[s][w].invVol # 0 =>
            VolWarmUp <= Cardinality(RowsUpTo(s, w))

\* Before the first change since stage A ran, a run would write what is stored.
StableInv ==
    \A s \in Symbol, w \in Weeks :
        fact_signals[s][w] # NoRow /\ w < changed[s] =>
            Batch[s][w] \in {NoRow, fact_signals[s][w]}

\* Inductive.
BookInv == HeldInv /\ WarmInv /\ StableInv

LEMMA FormationIsTotal ==
    ASSUME NEW s, NEW w, NEW h
    PROVE  /\ FormationReturn(s, w, h) = Total(silver[s], Window(s, w, h))
           /\ FormationReturn(s, w, h)' = Total(silver'[s], Window(s, w, h)')
<1>1. FormationReturn(s, w, h) = Total(silver[s], Window(s, w, h))
  BY DEF FormationReturn, Total
<1>2. FormationReturn(s, w, h)' = Total(silver'[s], Window(s, w, h)')
  BY DEF FormationReturn, Total, MapThenSumSet, MapThenFoldSet
<1> QED
  BY <1>1, <1>2

\* A signal follows from the active version and the rows up to its week.
LEMMA PastSignals ==
    ASSUME active' = active, NEW s \in Symbol, NEW w \in Weeks, Weeks \subseteq Nat,
           \A v \in Weeks : v <= w => silver'[s][v] = silver[s][v]
    PROVE  Batch'[s][w] = Batch[s][w]
<1>1. RowsUpTo(s, w)' = RowsUpTo(s, w)
  BY DEF RowsUpTo
<1>0. PICK h : h = Params[active].horizon
  OBVIOUS
<1>2. Window(s, w, h)' = Window(s, w, h)
  BY <1>1 DEF Window
<1>3. FormationReturn(s, w, h)' = FormationReturn(s, w, h)
  <2> DEFINE W == Window(s, w, h)
  <2>1. \A v \in W : silver'[s][v] = silver[s][v]
    BY DEF Window, RowsUpTo
  <2>2. Total(silver'[s], W) = Total(silver[s], W)
    <3> HIDE DEF W
    <3> QED
      BY <2>1, TotalSame
  <2> QED
    BY <1>2, <2>2, FormationIsTotal
<1>4. IsLive(s, w, h)' <=> IsLive(s, w, h)
  BY <1>1 DEF IsLive
<1>5. SignalRow(s, w, h)' = SignalRow(s, w, h)
  BY <1>1, <1>3 DEF SignalRow
<1> QED
  BY <1>0, <1>4, <1>5 DEF Batch, SignalRows

\* Rows appear and change; the rows behind a volatility never become fewer.
LEMMA RowsGrow ==
    ASSUME TypeOK, [Next]_vars, NEW s \in Symbol, NEW w \in Weeks
    PROVE  Cardinality(RowsUpTo(s, w)) <= Cardinality(RowsUpTo(s, w)')
<1>1. \A v \in Weeks : silver[s][v] # NoRow => silver'[s][v] # NoRow
  <2>1. ASSUME NEW t \in Symbol, NEW u \in Weeks, Row(t, u),
               NEW v \in Weeks, silver[s][v] # NoRow
        PROVE  silver'[s][v] # NoRow
    BY <2>1, WeightBookAssumption DEF Row, TypeOK
  <2>2. CASE UNCHANGED silver
    BY <2>2
  <2> QED
    BY <2>1, <2>2 DEF Next, vars, NextWeek, WeekRow, Revise, Promote, Start,
                      TsmomSignal, PortfolioWeights, Die
<1>2. RowsUpTo(s, w) \subseteq RowsUpTo(s, w)'
  BY <1>1 DEF RowsUpTo
<1>3. IsFiniteSet(Weeks) /\ RowsUpTo(s, w)' \subseteq Weeks
  BY WeightBookAssumption, FS_Interval DEF Weeks, RowsUpTo
<1>4. IsFiniteSet(RowsUpTo(s, w)')
  BY <1>3, FS_Subset
<1> QED
  BY <1>2, <1>4, FS_Subset

\* What stage A stores.
LEMMA StageA ==
    ASSUME TypeOK, TsmomSignal, NEW s \in Symbol, NEW w \in Weeks
    PROVE  /\ fact_signals'[s][w] = Upsert(fact_signals[s][w], Batch[s][w])
           /\ Batch[s][w] # NoRow =>
                 Batch[s][w].invVol =
                    IF Cardinality(RowsUpTo(s, w)) >= VolWarmUp THEN InvVol[s] ELSE 0
           /\ Batch' = Batch
<1>1. fact_signals'[s][w] = Upsert(fact_signals[s][w], Batch[s][w])
  BY DEF TsmomSignal, Batch
<1>2. Batch[s][w] # NoRow =>
         Batch[s][w].invVol =
            IF Cardinality(RowsUpTo(s, w)) >= VolWarmUp THEN InvVol[s] ELSE 0
  BY DEF Batch, SignalRows, SignalRow
<1>3. Batch' = Batch
  <2>1. /\ active' = active /\ silver' = silver /\ Weeks \subseteq Nat
    BY WeightBookAssumption DEF TsmomSignal, Weeks
  <2>2. \A t \in Symbol, v \in Weeks : Batch'[t][v] = Batch[t][v]
    BY <2>1, PastSignals
  <2>3. PICK f, g : Batch = [t \in Symbol |-> [v \in Weeks |-> f[t][v]]]
                 /\ Batch' = [t \in Symbol |-> [v \in Weeks |-> g[t][v]]]
    <3> WITNESS Batch, Batch'
    <3> QED
      BY DEF Batch, SignalRows
  <2> QED
    BY <2>2, <2>3
<1> QED
  BY <1>1, <1>2, <1>3

\* Where a leg of a book comes from.
LEMMA LegHasSignal ==
    ASSUME TypeOK, NEW v \in Versions, NEW b \in Books, NEW s \in Symbol, NEW w \in Weeks
    PROVE  WeightRow(v, b, s, Section(w)) # NoRow <=>
             /\ fact_signals[s][w] # NoRow
             /\ b \/ s \notin Crypto
             /\ fact_signals[s][w].signal # 0
             /\ Params[v].scheme # "equal_weight" => fact_signals[s][w].invVol # 0
<1> DEFINE raw == RawBook(Section(w), Params[v].scheme, b)
           row == fact_signals[s][w]
<1>1. WeightRow(v, b, s, Section(w)) # NoRow <=> s \in Legs(raw)
  <2>1. DOMAIN Book(Section(w), Params[v], b) = Legs(raw)
    BY SectionType, BookType
  <2>2. \A t \in DOMAIN Book(Section(w), Params[v], b) :
          Book(Section(w), Params[v], b)[t] \in Int \X Nat
    BY SectionType, BookType
  <2>3. Params[v].scheme \in Schemes /\ NoRow \notin WeightRowType
    BY WeightBookAssumption
  <2> QED
    BY <2>1, <2>2, <2>3 DEF WeightRow, WeightRowType
<1>2. s \in Legs(raw) <=> raw[s] # 0
  BY DEF Legs
<1>3. raw[s] = IF s \in Crypto /\ ~ b THEN 0 ELSE Raw(row, Params[v].scheme)
  BY DEF RawBook, Section
<1>4. row # NoRow => row.signal \in Signs /\ row.invVol \in Nat
  BY DEF TypeOK, SignalRowType
<1>5. Raw(row, Params[v].scheme) # 0 <=>
        /\ row # NoRow
        /\ row.signal # 0
        /\ Params[v].scheme # "equal_weight" => row.invVol # 0
  <2>1. CASE row = NoRow
    BY <2>1 DEF Raw
  <2>2. CASE row # NoRow
    <3>1. row.signal * row.invVol # 0 <=> row.signal # 0 /\ row.invVol # 0
      BY <1>4, <2>2 DEF Signs
    <3> QED
      BY <2>2, <3>1 DEF Raw
  <2> QED
    BY <2>1, <2>2
<1> QED
  BY <1>1, <1>2, <1>3, <1>5 DEF Books

LEMMA BookInvInit == Init => BookInv
  BY DEF Init, BookInv, HeldInv, WarmInv, StableInv

\* Stage B stores legs of symbols that have a signal and, where it is asked for, a
\* volatility.
LEMMA StageB ==
    ASSUME TypeOK, PortfolioWeights,
           NEW b \in Books, NEW s \in Symbol, NEW w \in Weeks
    PROVE  /\ weights'[b][s][w] =
                Upsert(weights[b][s][w], WeightRow(active, b, s, Section(w)))
           /\ WeightRow(active, b, s, Section(w)) # NoRow =>
                WeightRow(active, b, s, Section(w)).scheme = Params[active].scheme
<1>1. weights'[b][s][w] = Upsert(weights[b][s][w], WeightRows(active)[b][s][w])
  BY DEF PortfolioWeights
<1> QED
  BY <1>1, WeightRowOf DEF WeightRow

LEMMA HeldInvStep == TypeOK /\ BookInv /\ [Next]_vars => HeldInv'
<1> SUFFICES ASSUME TypeOK, BookInv, [Next]_vars PROVE HeldInv'
  OBVIOUS
<1>1. CASE UNCHANGED <<fact_signals, weights>>
  BY <1>1 DEF BookInv, HeldInv
<1>2. CASE TsmomSignal
  <2>1. weights' = weights
    BY <1>2 DEF TsmomSignal
  <2>2. ASSUME NEW s \in Symbol, NEW w \in Weeks, fact_signals[s][w] # NoRow
        PROVE  /\ fact_signals'[s][w] # NoRow
               /\ fact_signals[s][w].invVol # 0 => fact_signals'[s][w].invVol # 0
    <3>1. fact_signals'[s][w] \in {fact_signals[s][w], Batch[s][w]} \ {NoRow}
      BY <1>2, <2>2, StageA DEF Upsert
    <3>2. CASE fact_signals'[s][w] = fact_signals[s][w]
      BY <2>2, <3>2
    <3>3. CASE fact_signals'[s][w] = Batch[s][w] /\ Batch[s][w] # NoRow
      <4>1. ASSUME fact_signals[s][w].invVol # 0
            PROVE  Batch[s][w].invVol = InvVol[s]
        <5>1. VolWarmUp <= Cardinality(RowsUpTo(s, w))
          BY <2>2, <4>1 DEF BookInv, WarmInv
        <5> QED
          BY <1>2, <3>3, <5>1, StageA
      <4>2. InvVol[s] # 0
        BY WeightBookAssumption
      <4> QED
        BY <3>3, <4>1, <4>2
    <3> QED
      BY <3>1, <3>2, <3>3
  <2> QED
    BY <2>1, <2>2 DEF BookInv, HeldInv
<1>3. CASE PortfolioWeights
  <2>1. fact_signals' = fact_signals
    BY <1>3 DEF PortfolioWeights
  <2>2. ASSUME NEW b \in Books, NEW s \in Symbol, NEW w \in Weeks,
               weights'[b][s][w] # NoRow
        PROVE  /\ fact_signals[s][w] # NoRow
               /\ b \/ s \notin Crypto
               /\ weights'[b][s][w].scheme # "equal_weight" =>
                     fact_signals[s][w].invVol # 0
    <3> DEFINE new == WeightRow(active, b, s, Section(w))
    <3>1. CASE new = NoRow
      BY <1>3, <2>2, <3>1, StageB DEF Upsert, BookInv, HeldInv
    <3>2. CASE new # NoRow
      <4>1. weights'[b][s][w] = new /\ new.scheme = Params[active].scheme
        BY <1>3, <3>2, StageB DEF Upsert
      <4>2. active \in Versions
        BY DEF TypeOK
      <4> QED
        BY <3>2, <4>1, <4>2, LegHasSignal
    <3> QED
      BY <3>1, <3>2
  <2> QED
    BY <2>1, <2>2 DEF HeldInv
<1> QED
  BY <1>1, <1>2, <1>3 DEF Next, vars, NextWeek, WeekRow, Revise, Row, Promote, Start, Die

LEMMA WarmInvStep == TypeOK /\ BookInv /\ [Next]_vars => WarmInv'
<1> SUFFICES ASSUME TypeOK, BookInv, [Next]_vars,
                    NEW s \in Symbol, NEW w \in Weeks,
                    fact_signals'[s][w] # NoRow, fact_signals'[s][w].invVol # 0
             PROVE  VolWarmUp <= Cardinality(RowsUpTo(s, w)')
  BY DEF WarmInv
<1>0. /\ VolWarmUp \in Nat
      /\ Cardinality(RowsUpTo(s, w)) \in Nat /\ Cardinality(RowsUpTo(s, w)') \in Nat
  <2>1. IsFiniteSet(Weeks)
    BY WeightBookAssumption, FS_Interval DEF Weeks
  <2>2. RowsUpTo(s, w) \subseteq Weeks /\ RowsUpTo(s, w)' \subseteq Weeks
    BY DEF RowsUpTo
  <2>3. IsFiniteSet(RowsUpTo(s, w)) /\ IsFiniteSet(RowsUpTo(s, w)')
    BY <2>1, <2>2, FS_Subset
  <2> QED
    BY <2>3, WeightBookAssumption, FS_CardinalityType
<1>1. VolWarmUp <= Cardinality(RowsUpTo(s, w))
  <2>1. CASE fact_signals'[s][w] = fact_signals[s][w]
    BY <2>1 DEF BookInv, WarmInv
  <2>2. CASE TsmomSignal /\ fact_signals'[s][w] # fact_signals[s][w]
    <3>1. fact_signals'[s][w] = Batch[s][w] /\ Batch[s][w] # NoRow
      BY <2>2, StageA DEF Upsert
    <3> QED
      BY <1>0, <2>2, <3>1, StageA
  <2> QED
    BY <2>1, <2>2 DEF Next, vars, NextWeek, WeekRow, Revise, Row, Promote, Start,
                      PortfolioWeights, Die
<1>2. Cardinality(RowsUpTo(s, w)) <= Cardinality(RowsUpTo(s, w)')
  BY RowsGrow
<1> QED
  BY <1>0, <1>1, <1>2

LEMMA StableInvStep == TypeOK /\ BookInv /\ [Next]_vars => StableInv'
<1> SUFFICES ASSUME TypeOK, BookInv, [Next]_vars,
                    NEW s \in Symbol, NEW w \in Weeks,
                    fact_signals'[s][w] # NoRow, w < changed'[s]
             PROVE  Batch'[s][w] \in {NoRow, fact_signals'[s][w]}
  BY DEF StableInv
<1>0. /\ Weeks \subseteq Nat /\ w \in Nat /\ 1 <= w
      /\ changed[s] \in Nat
  BY WeightBookAssumption DEF TypeOK, Weeks
<1>1. CASE UNCHANGED <<silver, active, changed, fact_signals>>
  <2>1. Batch'[s][w] = Batch[s][w]
    BY <1>0, <1>1, PastSignals
  <2> QED
    BY <1>1, <2>1 DEF BookInv, StableInv
<1>2. ASSUME NEW t \in Symbol, NEW u \in Weeks, Row(t, u)
      PROVE  Batch'[s][w] \in {NoRow, fact_signals'[s][w]}
  <2>1. active' = active /\ fact_signals' = fact_signals
    BY <1>2 DEF Row
  <2>2. w < changed[s] /\ (t = s => w < u)
    BY <1>0, <1>2 DEF Row, TypeOK
  <2>3. \A v \in Weeks : v <= w => silver'[s][v] = silver[s][v]
    BY <1>0, <1>2, <2>2 DEF Row, TypeOK
  <2>4. Batch'[s][w] = Batch[s][w]
    BY <1>0, <2>1, <2>3, PastSignals
  <2> QED
    BY <2>1, <2>2, <2>4 DEF BookInv, StableInv
<1>3. ASSUME NEW v \in Versions, Promote(v)
      PROVE  FALSE
  BY <1>0, <1>3 DEF Promote
<1>4. CASE TsmomSignal
  BY <1>4, StageA DEF Upsert
<1>5. \/ UNCHANGED <<silver, active, changed, fact_signals>>
      \/ \E t \in Symbol, u \in Weeks : Row(t, u)
      \/ \E v \in Versions : Promote(v)
      \/ TsmomSignal
  BY DEF Next, vars, NextWeek, WeekRow, Revise, Start, PortfolioWeights, Die
<1> QED
  BY <1>1, <1>2, <1>3, <1>4, <1>5

LEMMA BookInvHolds == Spec => [](TypeOK /\ BookInv)
<1>1. TypeOK /\ BookInv /\ [Next]_vars => BookInv'
  BY HeldInvStep, WarmInvStep, StableInvStep DEF BookInv
<1> QED
  BY <1>1, TypeInit, TypeStep, BookInvInit, PTL DEF Spec

\* Whatever changed since a book was stored, by a leg that joined its week late, a
\* revision, a promotion or runs cut short: stage B brings every leg of it up to
\* date whose signal is not exactly zero and whose scheme is still the active one.
THEOREM StoredIsCurrentHolds == Spec => StoredIsCurrent
<1> DEFINE Current == PortfolioWeights =>
              \A b \in Books, s \in Symbol, w \in Weeks :
                  /\ weights[b][s][w] # NoRow
                  /\ weights[b][s][w].scheme = Params[active].scheme
                  /\ fact_signals[s][w].signal # 0
                  => weights'[b][s][w] = WeightRows(active)[b][s][w]
<1>1. TypeOK /\ BookInv => Current
  <2> SUFFICES ASSUME TypeOK, BookInv, PortfolioWeights,
                      NEW b \in Books, NEW s \in Symbol, NEW w \in Weeks,
                      weights[b][s][w] # NoRow,
                      weights[b][s][w].scheme = Params[active].scheme,
                      fact_signals[s][w].signal # 0
               PROVE  weights'[b][s][w] = WeightRows(active)[b][s][w]
    OBVIOUS
  <2>1. /\ fact_signals[s][w] # NoRow
        /\ b \/ s \notin Crypto
        /\ Params[active].scheme # "equal_weight" => fact_signals[s][w].invVol # 0
    BY DEF BookInv, HeldInv
  <2>2. WeightRow(active, b, s, Section(w)) # NoRow
    BY <2>1, LegHasSignal DEF TypeOK
  <2>3. weights'[b][s][w] = WeightRow(active, b, s, Section(w))
    BY <2>2, StageB DEF Upsert
  <2> QED
    BY <2>3, WeightRowOf
<1> QED
  BY <1>1, BookInvHolds, PTL DEF StoredIsCurrent

\* However many weeks have closed and legs have joined since, no run rewrites a
\* signal with another value unless a row of its symbol up to its week changed, or a
\* version was promoted, since the stage last ran.
THEOREM HistoryIsStableHolds == Spec => HistoryIsStable
<1> DEFINE Stable == \A s \in Symbol, w \in Weeks :
              fact_signals[s][w] # NoRow /\ w < changed[s] =>
                  fact_signals'[s][w] = fact_signals[s][w]
<1>1. TypeOK /\ BookInv /\ [Next]_vars => [Stable]_vars
  <2> SUFFICES ASSUME TypeOK, BookInv, [Next]_vars PROVE Stable
    OBVIOUS
  <2>1. CASE TsmomSignal
    BY <2>1, StageA DEF BookInv, StableInv, Upsert
  <2>2. CASE ~ TsmomSignal
    <3>1. fact_signals' = fact_signals
      BY <2>2 DEF Next, NextWeek, WeekRow, Revise, Row, Promote, Start,
                  PortfolioWeights, Die, vars
    <3> QED
      BY <3>1
  <2> QED
    BY <2>1, <2>2
<1> QED
  BY <1>1, BookInvHolds, PTL DEF Spec, HistoryIsStable

-----------------------------------------------------------------------------
(***************************************************************************)
(* Books.                                                                  *)
(***************************************************************************)
LEMMA CommonDenIsProduct ==
    ASSUME NEW book
    PROVE  CommonDen(book) = Product([s \in DOMAIN book |-> book[s][2]], DOMAIN book)
<1> DEFINE S == DOMAIN book
           f == [s \in S |-> book[s][2]]
           A(it) == [T \in SUBSET S |->
                IF T = {} THEN 1
                ELSE book[CHOOSE x \in T : TRUE][2] * it[T \ {CHOOSE x \in T : TRUE}]]
           B(it) == [T \in SUBSET S |->
                IF T = {} THEN 1
                ELSE f[CHOOSE x \in T : TRUE] * it[T \ {CHOOSE x \in T : TRUE}]]
<1>1. \A it : A(it) = B(it)
  <2> HIDE DEF S
  <2> QED
    OBVIOUS
<1>2. (CHOOSE it : it = A(it)) = (CHOOSE it : it = B(it))
  <2> HIDE DEF A, B
  <2> QED
    BY <1>1, Zenon
<1>3. CommonDen(book) = (CHOOSE it : it = A(it))[S]
  BY DEF CommonDen, FoldSet, MapThenFoldSet
<1>4. Product(f, S) = (CHOOSE it : it = B(it))[S]
  BY DEF Product, FoldSet, MapThenFoldSet
<1> QED
  BY <1>2, <1>3, <1>4

LEMMA GrossWeightIsTotal ==
    ASSUME NEW book
    PROVE  GrossWeight(book) =
             Total([s \in DOMAIN book |->
                      Abs(book[s][1]) * (CommonDen(book) \div book[s][2])], DOMAIN book)
<1> DEFINE S == DOMAIN book
           f == [s \in S |-> Abs(book[s][1]) * (CommonDen(book) \div book[s][2])]
           A(it) == [T \in SUBSET S |->
                IF T = {} THEN 0
                ELSE Abs(book[CHOOSE x \in T : TRUE][1])
                       * (CommonDen(book) \div book[CHOOSE x \in T : TRUE][2])
                     + it[T \ {CHOOSE x \in T : TRUE}]]
           B(it) == [T \in SUBSET S |->
                IF T = {} THEN 0
                ELSE f[CHOOSE x \in T : TRUE] + it[T \ {CHOOSE x \in T : TRUE}]]
<1>1. \A it : A(it) = B(it)
  <2> HIDE DEF S
  <2> QED
    OBVIOUS
<1>2. (CHOOSE it : it = A(it)) = (CHOOSE it : it = B(it))
  <2> HIDE DEF A, B
  <2> QED
    BY <1>1, Zenon
<1>3. GrossWeight(book) = (CHOOSE it : it = A(it))[S]
  BY DEF GrossWeight, MapThenSumSet, MapThenFoldSet
<1>4. Total(f, S) = (CHOOSE it : it = B(it))[S]
  BY DEF Total, MapThenSumSet, MapThenFoldSet
<1> QED
  BY <1>2, <1>3, <1>4

LEMMA Quotient ==
    ASSUME NEW n \in Int, NEW i \in Nat \ {0}
    PROVE  n = i * (n \div i) + (n % i)
  BY Z3T(30)

\* A quotient without remainder.
LEMMA ExactQuotient ==
    ASSUME NEW i \in Nat \ {0}, NEW q \in Nat
    PROVE  (i * q) \div i = q
<1> DEFINE n == i * q
           d == n \div i
<1>1. n \in Nat
  OBVIOUS
<1>2. d \in Nat /\ n = i * d + (n % i) /\ n % i \in 0 .. i - 1
  <2> HIDE DEF n
  <2>1. d \in Nat /\ n % i \in 0 .. i - 1
    BY <1>1
  <2> QED
    BY <1>1, <2>1, Quotient
<1>3. n = i * q
  OBVIOUS
<1> HIDE DEF d, n
<1>4. d <= q
  <2> SUFFICES ASSUME q + 1 <= d PROVE FALSE
    BY <1>2
  <2>1. PICK k \in Nat : d = q + 1 + k
    <3>1. d - (q + 1) \in Nat /\ d = q + 1 + (d - (q + 1))
      BY <1>2
    <3> QED
      BY <3>1
  <2>2. i * d = i * q + i + i * k /\ i * k \in Nat
    BY <2>1
  <2> QED
    BY <1>1, <1>2, <1>3, <2>2
<1>5. q <= d
  <2> SUFFICES ASSUME d + 1 <= q PROVE FALSE
    BY <1>2
  <2>1. PICK k \in Nat : q = d + 1 + k
    <3>1. q - (d + 1) \in Nat /\ q = d + 1 + (q - (d + 1))
      BY <1>2
    <3> QED
      BY <3>1
  <2>2. i * q = i * d + i + i * k /\ i * k \in Nat /\ i * d \in Nat
    BY <1>2, <2>1
  <2> QED
    BY <1>1, <1>2, <1>3, <2>2
<1> QED
  BY <1>2, <1>4, <1>5 DEF d, n

\* The gross weight is 1 when it is on a common denominator N of the weights that one
\* of them has.
LEMMA Invested ==
    ASSUME NEW book, IsFiniteSet(DOMAIN book),
           \A s \in DOMAIN book : book[s][1] \in Int /\ book[s][2] \in Nat \ {0},
           NEW N \in Nat \ {0}, \E s \in DOMAIN book : book[s][2] = N,
           NEW m \in [DOMAIN book -> Nat],
           \A s \in DOMAIN book : N = book[s][2] * m[s],
           NEW t, \A s \in DOMAIN book : t[s] = Abs(book[s][1]) * m[s],
           Total(t, DOMAIN book) = N
    PROVE  GrossWeight(book) = CommonDen(book)
<1> DEFINE S == DOMAIN book
           D == CommonDen(book)
           den == [s \in S |-> book[s][2]]
           f == [s \in S |-> Abs(book[s][1]) * (D \div book[s][2])]
<1>1. PICK q \in Nat \ {0} : D = N * q
  <2>1. \A s \in S : \E q \in Nat \ {0} : Product(den, S) = den[s] * q
    <3>1. \A s \in S : den[s] \in Nat \ {0}
      OBVIOUS
    <3> HIDE DEF den
    <3> QED
      BY <3>1, ProductNat
  <2> QED
    BY <2>1, CommonDenIsProduct
<1> HIDE DEF D
<1>2. ASSUME NEW s \in S PROVE t[s] \in Int /\ f[s] = q * t[s]
  <2> DEFINE i == book[s][2]
             a == Abs(book[s][1])
             k == m[s]
  <2>1. i \in Nat \ {0} /\ a \in Nat /\ k \in Nat /\ N = i * k /\ t[s] = a * k
    BY DEF Abs
  <2>2. f[s] = a * (D \div i)
    OBVIOUS
  <2> HIDE DEF i, a, k, f
  <2>3. k * q \in Nat /\ D = i * (k * q)
    BY <1>1, <2>1
  <2>4. D \div i = k * q
    BY <2>1, <2>3, ExactQuotient
  <2>5. a * (k * q) = q * (a * k) /\ a * k \in Int
    BY <2>1
  <2> QED
    BY <2>1, <2>2, <2>4, <2>5
<1>3. Total(f, S) = q * Total(t, S)
  <2> HIDE DEF f
  <2> QED
    BY <1>2, TotalTimes
<1>4. GrossWeight(book) = Total(f, S)
  BY GrossWeightIsTotal DEF D
<1> HIDE DEF f
<1> QED
  BY <1>1, <1>3, <1>4 DEF D

\* What the rest of this section is about: the legs of a book, before normalising.
IsRaw(raw) == raw \in [Symbol -> Int]
IsCap(cap) == cap \in Nat \X Nat /\ 0 < cap[1] /\ cap[1] <= cap[2]

\* Only a held leg can be over the cap.
LEMMA OverIsLeg ==
    ASSUME NEW raw, IsRaw(raw), NEW cap, IsCap(cap)
    PROVE  OverCap(raw, cap) \subseteq Legs(raw) \cap Crypto
<1> SUFFICES ASSUME NEW c \in OverCap(raw, cap) PROVE raw[c] # 0 /\ c \in Symbol /\ c \in Crypto
  BY DEF Legs
<1>1. c \in Symbol /\ c \in Crypto /\ Abs(raw[c]) * cap[2] > cap[1] * GrossOf(raw, Symbol)
  BY WeightBookAssumption DEF OverCap
<1>2. GrossOf(raw, Symbol) \in Nat /\ cap[1] \in Nat /\ cap[2] \in Nat
  BY GrossType DEF IsRaw, IsCap
<1>3. cap[1] * GrossOf(raw, Symbol) \in Nat
  BY <1>2
<1>4. ASSUME raw[c] = 0 PROVE FALSE
  <2>1. Abs(raw[c]) * cap[2] = 0
    BY <1>2, <1>4 DEF Abs
  <2> QED
    BY <1>1, <1>3, <2>1
<1> QED
  BY <1>1, <1>4

\* The gross is that of the legs, and of no less than any leg.
LEMMA GrossOfLegs ==
    ASSUME NEW raw, IsRaw(raw)
    PROVE  /\ IsFiniteSet(Legs(raw))
           /\ GrossOf(raw, Symbol) = Total([s \in Symbol |-> Abs(raw[s])], Legs(raw))
           /\ Legs(raw) # {} => GrossOf(raw, Symbol) > 0
           /\ Legs(raw) \ Crypto # {} => GrossOf(raw, Symbol \ Crypto) > 0
<1> DEFINE f == [s \in Symbol |-> Abs(raw[s])]
<1>1. /\ IsFiniteSet(Symbol) /\ IsFiniteSet(Legs(raw))
      /\ Legs(raw) \in SUBSET Symbol
  BY WeightBookAssumption, FS_Subset DEF Legs
<1>2. \A s \in Symbol : f[s] \in Int /\ (s \notin Legs(raw) => f[s] = 0)
  BY DEF IsRaw, Legs, Abs
<1>3. GrossOf(raw, Symbol) = Total(f, Symbol)
  BY GrossIsTotal
<1>4. Total(f, Symbol) = Total(f, Legs(raw))
  <2> HIDE DEF f
  <2> QED
    BY <1>1, <1>2, TotalWithin
<1>5. \A s \in Legs(raw) : Abs(raw[s]) > 0
  BY DEF IsRaw, Legs, Abs
<1>6. ASSUME NEW S \in SUBSET Symbol, NEW s \in S, s \in Legs(raw)
      PROVE  GrossOf(raw, S) > 0
  <2>1. GrossOf(raw, S) \in Nat /\ Abs(raw[s]) \in Nat /\ Abs(raw[s]) <= GrossOf(raw, S)
    BY <1>6, GrossType DEF IsRaw
  <2> QED
    BY <1>5, <1>6, <2>1
<1> QED
  BY <1>1, <1>3, <1>4, <1>6

\* A book without a binding cap is fully invested.
LEMMA UncappedInvested ==
    ASSUME NEW raw, IsRaw(raw), Legs(raw) # {}
    PROVE  GrossWeight(Uncapped(raw)) = CommonDen(Uncapped(raw))
<1> DEFINE book == Uncapped(raw)
           g == GrossOf(raw, Symbol)
           m == [s \in DOMAIN book |-> 1]
           t == [s \in Symbol |-> Abs(raw[s])]
<1>1. DOMAIN book = Legs(raw) /\ \A s \in Legs(raw) : book[s] = <<raw[s], g>>
  BY DEF Uncapped
<1>2. IsFiniteSet(DOMAIN book) /\ g \in Nat \ {0} /\ Total(t, DOMAIN book) = g
  BY <1>1, GrossOfLegs, GrossType DEF IsRaw
<1>3. \A s \in DOMAIN book :
        /\ s \in Symbol /\ raw[s] \in Int /\ Abs(raw[s]) \in Nat
        /\ book[s][1] = raw[s] /\ book[s][2] = g
        /\ m[s] = 1 /\ t[s] = Abs(raw[s])
  BY <1>1 DEF Legs, IsRaw, Abs
<1>4. m \in [DOMAIN book -> Nat]
  OBVIOUS
<1> HIDE DEF m, t, book, g
<1>5. \A s \in DOMAIN book : g = book[s][2] * m[s] /\ t[s] = Abs(book[s][1]) * m[s]
  BY <1>2, <1>3
<1>6. \E s \in DOMAIN book : book[s][2] = g
  BY <1>1, <1>3
<1>7. \A s \in DOMAIN book : book[s][1] \in Int /\ book[s][2] \in Nat \ {0}
  BY <1>2, <1>3
<1>8. GrossWeight(book) = CommonDen(book)
  BY <1>2, <1>4, <1>5, <1>6, <1>7, Invested
<1> QED
  BY <1>8 DEF book

\* The sizes of the capped legs on the common denominator gross * cap[2] * others: what
\* the cap takes from the crypto legs is what the others get.
LEMMA CappedSizes ==
    ASSUME NEW raw, IsRaw(raw), NEW cap, IsCap(cap)
    PROVE  LET g == GrossOf(raw, Symbol)
               o == GrossOf(raw, Symbol \ Crypto)
               F == Freed(raw, cap)
               t == [s \in Symbol |->
                       IF s \in OverCap(raw, cap) THEN cap[1] * (g * o)
                       ELSE IF s \in Crypto THEN Abs(raw[s]) * (cap[2] * o)
                       ELSE Abs(raw[s]) * (o * cap[2] + F)]
           IN  Total(t, Legs(raw)) = g * cap[2] * o
<1> DEFINE g == GrossOf(raw, Symbol)
           o == GrossOf(raw, Symbol \ Crypto)
           F == Freed(raw, cap)
           over == OverCap(raw, cap)
           t == [s \in Symbol |->
                   IF s \in over THEN cap[1] * (g * o)
                   ELSE IF s \in Crypto THEN Abs(raw[s]) * (cap[2] * o)
                   ELSE Abs(raw[s]) * (o * cap[2] + F)]
           size == [s \in Symbol |-> Abs(raw[s])]
           cut  == [s \in Symbol |->
                     IF s \in over THEN Abs(raw[s]) * cap[2] - cap[1] * g ELSE 0]
           pure == [s \in Symbol |-> IF s \in Crypto THEN 0 ELSE Abs(raw[s])]
           a == [s \in Symbol |-> (o * cap[2]) * size[s]]
           b == [s \in Symbol |-> (-o) * cut[s]]
           c == [s \in Symbol |-> F * pure[s]]
           ab == [s \in Symbol |-> a[s] + b[s]]
<1>1. /\ g \in Nat /\ o \in Nat /\ F \in Nat
      /\ cap[1] \in Nat /\ cap[2] \in Nat /\ cap[2] > 0
      /\ IsFiniteSet(Symbol) /\ Crypto \subseteq Symbol
      /\ over \subseteq Legs(raw) \cap Crypto /\ Legs(raw) \subseteq Symbol
  BY WeightBookAssumption, GrossType, FreedType, OverIsLeg DEF IsRaw, IsCap, Legs
<1>2. \A s \in Symbol : /\ Abs(raw[s]) \in Nat
                        /\ s \notin Legs(raw) => Abs(raw[s]) = 0
  BY DEF IsRaw, Legs, Abs
<1>3. Total(size, Symbol) = g
  BY GrossIsTotal
<1>4. Total(pure, Symbol) = o
  <2>1. Symbol \ Crypto \in SUBSET Symbol
    OBVIOUS
  <2>2. \A s \in Symbol : pure[s] \in Int
    BY <1>2
  <2>3. \A s \in Symbol \ (Symbol \ Crypto) : pure[s] = 0
    OBVIOUS
  <2>4. Total(pure, Symbol) = Total(pure, Symbol \ Crypto)
    <3> HIDE DEF pure
    <3> QED
      BY <1>1, <2>1, <2>2, <2>3, TotalWithin
  <2> DEFINE own == [s \in Symbol \ Crypto |-> Abs(raw[s])]
  <2>5. \A s \in Symbol \ Crypto : pure[s] = own[s]
    OBVIOUS
  <2>6. Total(pure, Symbol \ Crypto) = Total(own, Symbol \ Crypto)
    <3> HIDE DEF pure, own
    <3> QED
      BY <2>5, TotalSame
  <2> QED
    BY <2>4, <2>6, GrossIsTotal
<1>5. \A s \in Symbol : cut[s] \in Int
  BY <1>1, <1>2
<1>6. Total(cut, Symbol) = F
  <2>1. over \in SUBSET Symbol
    BY <1>1
  <2>2. \A s \in Symbol \ over : cut[s] = 0
    <3> HIDE DEF over
    <3> QED
      OBVIOUS
  <2>3. Total(cut, Symbol) = Total(cut, over)
    <3> HIDE DEF cut, over
    <3> QED
      BY <1>1, <1>5, <2>1, <2>2, TotalWithin
  <2> DEFINE own == [s \in over |-> Abs(raw[s]) * cap[2] - cap[1] * g]
  <2>4. \A s \in over : cut[s] = own[s]
    <3> HIDE DEF over, g
    <3> QED
      BY <2>1
  <2>5. Total(cut, over) = Total(own, over)
    <3> HIDE DEF cut, own, over
    <3> QED
      BY <2>4, TotalSame
  <2> QED
    BY <2>3, <2>5, FreedIsTotal
<1> HIDE DEF g, o, F, over
<1>7. \A s \in Symbol : size[s] \in Int /\ pure[s] \in Int
  BY <1>2
<1>8. /\ o * cap[2] \in Int /\ -o \in Int /\ F \in Int
  BY <1>1
<1>9. /\ Total(a, Symbol) = (o * cap[2]) * g
      /\ Total(b, Symbol) = (-o) * F
      /\ Total(c, Symbol) = F * o
  <2>1. \A s \in Symbol : /\ a[s] = (o * cap[2]) * size[s]
                          /\ b[s] = (-o) * cut[s]
                          /\ c[s] = F * pure[s]
    BY Zenon
  <2> HIDE DEF a, b, c, size, cut, pure
  <2>2. Total(a, Symbol) = (o * cap[2]) * Total(size, Symbol)
    BY <1>1, <1>7, <1>8, <2>1, TotalTimes
  <2>3. Total(b, Symbol) = (-o) * Total(cut, Symbol)
    BY <1>1, <1>5, <1>8, <2>1, TotalTimes
  <2>4. Total(c, Symbol) = F * Total(pure, Symbol)
    BY <1>1, <1>7, <1>8, <2>1, TotalTimes
  <2> QED
    BY <1>3, <1>4, <1>6, <2>2, <2>3, <2>4
<1>10. \A s \in Symbol : a[s] \in Int /\ b[s] \in Int /\ c[s] \in Int
  <2> SUFFICES ASSUME NEW s \in Symbol PROVE a[s] \in Int /\ b[s] \in Int /\ c[s] \in Int
    OBVIOUS
  <2>1. size[s] \in Int /\ pure[s] \in Int /\ cut[s] \in Int
    BY <1>5, <1>7
  <2>2. a[s] = (o * cap[2]) * size[s] /\ b[s] = (-o) * cut[s] /\ c[s] = F * pure[s]
    BY Zenon
  <2> HIDE DEF a, b, c, size, cut, pure
  <2> QED
    BY <1>8, <2>1, <2>2
<1>11. ASSUME NEW s \in Symbol PROVE t[s] = ab[s] + c[s]
  <2> DEFINE x == Abs(raw[s])
             k == cap[2]
             l == cap[1]
  <2>1. x \in Nat /\ k \in Nat /\ l \in Nat /\ o \in Nat /\ g \in Nat /\ F \in Nat
    BY <1>1, <1>2
  <2>2. CASE s \in over
    <3>1. /\ t[s] = l * (g * o) /\ ab[s] = (o * k) * x + (-o) * (x * k - l * g)
          /\ c[s] = F * 0
      BY <1>1, <2>2
    <3> HIDE DEF t, ab, c, x, k, l
    <3>2. (-o) * (x * k - l * g) = l * (g * o) - (o * k) * x
      BY <2>1
    <3>3. l * (g * o) \in Int /\ (o * k) * x \in Int /\ F * 0 = 0
      BY <2>1
    <3> QED
      BY <3>1, <3>2, <3>3
  <2>3. CASE s \notin over /\ s \in Crypto
    <3>1. t[s] = x * (k * o) /\ ab[s] = (o * k) * x + (-o) * 0 /\ c[s] = F * 0
      BY <2>3
    <3> HIDE DEF t, ab, c, x, k, l
    <3>2. x * (k * o) = (o * k) * x /\ (-o) * 0 = 0 /\ F * 0 = 0 /\ (o * k) * x \in Int
      BY <2>1
    <3> QED
      BY <3>1, <3>2
  <2>4. CASE s \notin over /\ s \notin Crypto
    <3>1. t[s] = x * (o * k + F) /\ ab[s] = (o * k) * x + (-o) * 0 /\ c[s] = F * x
      BY <2>4
    <3> HIDE DEF t, ab, c, x, k, l
    <3>2. /\ x * (o * k + F) = (o * k) * x + F * x /\ (-o) * 0 = 0
          /\ (o * k) * x \in Int /\ F * x \in Int
      BY <2>1
    <3> QED
      BY <3>1, <3>2
  <2> QED
    BY <2>2, <2>3, <2>4
<1>12. Total(t, Symbol) = g * cap[2] * o
  <2>1. Total(ab, Symbol) = Total(a, Symbol) + Total(b, Symbol)
    <3>1. \A s \in Symbol : ab[s] = a[s] + b[s]
      BY Zenon
    <3> HIDE DEF a, b, ab
    <3> QED
      BY <1>1, <1>10, <3>1, TotalPlus
  <2>2. Total(t, Symbol) = Total(ab, Symbol) + Total(c, Symbol)
    <3>1. \A s \in Symbol : ab[s] \in Int
      <4>1. \A s \in Symbol : ab[s] = a[s] + b[s]
        BY Zenon
      <4> HIDE DEF a, b, ab
      <4> QED
        BY <1>10, <4>1
    <3> HIDE DEF ab, c, t
    <3> QED
      BY <1>1, <1>10, <1>11, <3>1, TotalPlus
  <2> HIDE DEF t, ab, a, b, c
  <2>3. /\ (o * cap[2]) * g \in Int /\ (-o) * F = - (o * F) /\ F * o = o * F
        /\ o * F \in Int /\ (o * cap[2]) * g = g * cap[2] * o
    BY <1>1
  <2> QED
    BY <1>9, <2>1, <2>2, <2>3
<1>13. ASSUME NEW s \in Symbol PROVE t[s] \in Int /\ (s \notin Legs(raw) => t[s] = 0)
  <2> DEFINE x == Abs(raw[s])
  <2>1. x \in Nat /\ (s \notin Legs(raw) => x = 0 /\ s \notin over)
    BY <1>1, <1>2
  <2>2. t[s] \in {cap[1] * (g * o), x * (cap[2] * o), x * (o * cap[2] + F)}
    BY Zenon
  <2>3. s \notin over => t[s] \in {x * (cap[2] * o), x * (o * cap[2] + F)}
    BY Zenon
  <2> HIDE DEF t, x
  <2>4. /\ cap[1] * (g * o) \in Int /\ x * (cap[2] * o) \in Int
        /\ x * (o * cap[2] + F) \in Int
    <3>1. g * o \in Int /\ cap[2] * o \in Int /\ o * cap[2] + F \in Int
      BY <1>1
    <3> QED
      BY <1>1, <2>1, <3>1
  <2>5. x = 0 => x * (cap[2] * o) = 0 /\ x * (o * cap[2] + F) = 0
    BY <1>1
  <2> QED
    BY <2>1, <2>2, <2>3, <2>4, <2>5
<1>14. Total(t, Symbol) = Total(t, Legs(raw))
  <2>1. Legs(raw) \in SUBSET Symbol
    BY <1>1
  <2> HIDE DEF t
  <2> QED
    BY <1>1, <1>13, <2>1, TotalWithin
<1>15. Total(t, Legs(raw)) = g * cap[2] * o
  BY <1>12, <1>14
<1> QED
  BY <1>15 DEF g, o, F, over

\* A capped book is fully invested, if a leg can take what the cap frees.
LEMMA CappedInvested ==
    ASSUME NEW raw, IsRaw(raw), NEW cap, IsCap(cap), Legs(raw) \ Crypto # {}
    PROVE  GrossWeight(Capped(raw, cap)) = CommonDen(Capped(raw, cap))
<1> DEFINE g == GrossOf(raw, Symbol)
           o == GrossOf(raw, Symbol \ Crypto)
           F == Freed(raw, cap)
           over == OverCap(raw, cap)
           k == cap[1]
           l == cap[2]
           N == g * l * o
           book == Capped(raw, cap)
           m == [s \in Legs(raw) |->
                   IF s \in over THEN g * o ELSE IF s \in Crypto THEN l * o ELSE 1]
           t == [s \in Symbol |->
                   IF s \in over THEN k * (g * o)
                   ELSE IF s \in Crypto THEN Abs(raw[s]) * (l * o)
                   ELSE Abs(raw[s]) * (o * l + F)]
<1>1. /\ g \in Nat \ {0} /\ o \in Nat \ {0} /\ F \in Nat
      /\ k \in Nat /\ l \in Nat \ {0}
      /\ over \subseteq Legs(raw) \cap Crypto
      /\ IsFiniteSet(Legs(raw))
  <2>1. g > 0 /\ o > 0 /\ IsFiniteSet(Legs(raw))
    BY GrossOfLegs
  <2>2. g \in Nat /\ o \in Nat /\ F \in Nat
    BY GrossType, FreedType DEF IsRaw, IsCap
  <2>3. k \in Nat /\ l \in Nat \ {0}
    BY DEF IsCap
  <2>4. over \subseteq Legs(raw) \cap Crypto
    BY OverIsLeg
  <2> QED
    BY <2>1, <2>2, <2>3, <2>4
<1>2. \A s \in Legs(raw) : s \in Symbol /\ raw[s] \in Int /\ raw[s] # 0
  BY DEF Legs, IsRaw
<1>3. /\ DOMAIN book = Legs(raw)
      /\ \A s \in Legs(raw) : book[s] =
           IF s \in over THEN <<Sgn(raw[s]) * k, l>>
           ELSE IF s \in Crypto THEN <<raw[s], g>>
           ELSE <<raw[s] * (o * l + F), N>>
  BY DEF Capped
<1>4. Total(t, Legs(raw)) = N
  BY CappedSizes
<1> HIDE DEF g, o, F, over, k, l, book
<1>5. N \in Nat \ {0} /\ g * o \in Nat /\ l * o \in Nat /\ o * l + F \in Nat
  <2>1. g * l \in Nat \ {0} /\ o * l \in Nat /\ g * o \in Nat /\ l * o \in Nat
    BY <1>1
  <2>2. (g * l) * o \in Nat \ {0}
    BY <1>1, <2>1
  <2> QED
    BY <1>1, <2>1, <2>2
<1>6. m \in [Legs(raw) -> Nat]
  BY <1>5
<1>7. \E s \in Legs(raw) : book[s][2] = N
  <2>1. PICK s \in Legs(raw) : s \notin Crypto
    OBVIOUS
  <2>2. book[s] = <<raw[s] * (o * l + F), N>>
    BY <1>1, <1>3, <2>1
  <2> HIDE DEF N
  <2> QED
    BY <2>2
<1>8. ASSUME NEW s \in Legs(raw)
      PROVE  /\ book[s][1] \in Int /\ book[s][2] \in Nat \ {0}
             /\ N = book[s][2] * m[s]
             /\ t[s] = Abs(book[s][1]) * m[s]
  <2> DEFINE x == raw[s]
  <2>0. x \in Int /\ x # 0 /\ s \in Symbol
    BY <1>2
  <2>1. CASE s \in over
    <3>1. book[s] = <<Sgn(x) * k, l>> /\ m[s] = g * o /\ t[s] = k * (g * o)
      BY <1>3, <2>0, <2>1
    <3> HIDE DEF x, m, t
    <3>2. Sgn(x) * k \in Int /\ Abs(Sgn(x) * k) = k
      BY <1>1, <2>0 DEF Sgn, Abs
    <3>3. N = l * (g * o)
      BY <1>1
    <3> HIDE DEF N
    <3> QED
      BY <1>1, <3>1, <3>2, <3>3
  <2>2. CASE s \notin over /\ s \in Crypto
    <3>1. book[s] = <<x, g>> /\ m[s] = l * o /\ t[s] = Abs(x) * (l * o)
      BY <1>3, <2>0, <2>2
    <3>2. N = g * (l * o)
      BY <1>1
    <3> HIDE DEF x, m, t, N
    <3> QED
      BY <1>1, <2>0, <3>1, <3>2
  <2>3. CASE s \notin over /\ s \notin Crypto
    <3> DEFINE q == o * l + F
    <3>1. book[s] = <<x * q, N>> /\ m[s] = 1 /\ t[s] = Abs(x) * q
      BY <1>3, <2>0, <2>3
    <3>2. q \in Nat /\ N \in Nat \ {0}
      BY <1>5
    <3> HIDE DEF x, m, t, N, q
    <3>3. x * q \in Int
      BY <2>0, <3>2
    <3>4. Abs(x * q) = Abs(x) * q
      <4>1. CASE x < 0
        <5>1. x * q = - ((-x) * q) /\ (-x) * q \in Nat
          BY <2>0, <3>2, <4>1
        <5> QED
          BY <3>3, <4>1, <5>1 DEF Abs
      <4>2. CASE ~ (x < 0)
        <5>1. x * q \in Nat
          BY <2>0, <3>2, <4>2
        <5> QED
          BY <4>2, <5>1 DEF Abs
      <4> QED
        BY <4>1, <4>2
    <3>5. Abs(x * q) \in Int
      BY <3>3 DEF Abs
    <3> QED
      BY <3>1, <3>2, <3>3, <3>4, <3>5
  <2> QED
    BY <2>1, <2>2, <2>3
<1>9. GrossWeight(book) = CommonDen(book)
  <2> HIDE DEF N, m, t
  <2> QED
    BY <1>1, <1>3, <1>4, <1>5, <1>6, <1>7, <1>8, Invested
<1> QED
  BY <1>9 DEF book

\* The parts of BooksSound, for one book of any section.
LEMMA BookInvested ==
    ASSUME NEW section \in [Symbol -> SignalRowType \cup {NoRow}],
           NEW v \in Versions, NEW b \in Books
    PROVE  FullyInvested(Book(section, Params[v], b))
<1> DEFINE p == Params[v]
           raw == RawBook(section, p.scheme, b)
           book == Book(section, p, b)
<1>1. IsRaw(raw)
  BY WeightBookAssumption, RawBookType DEF IsRaw
<1>2. DOMAIN book = Legs(raw)
  BY BookType
<1>3. SUFFICES ASSUME Legs(raw) \ Crypto # {}
               PROVE  GrossWeight(book) = CommonDen(book)
  BY <1>2 DEF FullyInvested
<1>4. CASE p.cap # NoCap /\ OverCap(raw, p.cap) # {}
  <2>1. book = Capped(raw, p.cap) /\ IsCap(p.cap)
    BY <1>4, CapType DEF Book, IsCap
  <2> QED
    BY <1>1, <1>3, <2>1, CappedInvested
<1>5. CASE ~ (p.cap # NoCap /\ OverCap(raw, p.cap) # {})
  <2>1. book = Uncapped(raw)
    BY <1>5 DEF Book
  <2> QED
    BY <1>1, <1>3, <2>1, UncappedInvested
<1> QED
  BY <1>4, <1>5

LEMMA BookWithinCap ==
    ASSUME NEW section \in [Symbol -> SignalRowType \cup {NoRow}],
           NEW v \in Versions, NEW b \in Books
    PROVE  WithinCap(Book(section, Params[v], b), Params[v].cap)
<1> DEFINE p == Params[v]
           raw == RawBook(section, p.scheme, b)
           book == Book(section, p, b)
           g == GrossOf(raw, Symbol)
           k == p.cap[1]
           l == p.cap[2]
<1>1. IsRaw(raw)
  BY WeightBookAssumption, RawBookType DEF IsRaw
<1>2. DOMAIN book = Legs(raw)
  BY BookType
<1>3. SUFFICES ASSUME p.cap # NoCap, NEW c \in Legs(raw), c \in Crypto
               PROVE  Abs(book[c][1]) * l <= k * book[c][2]
  BY <1>2 DEF WithinCap
<1>4. k \in Nat /\ l \in Nat /\ IsCap(p.cap) /\ g \in Nat
  BY <1>1, <1>3, CapType, GrossType DEF IsCap, IsRaw
<1>5. c \in Symbol /\ raw[c] \in Int /\ raw[c] # 0
  BY <1>1 DEF Legs, IsRaw
<1>6. c \in OverCap(raw, p.cap) \/ Abs(raw[c]) * l <= k * g
  <2> DEFINE i == Abs(raw[c]) * l
             j == k * g
  <2>1. c \in OverCap(raw, p.cap) <=> i > j
    BY <1>3 DEF OverCap
  <2>2. Abs(raw[c]) \in Nat
    BY <1>5 DEF Abs
  <2>3. i \in Nat /\ j \in Nat
    <3> HIDE DEF raw, g, k, l
    <3> QED
      BY <1>4, <2>2
  <2> HIDE DEF i, j
  <2>4. i > j \/ i <= j
    BY <2>3
  <2> QED
    BY <2>1, <2>4 DEF i, j
<1>7. CASE OverCap(raw, p.cap) # {}
  <2>1. book = Capped(raw, p.cap)
    BY <1>3, <1>7 DEF Book
  <2>2. CASE c \in OverCap(raw, p.cap)
    <3>1. book[c] = <<Sgn(raw[c]) * k, l>>
      BY <2>1, <2>2 DEF Capped
    <3>2. Abs(Sgn(raw[c]) * k) = k
      <4> HIDE DEF k, raw
      <4> QED
        BY <1>4, <1>5 DEF Sgn, Abs
    <3> HIDE DEF book, raw, k, l
    <3> QED
      BY <1>4, <3>1, <3>2
  <2>3. CASE c \notin OverCap(raw, p.cap)
    <3>1. book[c] = <<raw[c], g>>
      BY <1>3, <2>1, <2>3 DEF Capped
    <3> HIDE DEF book, raw, g, k, l
    <3> QED
      BY <1>6, <2>3, <3>1
  <2> QED
    BY <2>2, <2>3
<1>8. CASE OverCap(raw, p.cap) = {}
  <2>1. book[c] = <<raw[c], g>>
    BY <1>8 DEF Book, Uncapped
  <2>2. Abs(raw[c]) * l <= k * g
    BY <1>6, <1>8
  <2> HIDE DEF book, raw, g, k, l
  <2> QED
    BY <2>1, <2>2
<1> QED
  BY <1>7, <1>8

\* The legs that are not crypto are scaled by one factor.
LEMMA BookProportions ==
    ASSUME NEW section \in [Symbol -> SignalRowType \cup {NoRow}],
           NEW v \in Versions, NEW b \in Books
    PROVE  LET raw == RawBook(section, Params[v].scheme, b)
           IN  \E i, j \in Nat : \A s \in Legs(raw) \ Crypto :
                 Book(section, Params[v], b)[s] = <<raw[s] * i, j>>
<1> DEFINE p == Params[v]
           raw == RawBook(section, p.scheme, b)
           g == GrossOf(raw, Symbol)
           o == GrossOf(raw, Symbol \ Crypto)
<1>1. IsRaw(raw)
  BY WeightBookAssumption, RawBookType DEF IsRaw
<1>2. g \in Nat /\ o \in Nat
  BY <1>1, GrossType DEF IsRaw
<1>3. CASE p.cap # NoCap /\ OverCap(raw, p.cap) # {}
  <2> DEFINE F == Freed(raw, p.cap)
             l == p.cap[2]
  <2>1. Book(section, p, b) = Capped(raw, p.cap)
    BY <1>3 DEF Book
  <2>2. l \in Nat /\ F \in Nat /\ OverCap(raw, p.cap) \subseteq Crypto
    BY <1>1, <1>3, CapType, FreedType DEF IsRaw
  <2>3. \A s \in Legs(raw) \ Crypto :
          Book(section, p, b)[s] = <<raw[s] * (o * l + F), g * l * o>>
    BY <2>1, <2>2 DEF Capped
  <2>4. o * l + F \in Nat /\ g * l * o \in Nat
    <3> HIDE DEF g, o, F, l
    <3>1. o * l \in Nat /\ g * l \in Nat
      BY <1>2, <2>2
    <3> QED
      BY <1>2, <2>2, <3>1
  <2> DEFINE i == o * l + F
             j == g * l * o
  <2>5. i \in Nat /\ j \in Nat
        /\ \A s \in Legs(raw) \ Crypto : Book(section, p, b)[s] = <<raw[s] * i, j>>
    BY <2>3, <2>4
  <2> HIDE DEF i, j, raw
  <2>6. \E x, y \in Nat : \A s \in Legs(raw) \ Crypto :
          Book(section, p, b)[s] = <<raw[s] * x, y>>
    BY <2>5
  <2> QED
    BY <2>6 DEF raw
<1>4. CASE ~ (p.cap # NoCap /\ OverCap(raw, p.cap) # {})
  <2>1. \A s \in Legs(raw) : Book(section, p, b)[s] = <<raw[s], g>> /\ raw[s] \in Int
    BY <1>1, <1>4 DEF Book, Uncapped, Legs, IsRaw
  <2>2. \A s \in Legs(raw) : raw[s] = raw[s] * 1
    <3> HIDE DEF raw
    <3> QED
      BY <2>1
  <2> HIDE DEF raw, g
  <2>3. \E x, y \in Nat : \A s \in Legs(raw) \ Crypto :
          Book(section, p, b)[s] = <<raw[s] * x, y>>
    <3>1. \A s \in Legs(raw) \ Crypto : Book(section, p, b)[s] = <<raw[s] * 1, g>>
      BY <2>1, <2>2
    <3> QED
      BY <1>2, <3>1
  <2> QED
    BY <2>3 DEF raw
<1> QED
  BY <1>3, <1>4

LEMMA BooksProportional ==
    ASSUME NEW section \in [Symbol -> SignalRowType \cup {NoRow}], NEW v \in Versions
    PROVE  LET book == Book(section, Params[v], TRUE)
               pure == Book(section, Params[v], FALSE)
           IN  /\ DOMAIN pure = DOMAIN book \ Crypto
               /\ SameProportions(book, pure)
<1> DEFINE p == Params[v]
           raw == RawBook(section, p.scheme, TRUE)
           own == RawBook(section, p.scheme, FALSE)
           book == Book(section, p, TRUE)
           pure == Book(section, p, FALSE)
<1>1. raw \in [Symbol -> Int] /\ own \in [Symbol -> Int]
  BY WeightBookAssumption, RawBookType DEF Books
<1>2. DOMAIN book = Legs(raw) /\ DOMAIN pure = Legs(own)
  BY BookType DEF Books
<1>3. \A s \in Symbol : own[s] = IF s \in Crypto THEN 0 ELSE raw[s]
  BY DEF RawBook
<1>4. Legs(own) = Legs(raw) \ Crypto
  BY <1>3 DEF Legs
<1>5. PICK i \in Nat, j \in Nat : \A s \in Legs(raw) \ Crypto : book[s] = <<raw[s] * i, j>>
  BY BookProportions DEF Books
<1>6. PICK x \in Nat, y \in Nat : \A s \in Legs(own) \ Crypto : pure[s] = <<own[s] * x, y>>
  BY BookProportions DEF Books
<1>7. ASSUME NEW s \in DOMAIN book \ Crypto, NEW t \in DOMAIN book \ Crypto
      PROVE  book[s][1] * book[t][2] * pure[t][1] * pure[s][2] =
             book[t][1] * book[s][2] * pure[s][1] * pure[t][2]
  <2> DEFINE e == raw[s]
             f == raw[t]
  <2>1. /\ book[s] = <<e * i, j>> /\ book[t] = <<f * i, j>>
        /\ pure[s] = <<e * x, y>> /\ pure[t] = <<f * x, y>>
        /\ e \in Int /\ f \in Int
    BY <1>1, <1>2, <1>3, <1>4, <1>5, <1>6 DEF Legs
  <2> HIDE DEF e, f, book, pure
  <2>2. (e * i) * j * (f * x) * y = (f * i) * j * (e * x) * y
    BY <2>1
  <2> QED
    BY <2>1, <2>2
<1> QED
  BY <1>2, <1>4, <1>7 DEF SameProportions

\* For any universe, any stored signals and any parameter version: the books of a week
\* are fully invested, no coin is over the cap, and the cap does not shift the others
\* against each other.
THEOREM BooksSoundHolds == Spec => []BooksSound
<1>1. TypeOK => BooksSound
  <2> SUFFICES ASSUME TypeOK, NEW w \in Weeks
               PROVE  LET p    == Params[active]
                          book == Book(Section(w), p, TRUE)
                          pure == Book(Section(w), p, FALSE)
                      IN  /\ DOMAIN pure = DOMAIN book \ Crypto
                          /\ FullyInvested(book) /\ FullyInvested(pure)
                          /\ WithinCap(book, p.cap)
                          /\ SameProportions(book, pure)
    BY DEF BooksSound
  <2>1. active \in Versions /\ Section(w) \in [Symbol -> SignalRowType \cup {NoRow}]
    BY SectionType DEF TypeOK
  <2> QED
    BY <2>1, BookInvested, BookWithinCap, BooksProportional DEF Books
<1> QED
  BY <1>1, WeightTypeCorrect, PTL
=============================================================================
