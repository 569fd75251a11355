------------------------- MODULE TrendsWindows_proofs -------------------------
(***************************************************************************)
(* Type correctness, whole histories and refreshed windows of              *)
(* TrendsWindows, for every window length, overlap and number of jobs.     *)
(***************************************************************************)
EXTENDS TrendsWindows, TLAPS

-----------------------------------------------------------------------------
(***************************************************************************)
(* The starts of a back-fill's windows: Step apart, from week 1.           *)
(***************************************************************************)

\* A week that a back-fill's loop passes.
IsStep(b) == (b - 1) % Step = 0

\* The bounds as numbers.
LEMMA Numbers ==
    /\ LastWeek \in Nat \ {0} /\ WindowWeeks \in Nat \ {0}
    /\ OverlapWeeks \in Nat \ {0} /\ OverlapWeeks <= WindowWeeks
    /\ MinWeekly \in Nat /\ MinWeekly <= OverlapWeeks
    /\ MaxWeekly \in Nat /\ WindowWeeks <= MaxWeekly /\ WindowWeeks < LastWeek
    /\ MaxByHand \in Nat /\ MaxFaults \in Nat
    /\ Gaps \subseteq SUBSET Weeks
    /\ NoRow \notin Weeks /\ NoRow \notin Window
  BY TrendsAssumption

\* The windows of a back-fill advance, and at least touch the one before.  What is
\* longer than an overlap is not lost by cutting a window at the end.
LEMMA StepBounds ==
    /\ Step \in Nat \ {0}
    /\ Step <= WindowWeeks
    /\ Step = 1 \/ Step = WindowWeeks - OverlapWeeks
  BY Numbers DEF Step

LEMMA Quotient ==
    ASSUME NEW a \in Int, NEW n \in Nat \ {0}
    PROVE  a = n * (a \div n) + (a % n)
  BY Z3T(30)

LEMMA Division ==
    ASSUME NEW a \in Nat, NEW n \in Nat \ {0}
    PROVE  /\ a % n \in 0 .. n - 1
           /\ a \div n \in Nat
           /\ a = n * (a \div n) + (a % n)
  <1>1. a % n \in 0 .. n - 1
    BY SMT
  <1>2. a \div n \in Int
    BY SMT
  <1>3. a = n * (a \div n) + (a % n)
    BY Quotient
  <1>4. \A k \in Int, r \in 0 .. n - 1 : n * k + r >= 0 => k >= 0
    BY SMT
  <1> QED BY <1>1, <1>2, <1>3, <1>4

LEMMA Multiples ==
    ASSUME NEW n \in Nat \ {0}, NEW k \in Nat, NEW m \in Nat
    PROVE  /\ (n * k) % n = 0
           /\ n * (k + 1) = n * k + n
           /\ k >= 1 => n * (k - 1) = n * k - n
           /\ n * k < n * m => n * k + n <= n * m
  <1>1. (n * k) % n = 0
    BY SMTT(30)
  <1>2. n * (k + 1) = n * k + n /\ (k >= 1 => n * (k - 1) = n * k - n)
    BY SMT
  <1>3. n * k < n * m => n * k + n <= n * m
    BY SMTT(30)
  <1> QED BY <1>1, <1>2, <1>3

LEMMA IsStepMultiple ==
    ASSUME NEW b \in Nat \ {0}
    PROVE  IsStep(b) <=> \E k \in Nat : b = Step * k + 1
  <1>1. ASSUME IsStep(b) PROVE \E k \in Nat : b = Step * k + 1
    <2>1. b - 1 \in Nat
      OBVIOUS
    <2>2. (b - 1) \div Step \in Nat /\ b - 1 = Step * ((b - 1) \div Step) + ((b - 1) % Step)
      BY <2>1, Division, StepBounds
    <2>3. b = Step * ((b - 1) \div Step) + 1
      BY <1>1, <2>2, StepBounds DEF IsStep
    <2> QED BY <2>2, <2>3
  <1>2. ASSUME NEW k \in Nat, b = Step * k + 1 PROVE IsStep(b)
    <2>1. b - 1 = Step * k
      BY <1>2, StepBounds
    <2> QED BY <2>1, Multiples, StepBounds DEF IsStep
  <1> QED BY <1>1, <1>2

\* From one of the weeks to the one before.
LEMMA StepBack ==
    ASSUME NEW b \in Nat \ {0}, IsStep(b), b # 1
    PROVE  b > Step /\ IsStep(b - Step)
  <1>1. PICK k \in Nat : b = Step * k + 1
    BY IsStepMultiple
  <1>2. k >= 1
    BY <1>1, StepBounds
  <1>3. /\ b - Step = Step * (k - 1) + 1 /\ k - 1 \in Nat
        /\ Step * (k - 1) \in Nat
    BY <1>1, <1>2, Multiples, StepBounds
  <1>4. b - Step \in Nat \ {0}
    BY <1>3
  <1>5. IsStep(b - Step)
    BY <1>3, <1>4, IsStepMultiple
  <1> QED BY <1>4, <1>5, StepBounds

\* No two of them are closer than a step.
LEMMA StepsApart ==
    ASSUME NEW a \in Nat \ {0}, NEW b \in Nat \ {0}, IsStep(a), IsStep(b), a < b
    PROVE  a + Step <= b
  <1>1. PICK k \in Nat : a = Step * k + 1
    BY IsStepMultiple
  <1>2. PICK m \in Nat : b = Step * m + 1
    BY IsStepMultiple
  <1>3. Step * k \in Nat /\ Step * m \in Nat
    BY StepBounds
  <1>4. Step * k < Step * m
    BY <1>1, <1>2, <1>3
  <1>5. Step * k + Step <= Step * m
    BY <1>4, Multiples, StepBounds
  <1> QED BY <1>1, <1>2, <1>3, <1>5, StepBounds

\* One of them comes within a step before any week.
LEMMA StepBelow ==
    ASSUME NEW p \in Nat, 2 <= p
    PROVE  \E g \in Nat \ {0} : g < p /\ p <= g + Step /\ IsStep(g)
  <1> DEFINE k == (p - 2) \div Step
             r == (p - 2) % Step
             g == Step * k + 1
  <1>1. k \in Nat /\ r \in 0 .. Step - 1 /\ p - 2 = Step * k + r
    BY Division, StepBounds, p - 2 \in Nat
  <1> HIDE DEF k, r
  <1>2. Step * k \in Nat
    BY <1>1, StepBounds
  <1>3. g \in Nat \ {0} /\ g < p /\ p <= g + Step
    BY <1>1, <1>2, StepBounds
  <1>4. IsStep(g)
    BY <1>1, <1>3, IsStepMultiple
  <1> QED BY <1>3, <1>4

-----------------------------------------------------------------------------
(***************************************************************************)
(* The windows of a back-fill.                                             *)
(***************************************************************************)

LEMMA BoundsMember ==
    ASSUME NEW e \in Weeks, NEW a \in Weeks, IsStep(a), a <= e,
           a = 1 \/ a - Step + WindowWeeks < e
    PROVE  <<a, Lesser(a + WindowWeeks, e)>> \in WindowBounds(1, e)
  <1>1. e \in Nat /\ a \in 1 .. e
    BY Numbers DEF Weeks
  <1> QED BY <1>1 DEF WindowBounds, IsStep

LEMMA BoundsShape ==
    ASSUME NEW e \in Weeks, NEW w \in WindowBounds(1, e)
    PROVE  /\ w[1] \in 1 .. e /\ IsStep(w[1])
           /\ w[1] = 1 \/ w[1] - Step + WindowWeeks < e
           /\ w = <<w[1], Lesser(w[1] + WindowWeeks, e)>>
           /\ w[2] = Lesser(w[1] + WindowWeeks, e)
           /\ w \in Window
  <1>1. e \in Nat
    BY Numbers DEF Weeks
  <1>2. PICK a \in 1 .. e : /\ w = <<a, Lesser(a + WindowWeeks, e)>>
                            /\ (a - 1) % Step = 0
                            /\ a = 1 \/ a - Step + WindowWeeks < e
    BY <1>1 DEF WindowBounds
  <1>3. w[1] = a /\ w[2] = Lesser(a + WindowWeeks, e)
    BY <1>2
  <1>4. a \in Weeks /\ Lesser(a + WindowWeeks, e) \in Weeks /\ a <= Lesser(a + WindowWeeks, e)
    BY <1>1, Numbers DEF Weeks, Lesser
  <1> QED BY <1>2, <1>3, <1>4 DEF Window, IsStep

\* Every window of a back-fill is long enough to be answered by week, also the last
\* one, whose end is cut: it reaches back over the overlap at least.
LEMMA BoundsWeekly ==
    ASSUME NEW e \in Weeks, e > WindowWeeks, NEW w \in WindowBounds(1, e)
    PROVE  /\ w[1] + MinWeekly <= w[2] /\ w[2] <= e
           /\ Grid(w) = "week"
  <1>1. e \in Nat /\ w[1] \in 1 .. e
    BY BoundsShape, Numbers DEF Weeks
  <1>2. w[1] = 1 \/ w[1] - Step + WindowWeeks < e
    BY BoundsShape
  <1>3. w[2] = Lesser(w[1] + WindowWeeks, e)
    BY BoundsShape
  <1>4. w[1] + MinWeekly <= w[2] /\ w[2] <= e /\ w[2] - w[1] <= WindowWeeks
    BY <1>1, <1>2, <1>3, StepBounds, Numbers DEF Lesser
  <1>5. w[2] \in Nat
    BY <1>1, <1>3, Numbers DEF Lesser
  <1>6. ~ (w[2] - w[1] < MinWeekly) /\ ~ (w[2] - w[1] > MaxWeekly)
    BY <1>1, <1>4, <1>5, Numbers
  <1> QED BY <1>4, <1>6 DEF Grid

\* The window before one of its windows is uncut, and holds the start of the later
\* one; and the later one holds the week an uncut one would end with, one step short.
LEMMA BoundsPrevious ==
    ASSUME NEW e \in Weeks, NEW w \in WindowBounds(1, e), w[1] # 1
    PROVE  /\ w[1] - Step \in Weeks
           /\ <<w[1] - Step, w[1] - Step + WindowWeeks>> \in WindowBounds(1, e)
           /\ w[1] \in (w[1] - Step) .. (w[1] - Step + WindowWeeks)
           /\ w[1] + WindowWeeks - Step \in w[1] .. w[2]
           /\ w[1] + WindowWeeks - Step \in Weeks
  <1> DEFINE a == w[1]
  <1>1. /\ a \in 1 .. e /\ IsStep(a) /\ a - Step + WindowWeeks < e
        /\ w[2] = Lesser(a + WindowWeeks, e) /\ e \in Nat /\ e <= LastWeek
    BY BoundsShape, Numbers DEF Weeks
  <1> HIDE DEF a
  <1>2. a > Step /\ IsStep(a - Step)
    BY <1>1, StepBack, a # 1 DEF a
  <1>3. a - Step \in Weeks /\ a - Step <= e
    BY <1>1, <1>2, StepBounds, Numbers DEF Weeks
  <1>4. a - Step = 1 \/ (a - Step) - Step + WindowWeeks < e
    BY <1>1, StepBounds, Numbers
  <1>5. <<a - Step, Lesser(a - Step + WindowWeeks, e)>> \in WindowBounds(1, e)
    BY <1>2, <1>3, <1>4, BoundsMember
  <1>6. Lesser(a - Step + WindowWeeks, e) = a - Step + WindowWeeks
    BY <1>1 DEF Lesser
  <1>7. /\ a \in (a - Step) .. (a - Step + WindowWeeks)
        /\ a + WindowWeeks - Step \in a .. w[2]
        /\ a + WindowWeeks - Step \in Weeks
    BY <1>1, StepBounds, Numbers DEF Weeks, Lesser
  <1> QED BY <1>3, <1>5, <1>6, <1>7 DEF a

\* Of any week after the first and up to its end, a back-fill has a window that starts
\* before the week and holds it; no later window of it starts before the week.
LEMMA Reach ==
    ASSUME NEW e \in Weeks, NEW s \in Weeks, 1 < s, s <= e
    PROVE  \E q \in Weeks :
             /\ IsStep(q) /\ q < s
             /\ <<q, Lesser(q + WindowWeeks, e)>> \in WindowBounds(1, e)
             /\ s \in q .. Lesser(q + WindowWeeks, e)
             /\ \A p \in Weeks : IsStep(p) /\ q < p /\ p < s => e <= p - Step + WindowWeeks
  <1>0. /\ e \in Nat /\ s \in Nat /\ e <= LastWeek /\ Step \in Nat \ {0} /\ Step <= WindowWeeks
        /\ WindowWeeks \in Nat
    BY StepBounds, Numbers DEF Weeks
  <1>a. 2 <= s /\ LastWeek \in Nat
    BY <1>0, Numbers
  <1>1. PICK g \in Nat \ {0} : g < s /\ s <= g + Step /\ IsStep(g)
    BY <1>0, <1>a, StepBelow
  <1>2. CASE g = 1 \/ g - Step + WindowWeeks < e
    <2>1. g \in Weeks /\ g <= e
      BY <1>0, <1>a, <1>1 DEF Weeks
    <2>2. <<g, Lesser(g + WindowWeeks, e)>> \in WindowBounds(1, e)
      BY <1>1, <1>2, <2>1, BoundsMember
    <2>3. s \in g .. Lesser(g + WindowWeeks, e)
      BY <1>0, <1>1 DEF Lesser
    <2>4. \A p \in Weeks : IsStep(p) /\ g < p => g + Step <= p
      BY <1>1, StepsApart DEF Weeks
    <2>5. \A p \in Weeks : ~ (IsStep(p) /\ g < p /\ p < s)
      BY <1>0, <1>1, <2>4 DEF Weeks
    <2> QED BY <1>1, <2>1, <2>2, <2>3, <2>5
  <1>3. CASE g # 1 /\ e <= g - Step + WindowWeeks
    \* The last window of the back-fill.
    <2>1. PICK q \in Nat \ {0} : /\ IsStep(q) /\ q < s /\ e <= q + WindowWeeks
                                 /\ q = 1 \/ q - Step + WindowWeeks < e
      <3>1. CASE 2 <= e + Step - WindowWeeks
        <4> DEFINE x == e + Step - WindowWeeks
        <4>1. x \in Nat /\ 2 <= x
          BY <1>0, <3>1
        <4>2. PICK q \in Nat \ {0} : q < x /\ x <= q + Step /\ IsStep(q)
          BY <4>1, StepBelow
        <4>3. q - Step + WindowWeeks < e /\ e <= q + WindowWeeks /\ q < s
          BY <1>0, <1>1, <1>3, <4>2
        <4> QED BY <4>2, <4>3
      <3>2. CASE e + Step - WindowWeeks < 2
        <4>1. IsStep(1)
          BY StepBounds, Multiples DEF IsStep
        <4>2. e <= 1 + WindowWeeks
          BY <1>0, <3>2
        <4> QED BY <1>0, <4>1, <4>2
      <3> QED BY <1>0, <3>1, <3>2
    <2>2. q \in Weeks /\ q <= e
      BY <1>0, <1>a, <2>1 DEF Weeks
    <2>3. <<q, Lesser(q + WindowWeeks, e)>> \in WindowBounds(1, e)
      BY <2>1, <2>2, BoundsMember
    <2>4. s \in q .. Lesser(q + WindowWeeks, e)
      BY <1>0, <2>1 DEF Lesser
    <2>5. ASSUME NEW p \in Weeks, IsStep(p), q < p PROVE e <= p - Step + WindowWeeks
      <3>1. q + Step <= p /\ p \in Nat
        BY <2>1, <2>5, StepsApart DEF Weeks
      <3> QED BY <1>0, <2>1, <3>1
    <2> QED BY <2>1, <2>2, <2>3, <2>4, <2>5
  <1> QED BY <1>0, <1>1, <1>2, <1>3

-----------------------------------------------------------------------------
(***************************************************************************)
(* Types, and the limits of every request.                                 *)
(***************************************************************************)

\* What a job has still to store.
Requested(j) == todo[j] \cup ({answer[j]} \ {NoRow})

\* A request spans the weekly minimum and ends with a week that is over; so does
\* the window of whatever is stored, which the next refresh asks for again.
RequestsSpan ==
    /\ today > WindowWeeks
    /\ \A j \in Jobs : \A w \in Requested(j) : w[1] + MinWeekly <= w[2] /\ w[2] <= today
    /\ \A s \in Starts : s + MinWeekly <= today

TypeInv == TypeOK /\ RequestsSpan

Row(s, v) == raw[s][v] # NoRow

\* A week that is stored under a start, or that an answer lacked.
Covered(s, v) == Row(s, v) \/ v \in lost

\* A MERGE by week adds the weeks of its answer to the rows under its start; any
\* other may add its start to the starts with other grids.  Nothing is deleted.
LEMMA StoreEffect ==
    ASSUME TypeOK, NEW j \in Jobs, Store(j)
    PROVE  /\ answer[j] \in Window
           /\ answer' = [answer EXCEPT ![j] = NoRow] /\ todo' = todo
           /\ lost' = lost \cup lacks[j]
           /\ \/ /\ Grid(answer[j]) = "week" /\ other' = other
                 /\ \A s, v \in Weeks : Row(s, v)' <=>
                       (Row(s, v) \/ (s = answer[j][1] /\ v \in answer[j][1] .. answer[j][2]
                                        /\ v \notin lacks[j]))
                 /\ \A s, v \in Weeks :
                       raw'[s][v] = IF s = answer[j][1] /\ v \in answer[j][1] .. answer[j][2]
                                         /\ v \notin lacks[j]
                                    THEN answer[j][2] ELSE raw[s][v]
              \/ /\ Grid(answer[j]) # "week" /\ raw' = raw
                 /\ other \subseteq other' /\ other' \subseteq other \cup {answer[j][1]}
  <1> DEFINE w == answer[j]
             weeks == (w[1] .. w[2]) \ lacks[j]
  <1>1. w \in Window
    BY DEF TypeOK, Store
  <1>2. w[1] \in Weeks /\ w[2] \in Weeks
    BY <1>1 DEF Window
  <1>3. /\ answer' = [answer EXCEPT ![j] = NoRow] /\ todo' = todo /\ Upsert(w, weeks)
        /\ lost' = lost \cup lacks[j]
    BY DEF Store, Prepared
  <1>0. \A v : v \in weeks <=> v \in w[1] .. w[2] /\ v \notin lacks[j]
    OBVIOUS
  <1> HIDE DEF w, weeks
  <1>4. CASE Grid(w) = "week"
    <2>1. /\ other' = other
          /\ raw' = [raw EXCEPT ![w[1]] =
                        [v \in Weeks |-> IF v \in weeks THEN w[2] ELSE @[v]]]
      BY <1>3, <1>4 DEF Upsert
    <2>2. \A s, v \in Weeks :
             raw'[s][v] = IF s = w[1] /\ v \in weeks THEN w[2] ELSE raw[s][v]
      BY <2>1, <1>2 DEF TypeOK
    <2>3. w[2] # NoRow
      BY <1>2, Numbers
    <2>4. \A s, v \in Weeks : Row(s, v)' <=> (Row(s, v) \/ (s = w[1] /\ v \in weeks))
      BY <2>2, <2>3 DEF Row
    <2> QED BY <1>0, <1>1, <1>3, <1>4, <2>1, <2>2, <2>4 DEF w
  <1>5. CASE Grid(w) # "week"
    BY <1>1, <1>3, <1>5 DEF Upsert, w
  <1> QED BY <1>4, <1>5

\* A window start is one that holds weeks, or another grid.
LEMMA StartsAre ==
    \A s : s \in Starts <=> (s \in other \/ (s \in Weeks /\ \E v \in Weeks : Row(s, v)))
  BY DEF Starts, Held, Row

\* A job's store: what the other job has to do stays.
LEMMA StoreRequests ==
    ASSUME TypeOK, NEW j \in Jobs, Store(j)
    PROVE  /\ \A i \in Jobs : Requested(i)' \subseteq Requested(i)
           /\ \A i \in Jobs : i # j => Requested(i)' = Requested(i)
           /\ answer[j] \in Requested(j)
           /\ \A s \in Starts' : s \in Starts \/ s = answer[j][1]
           /\ Starts \subseteq Starts'
  <1>1. /\ answer[j] \in Window /\ answer' = [answer EXCEPT ![j] = NoRow] /\ todo' = todo
    BY StoreEffect
  <1>2. answer[j] # NoRow
    BY <1>1, Numbers
  <1>3. \A i \in Jobs : Requested(i)' \subseteq Requested(i) /\ (i # j => Requested(i)' = Requested(i))
    BY <1>1 DEF Requested, TypeOK
  <1>4. \A s \in Starts' : s \in Starts \/ s = answer[j][1]
    <2> SUFFICES ASSUME NEW s \in Starts' PROVE s \in Starts \/ s = answer[j][1]
      OBVIOUS
    <2>1. s \in other' \/ (s \in Weeks /\ \E v \in Weeks : Row(s, v)')
      BY DEF Starts, Held, Row
    <2> QED BY <2>1, StoreEffect, StartsAre DEF Row
  <1>5. ASSUME NEW s \in Starts PROVE s \in Starts'
    <2>1. s \in other \/ (s \in Weeks /\ \E v \in Weeks : Row(s, v))
      BY StartsAre
    <2>2. s \in other' \/ (s \in Weeks /\ \E v \in Weeks : Row(s, v)')
      BY <2>1, StoreEffect DEF Row
    <2> QED BY <2>2 DEF Starts, Held, Row
  <1> QED BY <1>1, <1>2, <1>3, <1>4, <1>5 DEF Requested

\* The weeks that are over.
LEMMA DaysNumbers ==
    ASSUME TypeInv
    PROVE  /\ today \in Nat /\ today <= LastWeek /\ today > WindowWeeks
           /\ 1 .. today \subseteq Weeks
  BY Numbers DEF TypeInv, TypeOK, RequestsSpan, Weeks

\* A job starts with windows that keep the limits.
LEMMA StartJobTypes ==
    ASSUME TypeInv, NEW j \in Jobs, NEW W \in SUBSET Window, StartJob(j, W),
           \A w \in W : w[1] + MinWeekly <= w[2] /\ w[2] <= today
    PROVE  /\ todo' \in [Jobs -> SUBSET Window] /\ answer' \in [Jobs -> Window \cup {NoRow}]
           /\ raw' \in [Weeks -> [Weeks -> (1 .. today') \cup {NoRow}]] /\ other' \subseteq Weeks
           /\ today' \in Weeks /\ RequestsSpan' /\ RequestsOK'
           /\ faults' = faults /\ lacks' = lacks /\ lost' = lost
           /\ whole' = whole /\ ranged' = ranged
           /\ today' = today
  <1>1. /\ todo' = [todo EXCEPT ![j] = W] /\ answer' = answer /\ today' = today
        /\ raw' = raw /\ other' = other
        /\ faults' = faults /\ lacks' = lacks /\ lost' = lost
        /\ whole' = whole /\ ranged' = ranged
    BY DEF StartJob, table
  <1>2. /\ todo' \in [Jobs -> SUBSET Window] /\ answer' \in [Jobs -> Window \cup {NoRow}]
        /\ raw' \in [Weeks -> [Weeks -> (1 .. today') \cup {NoRow}]] /\ other' \subseteq Weeks
        /\ today' \in Weeks
    BY <1>1 DEF TypeInv, TypeOK
  <1>3. \A i \in Jobs : \A w \in Requested(i)' : w \in Requested(i) \/ w \in W
    BY <1>1 DEF Requested, TypeInv, TypeOK
  <1>4. Starts' = Starts
    BY <1>1 DEF Starts, Held
  <1>5. RequestsSpan'
    BY <1>1, <1>3, <1>4 DEF RequestsSpan, TypeInv
  <1>6. RequestsOK'
    <2>1. ASSUME NEW i \in Jobs, NEW w \in todo'[i] PROVE w[2] <= today'
      BY <2>1, <1>5 DEF RequestsSpan, Requested
    <2>2. ASSUME NEW i \in Jobs, answer'[i] # NoRow
          PROVE  answer'[i][2] <= today' /\ Grid(answer'[i]) # "day"
      BY <2>2, <1>1 DEF TypeInv, TypeOK, RequestsOK
    <2> QED BY <2>1, <2>2 DEF RequestsOK
  <1> QED BY <1>1, <1>2, <1>5, <1>6

LEMMA InitTypes == Init => TypeInv
  <1> SUFFICES ASSUME Init PROVE TypeInv
    OBVIOUS
  <1>1. /\ today \in Weeks /\ other = {} /\ kind = "none" /\ crossed = FALSE
        /\ raw \in [Weeks -> [Weeks -> (1 .. today) \cup {NoRow}]]
        /\ byHand \in 0 .. MaxByHand /\ faults \in 0 .. MaxFaults
        /\ lacks \in [Jobs -> SUBSET Weeks] /\ lost = {}
        /\ whole = FALSE /\ ranged = FALSE
    BY Numbers DEF Init, Weeks
  <1>2. \A j \in Jobs : todo[j] = {} /\ answer[j] = NoRow /\ Requested(j) = {}
    BY DEF Init, Requested
  <1>3. todo \in [Jobs -> SUBSET Window] /\ answer \in [Jobs -> Window \cup {NoRow}]
    BY DEF Init
  <1>4. Starts = {}
    BY DEF Init, Starts, Held
  <1>5. RequestsSpan
    BY <1>2, <1>4, Numbers DEF RequestsSpan, Init
  <1>6. RequestsOK
    BY <1>2 DEF RequestsOK
  <1> QED BY <1>1, <1>3, <1>5, <1>6 DEF TypeInv, TypeOK

LEMMA NextWeekTypes == TypeInv /\ NextWeek => TypeInv'
  <1> SUFFICES ASSUME TypeInv, NextWeek PROVE TypeInv'
    OBVIOUS
  <1>1. /\ today' = today + 1 /\ today < LastWeek /\ crossed' = ~ Idle("hand")
        /\ raw' = raw /\ other' = other /\ todo' = todo /\ answer' = answer
        /\ kind' = kind /\ byHand' = byHand /\ faults' = faults
        /\ lacks' = lacks /\ lost' = lost
        /\ whole' = whole /\ ranged' = ranged
    BY DEF NextWeek, table
  <1>2. today' \in Weeks /\ today <= today' /\ today' > WindowWeeks
    BY <1>1, DaysNumbers, Numbers DEF Weeks
  <1>3. (1 .. today) \subseteq 1 .. today'
    BY <1>1, DaysNumbers
  <1>4. raw \in [Weeks -> [Weeks -> (1 .. today') \cup {NoRow}]]
    BY <1>3 DEF TypeInv, TypeOK
  <1>5. \A w \in Window : w[2] <= today => w[2] <= today'
    BY <1>1, DaysNumbers, Numbers DEF Window, Weeks
  <1>6. \A j \in Jobs : Requested(j)' = Requested(j) /\ Requested(j) \subseteq Window
    BY <1>1 DEF Requested, TypeInv, TypeOK
  <1>7. Starts' = Starts /\ Starts \subseteq Weeks
    BY <1>1 DEF Starts, Held, TypeInv, TypeOK
  <1>8. \A s \in Weeks : s + MinWeekly <= today => s + MinWeekly <= today'
    BY <1>1, DaysNumbers, Numbers DEF Weeks
  <1>9. RequestsSpan'
    BY <1>2, <1>5, <1>6, <1>7, <1>8 DEF RequestsSpan, TypeInv
  <1>10. RequestsOK'
    BY <1>1, <1>5 DEF RequestsOK, TypeInv, TypeOK
  <1>11. crossed' \in BOOLEAN
    BY <1>1 DEF Idle
  <1> QED BY <1>1, <1>2, <1>4, <1>9, <1>10, <1>11 DEF TypeInv, TypeOK

\* A refresh keeps the limits: its window was stored with them, or is a window's
\* length that ends today.
LEMMA RefreshSpan ==
    ASSUME TypeInv, NEW s \in Weeks,
           s \in Starts \/ s = today - WindowWeeks
    PROVE  /\ <<s, today>> \in Window
           /\ s + MinWeekly <= today
  <1>1. s + MinWeekly <= today
    <2>1. CASE s \in Starts
      BY <2>1 DEF TypeInv, RequestsSpan
    <2>2. CASE s = today - WindowWeeks
      BY <2>2, DaysNumbers, Numbers
    <2> QED BY <2>1, <2>2
  <1>2. s \in Nat /\ s <= today /\ today \in Weeks
    BY <1>1, DaysNumbers, Numbers DEF Weeks, TypeInv, TypeOK
  <1> QED BY <1>1, <1>2 DEF Window

LEMMA IngestLatestTypes == TypeInv /\ IngestLatest => TypeInv'
  <1> SUFFICES ASSUME TypeInv, IngestLatest PROVE TypeInv'
    OBVIOUS
  <1>1. PICK s \in Weeks : /\ s \in Starts \/ s = today - WindowWeeks
                           /\ StartJob("dag", {<<s, today>>})
    <2>1. CASE \E s \in Weeks : IsLatest(s) /\ StartJob("dag", {RefreshWindow(s)})
      BY <2>1 DEF IsLatest, RefreshWindow
    <2>2. CASE StartJob("dag", {FirstWindow})
      BY <2>2, DaysNumbers, Numbers, today - WindowWeeks \in Weeks DEF FirstWindow, Weeks
    <2> QED BY <2>1, <2>2 DEF IngestLatest
  <1> DEFINE W == {<<s, today>>}
  <1>2. W \in SUBSET Window /\ \A w \in W : w[1] + MinWeekly <= w[2] /\ w[2] <= today
    BY <1>1, RefreshSpan, DaysNumbers
  <1>3. "dag" \in Jobs
    BY DEF Jobs
  <1>4. StartJob("dag", W)
    BY <1>1
  <1> HIDE DEF W
  <1>5. /\ todo' \in [Jobs -> SUBSET Window] /\ answer' \in [Jobs -> Window \cup {NoRow}]
        /\ raw' \in [Weeks -> [Weeks -> (1 .. today') \cup {NoRow}]] /\ other' \subseteq Weeks
        /\ today' \in Weeks /\ RequestsSpan' /\ RequestsOK'
        /\ faults' = faults /\ lacks' = lacks /\ lost' = lost
        /\ whole' = whole /\ ranged' = ranged
    BY <1>2, <1>3, <1>4, StartJobTypes
  <1>6. kind' = kind /\ crossed' = crossed /\ byHand' = byHand
    BY DEF IngestLatest
  <1> QED BY <1>5, <1>6 DEF TypeInv, TypeOK

LEMMA ByHandTypes ==
    ASSUME TypeInv, NEW k \in {"backfill", "range"}, NEW W \in SUBSET Window, StartByHand(k, W),
           \A w \in W : w[1] + MinWeekly <= w[2] /\ w[2] <= today
    PROVE  TypeInv'
  <1>1. "hand" \in Jobs /\ StartJob("hand", W)
    BY DEF Jobs, StartByHand
  <1>2. /\ todo' \in [Jobs -> SUBSET Window] /\ answer' \in [Jobs -> Window \cup {NoRow}]
        /\ raw' \in [Weeks -> [Weeks -> (1 .. today') \cup {NoRow}]] /\ other' \subseteq Weeks
        /\ today' \in Weeks /\ RequestsSpan' /\ RequestsOK'
        /\ faults' = faults /\ lacks' = lacks /\ lost' = lost
        /\ whole' = whole /\ ranged' = ranged
    BY <1>1, StartJobTypes
  <1>3. kind' = k /\ crossed' = FALSE /\ byHand' = byHand + 1 /\ byHand < MaxByHand
    BY DEF StartByHand
  <1>4. byHand' \in 0 .. MaxByHand
    BY <1>3, Numbers DEF TypeInv, TypeOK
  <1> QED BY <1>2, <1>3, <1>4 DEF TypeInv, TypeOK

LEMMA BackfillTypes == TypeInv /\ BackfillHistory => TypeInv'
  <1> SUFFICES ASSUME TypeInv, BackfillHistory PROVE TypeInv'
    OBVIOUS
  <1>1. today \in Weeks /\ today > WindowWeeks
    BY DEF TypeInv, TypeOK, RequestsSpan
  <1>2. WindowBounds(1, today) \in SUBSET Window
    BY <1>1, BoundsShape
  <1>3. \A w \in WindowBounds(1, today) : w[1] + MinWeekly <= w[2] /\ w[2] <= today
    BY <1>1, BoundsWeekly
  <1>4. StartByHand("backfill", WindowBounds(1, today))
    BY DEF BackfillHistory
  <1> QED BY <1>2, <1>3, <1>4, ByHandTypes

LEMMA RangeTypes ==
    ASSUME TypeInv, NEW start \in Weeks, NEW end \in Weeks, IngestRange(start, end)
    PROVE  TypeInv'
  <1>1. start <= end /\ end <= today /\ end > MinWeekly
    BY DEF IngestRange
  <1>2. StartByHand("range", {RangeWindow(start, end)})
    BY DEF IngestRange
  <1> DEFINE a == Lesser(start, IF end > MinWeekly THEN end - MinWeekly ELSE 1)
  <1>3. a \in Weeks /\ a + MinWeekly <= end /\ a <= end
    BY <1>1, Numbers DEF Lesser, Weeks
  <1>4. RangeWindow(start, end) = <<a, end>>
    BY DEF RangeWindow
  <1> HIDE DEF a
  <1>5. {<<a, end>>} \in SUBSET Window
    BY <1>3 DEF Window
  <1>6. \A w \in {<<a, end>>} : w[1] + MinWeekly <= w[2] /\ w[2] <= today
    BY <1>1, <1>3
  <1> QED BY <1>2, <1>4, <1>5, <1>6, ByHandTypes

LEMMA FetchTypes ==
    ASSUME TypeInv, NEW j \in Jobs, Fetch(j)
    PROVE  TypeInv'
  <1>1. PICK w \in todo[j], g \in Gaps :
          /\ answer' = [answer EXCEPT ![j] = w]
          /\ todo' = [todo EXCEPT ![j] = @ \ {w}]
          /\ lacks' = [lacks EXCEPT ![j] = g \cap (w[1] .. w[2])]
          /\ g # {} => faults < MaxFaults
          /\ faults' = IF g = {} THEN faults ELSE faults + 1
    BY DEF Fetch
  <1>2. /\ today' = today /\ raw' = raw /\ other' = other /\ kind' = kind /\ crossed' = crossed
        /\ byHand' = byHand /\ lost' = lost /\ whole' = whole /\ ranged' = ranged
    BY DEF Fetch, table
  <1>11. faults' \in 0 .. MaxFaults /\ lacks' \in [Jobs -> SUBSET Weeks]
    BY <1>1, Numbers DEF TypeInv, TypeOK
  <1>3. todo' \in [Jobs -> SUBSET Window] /\ answer' \in [Jobs -> Window \cup {NoRow}]
    BY <1>1 DEF TypeInv, TypeOK
  <1>4. \A i \in Jobs : Requested(i)' \subseteq Requested(i)
    BY <1>1 DEF Requested, TypeInv, TypeOK
  <1>5. Starts' = Starts
    BY <1>2 DEF Starts, Held
  <1>6. RequestsSpan'
    BY <1>2, <1>4, <1>5 DEF RequestsSpan, TypeInv
  <1>7. w \in Window /\ w \in Requested(j)
    BY DEF TypeInv, TypeOK, Requested
  <1>8. w[2] <= today /\ Grid(w) # "day"
    <2>1. w[1] \in Nat /\ w[2] \in Nat
      BY <1>7, Numbers DEF Window, Weeks
    <2>2. w[1] + MinWeekly <= w[2] /\ w[2] <= today
      BY <1>7 DEF TypeInv, RequestsSpan
    <2>3. ~ (w[2] - w[1] < MinWeekly)
      BY <2>1, <2>2, Numbers
    <2> QED BY <2>2, <2>3 DEF Grid
  <1>9. \A i \in Jobs : answer'[i] = w \/ answer'[i] = answer[i]
    BY <1>1 DEF TypeInv, TypeOK
  <1>10. RequestsOK'
    BY <1>1, <1>2, <1>8, <1>9 DEF RequestsOK, TypeInv, TypeOK
  <1> QED BY <1>2, <1>3, <1>6, <1>10, <1>11 DEF TypeInv, TypeOK

LEMMA StoreTypes ==
    ASSUME TypeInv, NEW j \in Jobs, Store(j)
    PROVE  TypeInv'
  <1> DEFINE w == answer[j]
  <1>1. TypeOK /\ w \in Window /\ w[1] \in Weeks /\ w[2] \in Weeks
    BY StoreEffect DEF TypeInv, Window
  <1>2. w \in Requested(j)
    BY <1>1, StoreRequests
  <1>3. w[1] + MinWeekly <= w[2] /\ w[2] <= today
    BY <1>2 DEF TypeInv, RequestsSpan
  <1>4. w[2] \in 1 .. today /\ w[1] + MinWeekly <= today
    BY <1>1, <1>3, DaysNumbers, Numbers DEF Weeks
  <1>5. /\ answer' = [answer EXCEPT ![j] = NoRow] /\ todo' = todo
        /\ today' = today /\ kind' = kind /\ crossed' = crossed /\ byHand' = byHand
        /\ faults' = faults /\ lacks' = [lacks EXCEPT ![j] = {}] /\ lost' = lost \cup lacks[j]
        /\ whole' = (whole \/ (j = "hand" /\ kind = "backfill" /\ todo[j] = {} /\ Starts' # {}))
        /\ ranged' = (ranged \/ (j = "hand" /\ kind = "range"))
    BY DEF Store
  <1>6. /\ whole' \in BOOLEAN /\ ranged' \in BOOLEAN
        /\ lacks' \in [Jobs -> SUBSET Weeks] /\ lost' \subseteq Weeks
    BY <1>5 DEF TypeInv, TypeOK
  <1>7. raw' \in [Weeks -> [Weeks -> (1 .. today') \cup {NoRow}]] /\ other' \subseteq Weeks
    <2>1. PICK weeks : Upsert(w, weeks)
      BY DEF Store
    <2> HIDE DEF w
    <2>2. CASE Grid(w) = "week"
      <3>1. /\ other' = other
            /\ raw' = [raw EXCEPT ![w[1]] =
                          [v \in Weeks |-> IF v \in weeks THEN w[2] ELSE @[v]]]
        BY <2>1, <2>2 DEF Upsert
      <3> QED BY <3>1, <1>4, <1>5 DEF TypeInv, TypeOK
    <2>3. CASE Grid(w) # "week"
      BY <2>1, <2>3, <1>1, <1>5 DEF Upsert, TypeInv, TypeOK
    <2> QED BY <2>2, <2>3
  <1>8. /\ \A i \in Jobs : Requested(i)' \subseteq Requested(i)
        /\ \A s \in Starts' : s \in Starts \/ s = w[1]
    BY <1>1, StoreRequests
  <1>9. RequestsSpan'
    BY <1>4, <1>5, <1>8 DEF RequestsSpan, TypeInv
  <1>10. todo' \in [Jobs -> SUBSET Window] /\ answer' \in [Jobs -> Window \cup {NoRow}]
    BY <1>5 DEF TypeInv, TypeOK
  <1>11. \A i \in Jobs : answer'[i] # NoRow => answer'[i] = answer[i]
    BY <1>5 DEF TypeInv, TypeOK
  <1>12. RequestsOK'
    BY <1>5, <1>11 DEF RequestsOK, TypeInv, TypeOK
  <1> HIDE DEF w
  <1> QED BY <1>5, <1>6, <1>7, <1>9, <1>10, <1>12 DEF TypeInv, TypeOK

LEMMA FailTypes ==
    ASSUME TypeInv, NEW j \in Jobs, Fail(j)
    PROVE  TypeInv'
  <1>1. /\ todo' = [todo EXCEPT ![j] = {}] /\ answer' = [answer EXCEPT ![j] = NoRow]
        /\ faults < MaxFaults /\ faults' = faults + 1
        /\ lacks' = [lacks EXCEPT ![j] = {}] /\ lost' = lost
        /\ today' = today /\ raw' = raw /\ other' = other /\ kind' = kind /\ crossed' = crossed
        /\ byHand' = byHand /\ whole' = whole /\ ranged' = ranged
    BY DEF Fail, table
  <1>2. faults' \in 0 .. MaxFaults /\ lacks' \in [Jobs -> SUBSET Weeks]
    BY <1>1, Numbers DEF TypeInv, TypeOK
  <1>3. todo' \in [Jobs -> SUBSET Window] /\ answer' \in [Jobs -> Window \cup {NoRow}]
    BY <1>1 DEF TypeInv, TypeOK
  <1>4. \A i \in Jobs : Requested(i)' \subseteq Requested(i)
    BY <1>1 DEF Requested, TypeInv, TypeOK
  <1>5. Starts' = Starts
    BY <1>1 DEF Starts, Held
  <1>6. RequestsSpan'
    BY <1>1, <1>4, <1>5 DEF RequestsSpan, TypeInv
  <1>7. \A i \in Jobs : answer'[i] # NoRow => answer'[i] = answer[i]
    BY <1>1 DEF TypeInv, TypeOK
  <1>8. \A i \in Jobs : todo'[i] \subseteq todo[i]
    BY <1>1 DEF TypeInv, TypeOK
  <1>9. RequestsOK'
    BY <1>1, <1>7, <1>8 DEF RequestsOK, TypeInv, TypeOK
  <1> QED BY <1>1, <1>2, <1>3, <1>6, <1>9 DEF TypeInv, TypeOK

LEMMA StepTypes == TypeInv /\ [Next]_vars => TypeInv'
  <1> SUFFICES ASSUME TypeInv, [Next]_vars PROVE TypeInv'
    OBVIOUS
  <1>1. CASE UNCHANGED vars
    <2>1. /\ today' = today /\ raw' = raw /\ other' = other /\ todo' = todo /\ answer' = answer
          /\ kind' = kind /\ crossed' = crossed /\ byHand' = byHand /\ faults' = faults
          /\ lacks' = lacks /\ lost' = lost /\ whole' = whole /\ ranged' = ranged
      BY <1>1 DEF vars, table
    <2>2. RequestsSpan'
      BY <2>1 DEF TypeInv, RequestsSpan, Requested, Starts, Held
    <2>3. RequestsOK'
      BY <2>1 DEF TypeInv, TypeOK, RequestsOK
    <2> QED BY <2>1, <2>2, <2>3 DEF TypeInv, TypeOK
  <1>2. CASE NextWeek
    BY <1>2, NextWeekTypes
  <1>3. CASE IngestLatest
    BY <1>3, IngestLatestTypes
  <1>4. CASE BackfillHistory
    BY <1>4, BackfillTypes
  <1>5. CASE \E start, end \in Weeks : IngestRange(start, end)
    BY <1>5, RangeTypes
  <1>6. CASE \E j \in Jobs : JobStep(j) \/ Fail(j)
    BY <1>6, FetchTypes, StoreTypes, FailTypes DEF JobStep
  <1> QED BY <1>1, <1>2, <1>3, <1>4, <1>5, <1>6 DEF Next

LEMMA TypeInvHolds == Spec => []TypeInv
  BY InitTypes, StepTypes, PTL DEF Spec

\* TypeOK: every variable keeps its type, no request ends in the future and none is
\* so short that Google answers by day, whatever the windows, overlaps and failures.
THEOREM TrendsTypeCorrect == Spec => []TypeOK
  <1>1. TypeInv => TypeOK
    BY DEF TypeInv
  <1> QED BY <1>1, TypeInvHolds, PTL

-----------------------------------------------------------------------------
(***************************************************************************)
(* The rows under a start, and the refresh of the newest.                  *)
(***************************************************************************)

\* Under each start the weeks from it on, without a hole but for lost weeks, none in
\* the future.
Intervals ==
    \A s, v \in Weeks : Row(s, v) => s <= v /\ v <= today /\ \A u \in s .. v : Covered(s, u)

\* The DAG asks for a window that ends today: of a start that is stored, or, if
\* nothing was, of a window's length.
DagAsks ==
    \A w \in Requested("dag") :
        /\ w[2] = today
        /\ w[1] \in Starts \/ w[1] = today - WindowWeeks

\* What every step but a store leaves alone.
Quiet == /\ raw' = raw /\ other' = other /\ lost' = lost
         /\ whole' = whole /\ ranged' = ranged
         /\ today' = today \/ today' = today + 1

LEMMA QuietOrStore ==
    TypeInv /\ [Next]_vars => Quiet \/ \E j \in Jobs : Store(j)
  BY DEF Next, vars, table, NextWeek, IngestLatest, BackfillHistory, IngestRange, StartByHand,
         StartJob, JobStep, Fetch, Fail, Quiet

LEMMA QuietRows ==
    ASSUME Quiet
    PROVE  /\ \A s, v : (Row(s, v)' <=> Row(s, v)) /\ (Covered(s, v)' <=> Covered(s, v))
           /\ Starts' = Starts
  BY DEF Quiet, Row, Covered, Starts, Held

LEMMA RowsGrow ==
    ASSUME TypeInv, Quiet \/ \E j \in Jobs : Store(j)
    PROVE  /\ \A s, v \in Weeks : Row(s, v) => Row(s, v)'
           /\ \A s, v \in Weeks : Covered(s, v) => Covered(s, v)'
           /\ Starts \subseteq Starts'
  <1>1. CASE Quiet
    BY <1>1, QuietRows
  <1>2. ASSUME NEW j \in Jobs, Store(j)
        PROVE  /\ \A s, v \in Weeks : Row(s, v) => Row(s, v)'
               /\ lost \subseteq lost'
               /\ Starts \subseteq Starts'
    BY <1>2, StoreEffect, StoreRequests DEF TypeInv, Row
  <1> QED BY <1>1, <1>2 DEF Covered

\* What a store by week does to the weeks of its window: each is stored, or lost.
LEMMA StoreCovers ==
    ASSUME TypeInv, NEW j \in Jobs, Store(j),
           NEW a \in Window, a = answer[j], Grid(a) = "week"
    PROVE  /\ a[1] .. a[2] \subseteq Weeks
           /\ \A v \in a[1] .. a[2] : Covered(a[1], v)'
  <1>1. a[1] \in Weeks /\ a[1] .. a[2] \subseteq Weeks
    BY Numbers DEF Window, Weeks
  <1>2. \A v \in a[1] .. a[2] : v \in lacks[j] \/ Row(a[1], v)'
    BY <1>1, StoreEffect DEF TypeInv
  <1>3. lost' = lost \cup lacks[j]
    BY StoreEffect DEF TypeInv
  <1> QED BY <1>1, <1>2, <1>3 DEF Covered

LEMMA IntervalsKept ==
    TypeInv /\ Intervals /\ [Next]_vars => Intervals'
  <1> SUFFICES ASSUME TypeInv, Intervals, [Next]_vars PROVE Intervals'
    OBVIOUS
  <1>1. CASE Quiet
    <2>1. today \in Nat /\ (today' = today \/ today' = today + 1)
      BY <1>1, DaysNumbers DEF Quiet
    <2>2. \A v \in Weeks : v <= today => v <= today'
      BY <2>1, Numbers DEF Weeks
    <2> QED BY <1>1, <2>2, QuietRows DEF Intervals
  <1>2. ASSUME NEW j \in Jobs, Store(j) PROVE Intervals'
    <2> PICK w \in Window : w = answer[j]
      BY <1>2, StoreEffect DEF TypeInv
    <2>1. TypeOK /\ w[1] \in Weeks /\ w[2] \in Weeks /\ w[1] <= w[2]
      BY DEF TypeInv, Window
    <2>2. w[2] <= today
      BY <1>2, <2>1, StoreRequests DEF TypeInv, RequestsSpan
    <2>3. today' = today
      BY <1>2 DEF Store
    <2>4. \A s, v \in Weeks : Row(s, v)' =>
             Row(s, v) \/ (Grid(w) = "week" /\ s = w[1] /\ v \in w[1] .. w[2])
      BY <1>2, <2>1, StoreEffect DEF Row
    <2> SUFFICES ASSUME NEW s \in Weeks, NEW v \in Weeks, Row(s, v)'
                 PROVE  s <= v /\ v <= today' /\ \A u \in s .. v : Covered(s, u)'
      BY DEF Intervals
    <2>6. CASE Row(s, v)
      <3>1. s <= v /\ v <= today /\ \A u \in s .. v : Covered(s, u)
        BY <2>6 DEF Intervals
      <3>2. \A u \in s .. v : u \in Weeks
        BY Numbers DEF Weeks
      <3> QED BY <3>1, <3>2, <2>3, <1>2, RowsGrow
    <2>7. CASE ~ Row(s, v)
      <3>1. Grid(w) = "week" /\ s = w[1] /\ v \in w[1] .. w[2]
        BY <2>4, <2>7
      <3>2. s <= v /\ v <= today
        BY <3>1, <2>1, <2>2, DaysNumbers, Numbers DEF Weeks
      <3>3. \A u \in s .. v : u \in w[1] .. w[2]
        BY <3>1, <2>1, Numbers DEF Weeks
      <3>4. \A u \in w[1] .. w[2] : Covered(w[1], u)'
        BY <1>2, <3>1, StoreCovers
      <3> QED BY <2>3, <3>1, <3>2, <3>3, <3>4
    <2> QED BY <2>6, <2>7
  <1> QED BY <1>1, <1>2, QuietOrStore

\* What each action asks for.
LEMMA Asks ==
    ASSUME TypeInv
    PROVE  /\ NextWeek => /\ Requested("dag")' = {} /\ Requested("hand")' = Requested("hand")
                          /\ Requested("hand") # {} => ~ crossed
                          /\ kind' = kind /\ today' = today + 1
           /\ IngestLatest =>
                 /\ Requested("hand")' = Requested("hand") /\ answer' = answer
                 /\ todo'["hand"] = todo["hand"]
                 /\ kind' = kind /\ crossed' = crossed /\ today' = today
                 /\ \E s \in Weeks : /\ IsLatest(s) \/ (Starts = {} /\ s = today - WindowWeeks)
                                     /\ Requested("dag")' = {<<s, today>>}
           /\ \A k \in Env, W \in SUBSET Window :
                 StartByHand(k, W) =>
                    /\ Requested("dag")' = Requested("dag") /\ Requested("hand")' = W
                    /\ answer'["hand"] = NoRow
                    /\ kind' = k /\ crossed' = FALSE /\ today' = today
           /\ \A j \in Jobs : Fetch(j) =>
                 /\ \A i \in Jobs : Requested(i)' = Requested(i)
                 /\ kind' = kind /\ crossed' = crossed /\ today' = today
           /\ \A j \in Jobs : Fail(j) =>
                 /\ Requested(j)' = {}
                 /\ \A i \in Jobs : i # j => /\ Requested(i)' = Requested(i)
                                             /\ answer'[i] = answer[i] /\ todo'[i] = todo[i]
                 /\ kind' = kind /\ crossed' = crossed /\ today' = today
  <1> USE DEF Requested, Idle, Jobs
  <1>1. /\ todo \in [{"dag", "hand"} -> SUBSET Window]
        /\ answer \in [{"dag", "hand"} -> Window \cup {NoRow}]
    BY DEF TypeInv, TypeOK
  <1>2. ASSUME NextWeek
        PROVE  /\ Requested("dag")' = {} /\ Requested("hand")' = Requested("hand")
               /\ Requested("hand") # {} => ~ crossed
               /\ kind' = kind /\ today' = today + 1
    BY <1>2 DEF NextWeek
  <1>3. ASSUME IngestLatest
        PROVE  /\ Requested("hand")' = Requested("hand") /\ answer' = answer
               /\ todo'["hand"] = todo["hand"]
               /\ kind' = kind /\ crossed' = crossed /\ today' = today
               /\ \E s \in Weeks : /\ IsLatest(s) \/ (Starts = {} /\ s = today - WindowWeeks)
                                   /\ Requested("dag")' = {<<s, today>>}
    <2>1. PICK s \in Weeks : /\ IsLatest(s) \/ (Starts = {} /\ s = today - WindowWeeks)
                             /\ StartJob("dag", {<<s, today>>})
      <3>1. CASE \E s \in Weeks : IsLatest(s) /\ StartJob("dag", {RefreshWindow(s)})
        BY <3>1 DEF RefreshWindow
      <3>2. CASE Starts = {} /\ StartJob("dag", {FirstWindow})
        BY <3>2, DaysNumbers, Numbers, today - WindowWeeks \in Weeks DEF FirstWindow, Weeks
      <3> QED BY <1>3, <3>1, <3>2 DEF IngestLatest
    <2>2. /\ todo' = [todo EXCEPT !["dag"] = {<<s, today>>}] /\ answer' = answer
          /\ answer["dag"] = NoRow /\ today' = today
      BY <2>1 DEF StartJob
    <2>3. Requested("dag")' = {<<s, today>>}
      BY <1>1, <2>2
    <2> QED BY <1>1, <1>3, <2>1, <2>2, <2>3 DEF IngestLatest
  <1>4. ASSUME NEW k \in Env, NEW W \in SUBSET Window, StartByHand(k, W)
        PROVE  /\ Requested("dag")' = Requested("dag") /\ Requested("hand")' = W
               /\ answer'["hand"] = NoRow
               /\ kind' = k /\ crossed' = FALSE /\ today' = today
    BY <1>1, <1>4 DEF StartByHand, StartJob
  <1>5. ASSUME NEW j \in Jobs, Fetch(j)
        PROVE  /\ \A i \in Jobs : Requested(i)' = Requested(i)
               /\ kind' = kind /\ crossed' = crossed /\ today' = today
    <2>1. PICK w \in todo[j] : /\ answer[j] = NoRow /\ answer' = [answer EXCEPT ![j] = w]
                               /\ todo' = [todo EXCEPT ![j] = @ \ {w}]
      BY <1>5 DEF Fetch
    <2>2. w # NoRow
      BY <1>1, Numbers
    <2> QED BY <1>1, <1>5, <2>1, <2>2 DEF Fetch
  <1>6. ASSUME NEW j \in Jobs, Fail(j)
        PROVE  /\ Requested(j)' = {}
               /\ \A i \in Jobs : i # j => /\ Requested(i)' = Requested(i)
                                           /\ answer'[i] = answer[i] /\ todo'[i] = todo[i]
               /\ kind' = kind /\ crossed' = crossed /\ today' = today
    BY <1>1, <1>6 DEF Fail
  <1> QED BY <1>2, <1>3, <1>4, <1>5, <1>6

LEMMA DagAsksKept ==
    TypeInv /\ DagAsks /\ [Next]_vars => DagAsks'
  <1> SUFFICES ASSUME TypeInv, DagAsks, [Next]_vars PROVE DagAsks'
    OBVIOUS
  <1> "dag" \in Jobs /\ "hand" \in Jobs
    BY DEF Jobs
  \* A step that asks for nothing more.
  <1>1. ASSUME Requested("dag")' \subseteq Requested("dag"), today' = today,
               Quiet \/ \E j \in Jobs : Store(j)
        PROVE  DagAsks'
    BY <1>1, RowsGrow DEF DagAsks
  <1>2. CASE UNCHANGED vars
    BY <1>2, <1>1 DEF vars, table, Requested, Quiet
  <1>3. CASE NextWeek
    BY <1>3, Asks DEF DagAsks
  <1>4. CASE IngestLatest
    <2>1. PICK s \in Weeks : /\ IsLatest(s) \/ (Starts = {} /\ s = today - WindowWeeks)
                             /\ Requested("dag")' = {<<s, today>>} /\ today' = today
      BY <1>4, Asks
    <2>2. Starts' = Starts
      BY <1>4 DEF IngestLatest, StartJob, table, Starts, Held
    <2> QED BY <2>1, <2>2 DEF DagAsks, IsLatest
  <1>5. ASSUME NEW k \in Env, NEW W \in SUBSET Window, StartByHand(k, W)
        PROVE  DagAsks'
    <2>1. Requested("dag")' = Requested("dag") /\ today' = today
      BY <1>5, Asks
    <2>2. Quiet
      BY <1>5 DEF StartByHand, StartJob, table, Quiet
    <2> QED BY <2>1, <2>2, <1>1 DEF Quiet
  <1>6. CASE BackfillHistory
    <2>1. "backfill" \in Env /\ StartByHand("backfill", WindowBounds(1, today))
      BY <1>6 DEF BackfillHistory, StartByHand
    <2>2. WindowBounds(1, today) \in SUBSET Window
      BY BoundsShape DEF TypeInv, TypeOK
    <2> QED BY <2>1, <2>2, <1>5
  <1>7. ASSUME NEW start \in Weeks, NEW end \in Weeks, IngestRange(start, end)
        PROVE  DagAsks'
    <2>1. "range" \in Env /\ StartByHand("range", {RangeWindow(start, end)})
      BY <1>7 DEF IngestRange, StartByHand
    <2>2. {RangeWindow(start, end)} \in SUBSET Window
      BY <1>7, Numbers DEF IngestRange, RangeWindow, Lesser, Window, Weeks
    <2> QED BY <2>1, <2>2, <1>5
  <1>8. ASSUME NEW j \in Jobs, Fetch(j) PROVE DagAsks'
    <2>1. Requested("dag")' = Requested("dag") /\ today' = today
      BY <1>8, Asks
    <2>2. Quiet
      BY <1>8 DEF Fetch, table, Quiet
    <2> QED BY <2>1, <2>2, <1>1 DEF Quiet
  <1>9. ASSUME NEW j \in Jobs, Store(j) PROVE DagAsks'
    <2>1. Requested("dag")' \subseteq Requested("dag")
      BY <1>9, StoreRequests DEF TypeInv
    <2>2. today' = today
      BY <1>9 DEF Store
    <2> QED BY <2>1, <2>2, <1>1, <1>9
  <1>10. ASSUME NEW j \in Jobs, Fail(j) PROVE DagAsks'
    <2>1. Requested("dag")' \subseteq Requested("dag") /\ today' = today
      BY <1>10, Asks
    <2>2. Quiet
      BY <1>10 DEF Fail, table, Quiet
    <2> QED BY <2>1, <2>2, <1>1 DEF Quiet
  <1> QED BY <1>2, <1>3, <1>4, <1>6, <1>7, <1>8, <1>9, <1>10 DEF Next, JobStep

-----------------------------------------------------------------------------
(***************************************************************************)
(* A back-fill under way.                                                  *)
(***************************************************************************)

\* All of a window is stored under its start, but for lost weeks.
Stored(w) == \A v \in w[1] .. w[2] : Covered(w[1], v)

\* The job by hand back-fills up to e, the week it started in: the windows it has not
\* yet to store are stored, and what it has the answer of is the oldest of the rest.
BackfillTo(e) ==
    /\ e > WindowWeeks /\ e <= today /\ today <= e + 1
    /\ ~ crossed => e = today
    /\ Requested("hand") \subseteq WindowBounds(1, e)
    /\ \A w \in WindowBounds(1, e) : w \in Requested("hand") \/ Stored(w)
    /\ answer["hand"] # NoRow => \A w \in todo["hand"] : answer["hand"][1] < w[1]

HandAsks ==
    Requested("hand") # {} =>
        kind = "range" \/ (kind = "backfill" /\ \E e \in Weeks : BackfillTo(e))

LEMMA StoredKept ==
    ASSUME TypeInv, Quiet \/ \E j \in Jobs : Store(j), NEW w \in Window, Stored(w)
    PROVE  Stored(w)'
  <1>1. w[1] \in Weeks /\ w[1] .. w[2] \subseteq Weeks
    BY Numbers DEF Window, Weeks
  <1> QED BY <1>1, RowsGrow DEF Stored

\* A step that takes nothing from the job by hand, or only stores what it takes.
LEMMA BackfillGoesOn ==
    ASSUME TypeInv, Quiet \/ \E j \in Jobs : Store(j), NEW e \in Weeks, BackfillTo(e),
           Requested("hand")' \subseteq Requested("hand"),
           \A w \in Requested("hand") : w \in Window /\ (w \in Requested("hand")' \/ Stored(w)'),
           answer'["hand"] # NoRow => \A w \in todo'["hand"] : answer'["hand"][1] < w[1],
           today' <= e + 1, today' \in Nat, today <= today', ~ crossed' => e = today'
    PROVE  BackfillTo(e)'
  <1>1. e \in Nat /\ today \in Nat
    BY DaysNumbers, Numbers DEF Weeks
  <1>2. \A w \in WindowBounds(1, e) : w \in Window
    BY BoundsShape
  <1>3. \A w \in WindowBounds(1, e) : w \in Requested("hand")' \/ Stored(w)'
    BY <1>2, StoredKept DEF BackfillTo
  <1>4. e <= today'
    BY <1>1 DEF BackfillTo
  <1> QED BY <1>3, <1>4 DEF BackfillTo

\* The answer a back-fill stores is one of its windows, by week, and the windows
\* before it are stored.
LEMMA BackfillStores ==
    ASSUME TypeInv, NEW e \in Weeks, BackfillTo(e), Store("hand")
    PROVE  /\ answer["hand"] \in WindowBounds(1, e)
           /\ Grid(answer["hand"]) = "week"
           /\ \A w \in WindowBounds(1, e) : w[1] < answer["hand"][1] => Stored(w)
  <1>1. answer["hand"] # NoRow /\ "hand" \in Jobs
    BY DEF Store, Jobs
  <1>2. answer["hand"] \in Requested("hand")
    BY <1>1 DEF Requested
  <1>3. answer["hand"] \in WindowBounds(1, e) /\ e > WindowWeeks
    BY <1>2 DEF BackfillTo
  <1>4. Grid(answer["hand"]) = "week"
    BY <1>3, BoundsWeekly
  <1>5. ASSUME NEW w \in WindowBounds(1, e), w[1] < answer["hand"][1] PROVE Stored(w)
    <2>1. w[1] \in Nat /\ answer["hand"][1] \in Nat
      BY <1>3, BoundsShape, Numbers DEF Weeks
    <2>2. w # answer["hand"]
      BY <1>5, <2>1
    <2>3. w \notin todo["hand"]
      BY <1>1, <1>5, <2>1 DEF BackfillTo
    <2> QED BY <2>2, <2>3 DEF BackfillTo, Requested
  <1> QED BY <1>3, <1>4, <1>5

LEMMA HandAsksKept ==
    TypeInv /\ HandAsks /\ [Next]_vars => HandAsks'
  <1> SUFFICES ASSUME TypeInv, HandAsks, [Next]_vars, Requested("hand")' # {}
               PROVE  kind' = "range" \/ (kind' = "backfill" /\ \E e \in Weeks : BackfillTo(e)')
    BY DEF HandAsks
  <1> "dag" \in Jobs /\ "hand" \in Jobs
    BY DEF Jobs
  <1>0. /\ today \in Nat /\ \A w \in Requested("hand") : w \in Window
    BY DaysNumbers DEF Requested, TypeInv, TypeOK
  \* A step that takes and adds nothing.
  <1>1. ASSUME Requested("hand")' = Requested("hand"),
               answer'["hand"] # NoRow => \A w \in todo'["hand"] : answer'["hand"][1] < w[1],
               kind' = kind, crossed' = crossed, today' = today,
               Quiet \/ \E j \in Jobs : Store(j)
        PROVE  kind' = "range" \/ (kind' = "backfill" /\ \E e \in Weeks : BackfillTo(e)')
    <2>1. CASE kind = "range"
      BY <1>1, <2>1
    <2>2. CASE kind # "range"
      <3>1. PICK e \in Weeks : kind = "backfill" /\ BackfillTo(e)
        BY <1>1, <2>2 DEF HandAsks
      <3>2. BackfillTo(e)'
        BY <1>0, <1>1, <3>1, BackfillGoesOn DEF BackfillTo
      <3> QED BY <1>1, <3>1, <3>2
    <2> QED BY <2>1, <2>2
  \* A step that changes nothing of it.
  <1>2. ASSUME answer'["hand"] = answer["hand"], todo'["hand"] = todo["hand"],
               kind' = kind, crossed' = crossed, today' = today,
               Quiet \/ \E j \in Jobs : Store(j)
        PROVE  kind' = "range" \/ (kind' = "backfill" /\ \E e \in Weeks : BackfillTo(e)')
    <2>1. Requested("hand")' = Requested("hand")
      BY <1>2 DEF Requested
    <2>2. CASE kind = "range"
      BY <1>2, <2>2
    <2>3. CASE kind # "range"
      <3>1. answer'["hand"] # NoRow => \A w \in todo'["hand"] : answer'["hand"][1] < w[1]
        BY <1>2, <2>1, <2>3 DEF HandAsks, BackfillTo
      <3> QED BY <1>1, <1>2, <2>1, <3>1
    <2> QED BY <2>2, <2>3
  <1>3. CASE UNCHANGED vars
    BY <1>3, <1>2 DEF vars, table, Quiet
  <1>4. CASE NextWeek
    <2>1. /\ Requested("hand")' = Requested("hand") /\ ~ crossed
          /\ kind' = kind /\ today' = today + 1
          /\ answer' = answer /\ todo' = todo
          /\ crossed' = TRUE
      BY <1>4, Asks DEF NextWeek, Idle, Requested
    <2>2. CASE kind = "range"
      BY <2>1, <2>2
    <2>3. CASE kind # "range"
      <3>1. PICK e \in Weeks : kind = "backfill" /\ BackfillTo(e)
        BY <2>1, <2>3 DEF HandAsks
      <3>2. e = today
        BY <2>1, <3>1 DEF BackfillTo
      <3>3. Quiet
        BY <1>4 DEF NextWeek, table, Quiet
      <3>4. today' <= e + 1 /\ today' \in Nat /\ today <= today'
        BY <1>0, <2>1, <3>2
      <3>5. answer'["hand"] # NoRow => \A w \in todo'["hand"] : answer'["hand"][1] < w[1]
        BY <2>1, <3>1 DEF BackfillTo
      <3>6. BackfillTo(e)'
        BY <1>0, <2>1, <3>1, <3>3, <3>4, <3>5, BackfillGoesOn
      <3> QED BY <2>1, <3>1, <3>6
    <2> QED BY <2>2, <2>3
  <1>5. CASE IngestLatest
    <2>1. Quiet
      BY <1>5 DEF IngestLatest, StartJob, table, Quiet
    <2> QED BY <1>2, <1>5, <2>1, Asks
  <1>6. CASE BackfillHistory
    <2> DEFINE W == WindowBounds(1, today)
    <2>1. "backfill" \in Env /\ StartByHand("backfill", W) /\ today \in Weeks
      BY <1>6 DEF BackfillHistory, StartByHand, TypeInv, TypeOK
    <2>2. W \in SUBSET Window
      BY <2>1, BoundsShape
    <2>3. /\ Requested("hand")' = W /\ answer'["hand"] = NoRow
          /\ kind' = "backfill" /\ crossed' = FALSE /\ today' = today
      BY <2>1, <2>2, Asks
    <2>4. PICK e \in Weeks : e = today
      BY <2>1
    <2>5. e > WindowWeeks /\ e <= today /\ today <= e + 1
      BY <2>4, DaysNumbers
    <2>6. Requested("hand")' = WindowBounds(1, e)
      BY <2>3, <2>4
    <2> HIDE DEF W
    <2>7. BackfillTo(e)'
      BY <2>3, <2>4, <2>5, <2>6 DEF BackfillTo
    <2> QED BY <2>3, <2>7
  <1>7. CASE \E start, end \in Weeks : IngestRange(start, end)
    BY <1>7 DEF IngestRange, StartByHand
  <1>8. ASSUME NEW j \in Jobs, Fetch(j)
        PROVE  kind' = "range" \/ (kind' = "backfill" /\ \E e \in Weeks : BackfillTo(e)')
    <2>1. Quiet
      BY <1>8 DEF Fetch, table, Quiet
    <2>2. CASE j = "dag"
      BY <1>2, <1>8, <2>1, <2>2 DEF Fetch, TypeInv, TypeOK, Jobs
    <2>3. CASE j = "hand"
      <3>1. PICK w \in todo["hand"] : /\ answer' = [answer EXCEPT !["hand"] = w]
                                      /\ todo' = [todo EXCEPT !["hand"] = @ \ {w}]
                                      /\ \A v \in todo["hand"] : w[1] <= v[1]
        BY <1>8, <2>3 DEF Fetch
      <3>2. /\ Requested("hand")' = Requested("hand")
            /\ kind' = kind /\ crossed' = crossed /\ today' = today
        BY <1>8, Asks
      <3>3. CASE kind = "range"
        BY <3>2, <3>3
      <3>4. CASE kind # "range"
        <4>1. PICK e \in Weeks : kind = "backfill" /\ BackfillTo(e)
          BY <3>2, <3>4 DEF HandAsks
        <4>2. \A v \in todo["hand"] : v \in WindowBounds(1, e)
          BY <4>1 DEF BackfillTo, Requested
        <4>3. \A v \in todo["hand"] : v[1] = w[1] => v = w
          BY <4>2, BoundsShape
        <4>4. \A v \in todo["hand"] : v # w => w[1] < v[1]
          BY <3>1, <4>2, <4>3, BoundsShape, Numbers DEF Weeks
        <4>5. answer'["hand"] = w /\ todo'["hand"] = todo["hand"] \ {w}
          BY <3>1 DEF TypeInv, TypeOK
        <4>6. answer'["hand"] # NoRow => \A v \in todo'["hand"] : answer'["hand"][1] < v[1]
          BY <4>4, <4>5
        <4> QED BY <1>1, <2>1, <3>2, <4>6
      <3> QED BY <3>3, <3>4
    <2> QED BY <2>2, <2>3 DEF Jobs
  <1>9. ASSUME NEW j \in Jobs, Store(j)
        PROVE  kind' = "range" \/ (kind' = "backfill" /\ \E e \in Weeks : BackfillTo(e)')
    <2>1. /\ answer' = [answer EXCEPT ![j] = NoRow] /\ todo' = todo
          /\ kind' = kind /\ crossed' = crossed /\ today' = today
      BY <1>9 DEF Store
    <2>2. CASE j = "dag"
      BY <1>2, <1>9, <2>1, <2>2 DEF TypeInv, TypeOK, Jobs
    <2>3. CASE j = "hand"
      <3>1. Requested("hand")' \subseteq Requested("hand")
        BY <1>9, StoreRequests DEF TypeInv
      <3>2. CASE kind = "range"
        BY <2>1, <3>2
      <3>3. CASE kind # "range"
        <4>1. PICK e \in Weeks : kind = "backfill" /\ BackfillTo(e)
          BY <3>1, <3>3 DEF HandAsks
        <4>2. answer'["hand"] = NoRow
          BY <2>1, <2>3 DEF TypeInv, TypeOK
        <4> PICK a \in Window : a = answer["hand"]
          BY <1>9, <2>3, StoreEffect DEF TypeInv
        <4>3. Grid(a) = "week"
          BY <1>9, <2>3, <4>1, BackfillStores
        <4>5. Stored(a)'
          BY <1>9, <2>3, <4>3, StoreCovers DEF Stored
        <4>6. \A w \in Requested("hand") : w \in Requested("hand")' \/ w = a
          BY <2>1 DEF Requested
        <4>7. /\ today' <= e + 1 /\ today' \in Nat /\ today <= today'
              /\ ~ crossed' => e = today'
          BY <1>0, <2>1, <4>1 DEF BackfillTo
        <4>8. BackfillTo(e)'
          BY <1>0, <1>9, <3>1, <4>1, <4>2, <4>5, <4>6, <4>7, BackfillGoesOn
        <4> QED BY <2>1, <4>1, <4>8
      <3> QED BY <3>2, <3>3
    <2> QED BY <2>2, <2>3 DEF Jobs
  <1>10. ASSUME NEW j \in Jobs, Fail(j)
        PROVE  kind' = "range" \/ (kind' = "backfill" /\ \E e \in Weeks : BackfillTo(e)')
    <2>1. j = "dag"
      BY <1>10, Asks DEF Jobs
    <2>2. Quiet
      BY <1>10 DEF Fail, table, Quiet
    <2> QED BY <1>2, <1>10, <2>1, <2>2, Asks
  <1> QED BY <1>3, <1>4, <1>5, <1>6, <1>7, <1>8, <1>9, <1>10 DEF Next, JobStep

-----------------------------------------------------------------------------
(***************************************************************************)
(* The chain of the windows.                                               *)
(***************************************************************************)

\* A window of a back-fill: the windows that a back-fill has before it are stored, and
\* itself it reaches to within a step of its full length.
OnGrid(s) ==
    /\ IsStep(s)
    /\ \A b \in Weeks : IsStep(b) /\ b < s =>
          b + WindowWeeks \in Weeks /\ Stored(<<b, b + WindowWeeks>>)
    /\ s # 1 => /\ s + WindowWeeks - Step \in Weeks
                /\ Stored(<<s, s + WindowWeeks - Step>>)

\* A window the DAG started when the table was empty: uncut.
Uncut(s) == s + WindowWeeks <= today /\ Stored(<<s, s + WindowWeeks>>)

\* While no range was loaded, every start covers its own week and is of one of the two.
StartsKnown == ~ ranged => \A s \in Starts : Covered(s, s) /\ (OnGrid(s) \/ Uncut(s))

\* A back-fill up to e is complete and there are windows, and what is not of a back-fill
\* starts by then.
CompleteTo(e) ==
    /\ \A w \in WindowBounds(1, e) : Stored(w)
    /\ Starts # {}
    /\ ~ ranged => /\ \A s \in Starts : OnGrid(s) \/ (Uncut(s) /\ s <= e)
                   /\ \A w \in Requested("dag") : w[1] \in Starts \/ w[1] <= e

WholeTo == whole => \E e \in Weeks : CompleteTo(e)

ChainInv == Intervals /\ DagAsks /\ HandAsks /\ StartsKnown /\ WholeTo

LEMMA KindsKept ==
    ASSUME TypeInv, Quiet \/ \E j \in Jobs : Store(j), NEW s \in Weeks
    PROVE  /\ Covered(s, s) => Covered(s, s)'
           /\ OnGrid(s) => OnGrid(s)'
           /\ Uncut(s) => Uncut(s)'
  <1>1. ASSUME NEW b \in Weeks, NEW v \in Weeks, b <= v, Stored(<<b, v>>)
        PROVE  Stored(<<b, v>>)'
    <2>1. <<b, v>> \in Window
      BY <1>1 DEF Window
    <2> QED BY <1>1, <2>1, StoredKept
  <1>2. \A b \in Weeks : b <= b + WindowWeeks /\ b <= b + WindowWeeks - Step
    BY Numbers, StepBounds DEF Weeks
  <1>3. OnGrid(s) => OnGrid(s)'
    BY <1>1, <1>2 DEF OnGrid
  <1>4. ASSUME Uncut(s) PROVE Uncut(s)'
    <2>1. today' = today \/ today' = today + 1
      BY DEF Quiet, Store
    <2>2. s + WindowWeeks \in Weeks /\ s + WindowWeeks <= today'
      BY <1>4, <2>1, DaysNumbers, Numbers DEF Uncut, Weeks
    <2> QED BY <1>1, <1>2, <1>4, <2>2 DEF Uncut
  <1> QED BY <1>3, <1>4, RowsGrow

LEMMA StartsAreWeeks == TypeInv => Starts \subseteq Weeks
  BY DEF TypeInv, TypeOK, Starts

\* What a store adds to the starts, while no range was loaded: a window of a back-fill
\* or the DAG's first.
LEMMA NewStart ==
    ASSUME TypeInv, DagAsks, HandAsks,
           NEW j \in Jobs, Store(j), ~ ranged', NEW s \in Starts', s \notin Starts
    PROVE  /\ Covered(s, s)'
           /\ \/ OnGrid(s)'
              \/ /\ Uncut(s)'
                 /\ \E w \in Requested("dag") : w[1] = s
  <1>1. PICK a \in Window : a = answer[j]
    BY StoreEffect DEF TypeInv
  <1>2. s = a[1] /\ a \in Requested(j) /\ ~ ranged
    BY <1>1, StoreRequests DEF TypeInv, Store
  <1>3. s \in Weeks /\ a[2] \in Weeks /\ s <= a[2] /\ s .. a[2] \subseteq Weeks
    BY <1>2, Numbers DEF Window, Weeks
  <1>4. s \in s .. a[2]
    BY <1>3, Numbers DEF Weeks
  <1>5. Grid(a) = "week" => \A v \in s .. a[2] : Covered(s, v)'
    BY <1>1, <1>2, StoreCovers
  <1>6. CASE j = "dag"
    <2>1. a[2] = today /\ s = today - WindowWeeks
      BY <1>2, <1>6 DEF DagAsks
    <2>2. today \in Nat /\ today' = today
      BY DaysNumbers DEF Store
    <2>3. a[2] - a[1] = WindowWeeks
      BY <1>2, <2>1, <2>2, Numbers
    <2>4. Grid(a) = "week"
      BY <2>3, Numbers DEF Grid
    <2>5. s + WindowWeeks = a[2]
      BY <1>3, <2>1, <2>2, Numbers DEF Weeks
    <2>6. Uncut(s)'
      BY <1>5, <2>1, <2>2, <2>4, <2>5 DEF Uncut, Stored
    <2> QED BY <1>2, <1>4, <1>5, <1>6, <2>4, <2>6
  <1>7. CASE j = "hand"
    <2>1. kind # "range"
      BY <1>7 DEF Store
    <2>2. PICK e \in Weeks : BackfillTo(e)
      BY <1>2, <1>7, <2>1 DEF HandAsks
    <2>3. /\ a \in WindowBounds(1, e) /\ Grid(a) = "week"
          /\ \A w \in WindowBounds(1, e) : w[1] < a[1] => Stored(w)
      BY <1>1, <1>7, <2>2, BackfillStores
    <2>4. IsStep(s) /\ (s = 1 \/ s - Step + WindowWeeks < e) /\ e \in Nat /\ e <= LastWeek
      BY <1>2, <2>3, BoundsShape, Numbers DEF Weeks
    <2>5. ASSUME NEW b \in Weeks, IsStep(b), b < s
          PROVE  b + WindowWeeks \in Weeks /\ Stored(<<b, b + WindowWeeks>>)'
      <3>1. /\ b + Step <= s /\ b \in Nat /\ b >= 1 /\ s \in Nat
            /\ s - Step + WindowWeeks < e
        BY <1>3, <2>4, <2>5, StepsApart DEF Weeks
      <3>2. b + WindowWeeks < e /\ b <= e /\ b - Step + WindowWeeks < e
        BY <2>4, <3>1, StepBounds, Numbers
      <3>3. Lesser(b + WindowWeeks, e) = b + WindowWeeks
        BY <3>2 DEF Lesser
      <3>4. <<b, b + WindowWeeks>> \in WindowBounds(1, e)
        BY <2>5, <3>2, <3>3, BoundsMember
      <3>5. Stored(<<b, b + WindowWeeks>>)
        BY <1>2, <2>3, <2>5, <3>4
      <3>6. <<b, b + WindowWeeks>> \in Window
        BY <3>4, BoundsShape
      <3>7. b + WindowWeeks \in Weeks
        BY <2>4, <3>1, <3>2, Numbers DEF Weeks
      <3> QED BY <3>5, <3>6, <3>7, StoredKept
    <2>6. ASSUME s # 1
          PROVE  /\ s + WindowWeeks - Step \in Weeks
                 /\ Stored(<<s, s + WindowWeeks - Step>>)'
      <3>1. s + WindowWeeks - Step \in s .. a[2] /\ s + WindowWeeks - Step \in Weeks
        BY <1>2, <2>3, <2>6, BoundsPrevious
      <3>2. \A v \in s .. (s + WindowWeeks - Step) : v \in s .. a[2]
        BY <1>3, <3>1, Numbers DEF Weeks
      <3> QED BY <1>5, <2>3, <3>1, <3>2 DEF Stored
    <2>7. OnGrid(s)'
      BY <2>4, <2>5, <2>6 DEF OnGrid
    <2> QED BY <1>4, <1>5, <2>3, <2>7
  <1> QED BY <1>6, <1>7 DEF Jobs

LEMMA StartsKnownKept ==
    TypeInv /\ ChainInv /\ [Next]_vars => StartsKnown'
  <1> SUFFICES ASSUME TypeInv, ChainInv, [Next]_vars, ~ ranged', NEW s \in Starts'
               PROVE  Covered(s, s)' /\ (OnGrid(s)' \/ Uncut(s)')
    BY DEF StartsKnown
  <1>1. ASSUME Quiet \/ \E j \in Jobs : Store(j), s \in Starts, ~ ranged
        PROVE  Covered(s, s)' /\ (OnGrid(s)' \/ Uncut(s)')
    BY <1>1, KindsKept, StartsAreWeeks DEF StartsKnown, ChainInv
  <1>2. CASE Quiet
    BY <1>1, <1>2, QuietRows DEF Quiet
  <1>3. ASSUME NEW j \in Jobs, Store(j)
        PROVE  Covered(s, s)' /\ (OnGrid(s)' \/ Uncut(s)')
    <2>1. ~ ranged
      BY <1>3 DEF Store
    <2>2. CASE s \in Starts
      BY <1>1, <1>3, <2>1, <2>2
    <2>3. CASE s \notin Starts
      BY <1>3, <2>3, NewStart DEF ChainInv
    <2> QED BY <2>2, <2>3
  <1> QED BY <1>2, <1>3, QuietOrStore

\* A complete back-fill stays one: what the DAG adds later is what it had asked for.
LEMMA CompleteKept ==
    ASSUME TypeInv, ChainInv, [Next]_vars, NEW e \in Weeks, CompleteTo(e)
    PROVE  CompleteTo(e)'
  <1>0. Quiet \/ \E j \in Jobs : Store(j)
    BY QuietOrStore
  <1>1. \A w \in WindowBounds(1, e) : Stored(w)'
    <2>1. \A w \in WindowBounds(1, e) : w \in Window
      BY BoundsShape
    <2> QED BY <1>0, <2>1, StoredKept DEF CompleteTo
  <1>2. Starts \subseteq Starts' /\ Starts # {}
    BY <1>0, RowsGrow DEF CompleteTo
  <1> SUFFICES ASSUME ~ ranged'
               PROVE  /\ \A s \in Starts' : OnGrid(s)' \/ (Uncut(s)' /\ s <= e)
                      /\ \A w \in Requested("dag")' : w[1] \in Starts' \/ w[1] <= e
    BY <1>1, <1>2 DEF CompleteTo
  <1>6. ~ ranged
    BY <1>0 DEF Quiet, Store
  <1>3. \A s \in Starts : OnGrid(s)' \/ (Uncut(s)' /\ s <= e)
    BY <1>0, <1>6, KindsKept, StartsAreWeeks DEF CompleteTo
  <1>4. ASSUME NEW s \in Starts' PROVE OnGrid(s)' \/ (Uncut(s)' /\ s <= e)
    <2>1. CASE s \in Starts
      BY <1>3, <2>1
    <2>2. CASE s \notin Starts
      <3>1. PICK j \in Jobs : Store(j)
        BY <1>0, <2>2, QuietRows
      <3>2. OnGrid(s)' \/ (Uncut(s)' /\ \E w \in Requested("dag") : w[1] = s)
        BY <2>2, <3>1, NewStart DEF ChainInv
      <3> QED BY <1>6, <2>2, <3>2 DEF CompleteTo
    <2> QED BY <2>1, <2>2
  <1>5. ASSUME NEW w \in Requested("dag")' PROVE w[1] \in Starts' \/ w[1] <= e
    <2>1. CASE w \in Requested("dag")
      BY <1>2, <1>6, <2>1 DEF CompleteTo
    <2>2. CASE w \notin Requested("dag")
      <3>1. IngestLatest
        <4>1. "dag" \in Jobs /\ "hand" \in Jobs
          BY DEF Jobs
        <4>2. UNCHANGED vars => Requested("dag")' = Requested("dag")
          BY DEF vars, Requested
        <4>3. NextWeek => Requested("dag")' = {}
          BY Asks
        <4>4. \A k \in Env, W \in SUBSET Window : StartByHand(k, W) => Requested("dag")' = Requested("dag")
          BY Asks
        <4>5. BackfillHistory => Requested("dag")' = Requested("dag")
          <5>1. WindowBounds(1, today) \in SUBSET Window
            BY BoundsShape DEF TypeInv, TypeOK
          <5> QED BY <4>4, <5>1 DEF BackfillHistory, StartByHand
        <4>6. \A start, end \in Weeks : IngestRange(start, end) => Requested("dag")' = Requested("dag")
          <5> SUFFICES ASSUME NEW start \in Weeks, NEW end \in Weeks, IngestRange(start, end)
                       PROVE  Requested("dag")' = Requested("dag")
            OBVIOUS
          <5>1. {RangeWindow(start, end)} \in SUBSET Window
            BY Numbers DEF IngestRange, RangeWindow, Lesser, Window, Weeks
          <5> QED BY <4>4, <5>1 DEF IngestRange, StartByHand
        <4>7. \A j \in Jobs : Fetch(j) \/ Store(j) \/ Fail(j) => Requested("dag")' \subseteq Requested("dag")
          BY <4>1, Asks, StoreRequests DEF TypeInv
        <4> QED BY <2>2, <4>2, <4>3, <4>5, <4>6, <4>7 DEF Next, JobStep
      <3>2. PICK s \in Weeks : /\ IsLatest(s) \/ (Starts = {} /\ s = today - WindowWeeks)
                               /\ Requested("dag")' = {<<s, today>>}
        BY <3>1, Asks
      <3> QED BY <1>2, <3>2 DEF IsLatest
    <2> QED BY <2>1, <2>2
  <1> QED BY <1>4, <1>5

\* The last store of a back-fill makes it complete, with whatever the DAG has stored
\* or asked for: a window of the DAG's own is uncut, and at most one week has ended
\* since the back-fill started.
LEMMA BackfillEnds ==
    ASSUME TypeInv, ChainInv, [Next]_vars, ~ whole, whole'
    PROVE  \E e \in Weeks : CompleteTo(e)'
  <1>1. Store("hand") /\ kind = "backfill" /\ todo["hand"] = {} /\ "hand" \in Jobs /\ "dag" \in Jobs
    BY QuietOrStore DEF Quiet, Store, Jobs
  <1>2. PICK a \in Window : a = answer["hand"] /\ a \in Requested("hand")
    BY <1>1, StoreEffect, StoreRequests DEF TypeInv
  <1>3. PICK e \in Weeks : BackfillTo(e)
    BY <1>1, <1>2 DEF ChainInv, HandAsks
  <1>4. /\ e \in Nat /\ today \in Nat /\ e <= today /\ today <= e + 1 /\ today' = today
    BY <1>1, <1>3, DaysNumbers, Numbers DEF BackfillTo, Store, Weeks
  <1>5. Starts' # {}
    BY <1>1 DEF Store
  <1>6. Stored(a)'
    <2>1. Grid(a) = "week"
      BY <1>1, <1>2, <1>3, BackfillStores
    <2> QED BY <1>1, <1>2, <2>1, StoreCovers DEF Stored
  <1>7. ASSUME NEW w \in WindowBounds(1, e) PROVE Stored(w)'
    <2>1. w = a \/ Stored(w)
      BY <1>1, <1>2, <1>3 DEF BackfillTo, Requested
    <2>2. w \in Window
      BY BoundsShape
    <2> QED BY <1>1, <1>6, <2>1, <2>2, StoredKept
  <1>8. ASSUME ~ ranged', NEW s \in Starts' PROVE OnGrid(s)' \/ (Uncut(s)' /\ s <= e)
    <2>1. OnGrid(s)' \/ Uncut(s)'
      BY <1>8, StartsKnownKept DEF StartsKnown
    <2>2. ASSUME Uncut(s)' PROVE s <= e
      <3>1. s \in Weeks
        BY StepTypes DEF TypeInv, TypeOK, Starts
      <3>2. s + WindowWeeks <= today'
        BY <2>2 DEF Uncut
      <3> QED BY <1>4, <3>1, <3>2, Numbers DEF Weeks
    <2> QED BY <2>1, <2>2
  <1>9. ASSUME ~ ranged', NEW w \in Requested("dag")' PROVE w[1] \in Starts' \/ w[1] <= e
    <2>1. w \in Requested("dag")
      BY <1>1, <1>9, StoreRequests DEF TypeInv
    <2>2. CASE w[1] \in Starts
      BY <1>1, <2>2, RowsGrow
    <2>3. CASE w[1] = today - WindowWeeks
      BY <1>4, <2>3, Numbers
    <2> QED BY <2>1, <2>2, <2>3 DEF ChainInv, DagAsks
  <1> QED BY <1>5, <1>7, <1>8, <1>9 DEF CompleteTo

LEMMA InitChain == Init => ChainInv
  <1> SUFFICES ASSUME Init PROVE ChainInv
    OBVIOUS
  <1>1. \A s, v \in Weeks : ~ Row(s, v)
    BY DEF Init, Row
  <1>2. Starts = {}
    BY DEF Init, Starts, Held
  <1>3. Requested("dag") = {} /\ Requested("hand") = {} /\ whole = FALSE
    BY DEF Init, Requested, Jobs
  <1> QED BY <1>1, <1>2, <1>3
      DEF ChainInv, Intervals, DagAsks, HandAsks, StartsKnown, WholeTo

LEMMA StepChain == TypeInv /\ ChainInv /\ [Next]_vars => ChainInv'
  <1> SUFFICES ASSUME TypeInv, ChainInv, [Next]_vars PROVE ChainInv'
    OBVIOUS
  <1>1. Intervals'
    BY IntervalsKept DEF ChainInv
  <1>2. DagAsks'
    BY DagAsksKept DEF ChainInv
  <1>3. HandAsks'
    BY HandAsksKept DEF ChainInv
  <1>4. StartsKnown'
    BY StartsKnownKept
  <1>5. WholeTo'
    <2>1. CASE whole
      BY <2>1, CompleteKept DEF ChainInv, WholeTo
    <2>2. CASE ~ whole
      BY <2>2, BackfillEnds DEF WholeTo
    <2> QED BY <2>1, <2>2
  <1> QED BY <1>1, <1>2, <1>3, <1>4, <1>5 DEF ChainInv

LEMMA ChainInvHolds == Spec => []ChainInv
  BY InitChain, StepChain, TypeInvHolds, PTL DEF Spec

-----------------------------------------------------------------------------
(***************************************************************************)
(* The chain is whole.                                                     *)
(***************************************************************************)

\* A covered week that is not lost is stored, under a start.
LEMMA CoveredIsHeld ==
    ASSUME NEW g \in Weeks, NEW v \in Weeks, Covered(g, v), v \notin lost
    PROVE  Row(g, v) /\ g \in Starts /\ v \in Held(g)
  BY StartsAre DEF Covered, Row, Held

\* In a complete chain the window before a start holds that start, unless it is lost.
LEMMA PreviousReaches ==
    ASSUME TypeInv, ChainInv, ~ ranged, NEW e \in Weeks, CompleteTo(e),
           NEW s \in Starts, NEW p \in Weeks, IsPrevious(p, s), s \notin lost
    PROVE  s \in Held(p)
  <1>1. p \in Starts /\ p < s /\ \A q \in Starts : q < s => q <= p
    BY DEF IsPrevious
  <1>2. /\ s \in Weeks /\ s \in Nat /\ p \in Nat /\ e \in Nat /\ p >= 1 /\ 1 < s
        /\ WindowWeeks \in Nat /\ Step \in Nat \ {0} /\ Step <= WindowWeeks
    BY <1>1, StartsAreWeeks, StepBounds, Numbers DEF Weeks
  <1>3. OnGrid(s) \/ (Uncut(s) /\ s <= e)
    BY DEF CompleteTo
  <1>4. OnGrid(p) \/ Uncut(p)
    BY <1>1 DEF CompleteTo
  \* A window of the back-fill that holds s is the one before s, or starts before it.
  <1>5. ASSUME NEW q \in Weeks, q < s, Covered(q, s) PROVE q <= p /\ (q = p => s \in Held(p))
    BY <1>1, <1>2, <1>5, CoveredIsHeld
  \* An uncut window in between is long enough.
  <1>6. ASSUME NEW q \in Weeks, q < p, s <= q + WindowWeeks, Uncut(p) PROVE s \in Held(p)
    <2>1. s \in p .. (p + WindowWeeks)
      BY <1>1, <1>2, <1>6 DEF Weeks
    <2>2. Covered(p, s)
      BY <1>6, <2>1 DEF Uncut, Stored
    <2> QED BY <1>2, <2>2, CoveredIsHeld
  <1>7. CASE OnGrid(s)
    <2> DEFINE q == s - Step
    <2>1. q \in Weeks /\ q < s /\ IsStep(q) /\ s = q + Step
      <3>1. s > Step /\ IsStep(s - Step)
        BY <1>2, <1>7, StepBack DEF OnGrid
      <3> QED BY <1>2, <3>1, Numbers DEF Weeks
    <2> HIDE DEF q
    <2>2. Covered(q, s)
      <3>1. s \in q .. (q + WindowWeeks)
        BY <1>2, <2>1 DEF Weeks
      <3> QED BY <1>7, <2>1, <3>1 DEF OnGrid, Stored
    <2>3. CASE q = p
      BY <1>5, <2>1, <2>2, <2>3
    <2>4. CASE q < p
      <3>1. ~ OnGrid(p)
        <4>1. IsStep(p) => q + Step <= p
          BY <1>2, <2>1, <2>4, StepsApart DEF Weeks
        <4> QED BY <1>1, <1>2, <2>1, <4>1 DEF OnGrid
      <3>2. s <= q + WindowWeeks
        BY <1>2, <2>1 DEF Weeks
      <3> QED BY <1>4, <1>6, <2>1, <2>4, <3>1, <3>2
    <2> QED BY <1>2, <1>5, <2>1, <2>2, <2>3, <2>4 DEF Weeks
  <1>8. CASE Uncut(s) /\ s <= e
    <2>1. PICK q \in Weeks :
             /\ IsStep(q) /\ q < s
             /\ <<q, Lesser(q + WindowWeeks, e)>> \in WindowBounds(1, e)
             /\ s \in q .. Lesser(q + WindowWeeks, e)
             /\ \A b \in Weeks : IsStep(b) /\ q < b /\ b < s => e <= b - Step + WindowWeeks
      BY <1>2, <1>8, Reach
    <2>2. Covered(q, s)
      BY <2>1 DEF CompleteTo, Stored
    <2>3. CASE q = p
      BY <1>5, <2>1, <2>2, <2>3
    <2>4. CASE q < p /\ Uncut(p)
      <3>1. s <= q + WindowWeeks
        BY <1>2, <2>1 DEF Lesser, Weeks
      <3> QED BY <1>6, <2>4, <3>1
    <2>5. CASE q < p /\ OnGrid(p)
      <3>1. e <= p - Step + WindowWeeks /\ p # 1
        BY <1>1, <2>1, <2>5 DEF OnGrid, Weeks
      <3>2. s \in p .. (p + WindowWeeks - Step)
        BY <1>1, <1>2, <1>8, <3>1
      <3>3. Covered(p, s)
        BY <2>5, <3>1, <3>2 DEF OnGrid, Stored
      <3> QED BY <1>2, <3>3, CoveredIsHeld
    <2> QED BY <1>2, <1>4, <1>5, <2>1, <2>2, <2>3, <2>4, <2>5 DEF Weeks
  <1> QED BY <1>3, <1>7, <1>8

\* A complete chain has every week up to the newest, but for lost ones: the window it is
\* stored under, or else the one a back-fill has for it, holds it.
LEMMA NoHole ==
    ASSUME TypeInv, ChainInv, ~ ranged, NEW e \in Weeks, CompleteTo(e),
           NEW s \in Starts, NEW w \in Held(s), NEW v \in 1 .. w, v \notin lost
    PROVE  \E q \in Starts : v \in Held(q)
  <1>1. s \in Weeks /\ w \in Weeks /\ Row(s, w) /\ v \in Weeks /\ v \in Nat /\ v <= w
    BY StartsAreWeeks, Numbers DEF Held, Row, Weeks
  <1>2. /\ s \in Nat /\ e \in Nat /\ 1 <= v /\ v <= LastWeek
        /\ WindowWeeks \in Nat /\ Step \in Nat \ {0} /\ Step <= WindowWeeks
    BY <1>1, StepBounds, Numbers DEF Weeks
  <1>3. CASE s <= v
    <2>1. Covered(s, v)
      BY <1>1, <1>3, Numbers DEF ChainInv, Intervals, Weeks
    <2> QED BY <1>1, <2>1, CoveredIsHeld
  <1>4. CASE v < s /\ OnGrid(s)
    <2>a. v + 1 \in Nat /\ 2 <= v + 1
      BY <1>1, <1>2
    <2>1. PICK g \in Nat \ {0} : g < v + 1 /\ v + 1 <= g + Step /\ IsStep(g)
      BY <2>a, StepBelow
    <2>2. g \in Weeks /\ g < s /\ v \in g .. (g + WindowWeeks)
      BY <1>2, <1>4, <2>1, Numbers DEF Weeks
    <2>3. Covered(g, v)
      BY <1>4, <2>1, <2>2 DEF OnGrid, Stored
    <2> QED BY <1>1, <2>2, <2>3, CoveredIsHeld
  <1>5. CASE v < s /\ s <= e
    <2>1. v + 1 \in Weeks /\ 1 < v + 1 /\ v + 1 <= e
      BY <1>1, <1>2, <1>5, Numbers DEF Weeks
    <2>2. PICK q \in Weeks :
             /\ q < v + 1
             /\ <<q, Lesser(q + WindowWeeks, e)>> \in WindowBounds(1, e)
             /\ v + 1 \in q .. Lesser(q + WindowWeeks, e)
      BY <2>1, Reach
    <2>3. v \in q .. Lesser(q + WindowWeeks, e)
      BY <1>2, <2>2, Numbers DEF Weeks, Lesser
    <2>4. Covered(q, v)
      BY <2>2, <2>3 DEF CompleteTo, Stored
    <2> QED BY <1>1, <2>4, CoveredIsHeld
  <1> QED BY <1>2, <1>3, <1>4, <1>5 DEF CompleteTo

\* WholeHistory: once a back-fill has ended, and until a range is loaded by hand, every
\* window that does not start with a lost week shares a week with the one before it, and
\* no week up to the newest is missing but lost ones: whatever the DAG stores before,
\* meanwhile or later, whichever requests fail and whichever weeks any answer lacks.
THEOREM WholeHistoryHolds == Spec => []WholeHistory
  <1>1. TypeInv /\ ChainInv => WholeHistory
    <2> SUFFICES ASSUME TypeInv, ChainInv, whole, ~ ranged
                 PROVE  /\ \A s \in Starts : s \in lost \/ Rescaled(s)
                        /\ \A s \in Starts : \A w \in Held(s) : \A v \in 1 .. w :
                               v \in lost \/ \E q \in Starts : v \in Held(q)
      BY DEF WholeHistory
    <2>1. PICK e \in Weeks : CompleteTo(e)
      BY DEF ChainInv, WholeTo
    <2>2. ASSUME NEW s \in Starts, s \notin lost, NEW p \in Weeks, IsPrevious(p, s)
          PROVE  Held(p) \cap Held(s) # {}
      <3>1. s \in Held(s)
        BY <2>2, StartsAreWeeks, CoveredIsHeld DEF ChainInv, StartsKnown
      <3>2. s \in Held(p)
        BY <2>1, <2>2, PreviousReaches
      <3> QED BY <3>1, <3>2
    <2>3. \A s \in Starts : \A w \in Held(s) : \A v \in 1 .. w :
             v \in lost \/ \E q \in Starts : v \in Held(q)
      BY <2>1, NoHole
    <2> QED BY <2>2, <2>3 DEF Rescaled
  <1> QED BY <1>1, TypeInvHolds, ChainInvHolds, PTL

\* RefreshUnifies: when the DAG stores a window by week, every row under its start is of
\* that request but for the weeks its answer lacks, also those a back-fill stored between
\* the request and the MERGE: there is none before the start, and none after the week the
\* request ended with.
THEOREM RefreshUnifiesHolds == Spec => RefreshUnifies
  <1>1. ASSUME TypeInv, ChainInv, NEW w \in Window, answer["dag"] = w, Store("dag"),
               Grid(w) = "week", NEW v \in Weeks \ lacks["dag"]
        PROVE  raw'[w[1]][v] \in {NoRow, w[2]}
    <2>1. "dag" \in Jobs /\ w[1] \in Weeks
      BY DEF Jobs, Window
    <2>2. raw'[w[1]][v] = IF v \in w[1] .. w[2] THEN w[2] ELSE raw[w[1]][v]
      BY <1>1, <2>1, StoreEffect DEF TypeInv
    <2>3. w[2] = today
      BY <1>1, <2>1, StoreRequests DEF ChainInv, DagAsks, TypeInv
    <2>4. ASSUME Row(w[1], v) PROVE v \in w[1] .. w[2]
      <3>1. w[1] <= v /\ v <= w[2]
        BY <1>1, <2>1, <2>3, <2>4 DEF ChainInv, Intervals
      <3>2. w[1] \in Nat /\ w[2] \in Nat /\ v \in Nat
        BY <1>1, <2>1, <2>3, DaysNumbers, Numbers DEF Weeks
      <3> QED BY <3>1, <3>2
    <2> QED BY <2>2, <2>4 DEF Row
  <1>2. TypeInv /\ ChainInv =>
            [\A w \in Window :
               (answer["dag"] = w /\ Store("dag") /\ Grid(w) = "week") =>
                   \A v \in Weeks \ lacks["dag"] : raw'[w[1]][v] \in {NoRow, w[2]}]_vars
    BY <1>1
  <1> QED BY <1>2, TypeInvHolds, ChainInvHolds, PTL DEF RefreshUnifies
=============================================================================
