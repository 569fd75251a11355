------------------------- MODULE SignalRules_proofs -------------------------
(***************************************************************************)
(* Theorems about SignalRules, for every calendar, set of RSI values, set  *)
(* of parameter versions, and whatever is late, abandoned, back-filled or  *)
(* promoted.                                                               *)
(***************************************************************************)
EXTENDS SignalRules, TLAPS, WellFoundedInduction

-----------------------------------------------------------------------------
(***************************************************************************)
(* The calendar.                                                           *)
(***************************************************************************)
LEMMA DaysAreNumbers ==
    /\ LastDay \in Nat \ {0} /\ DaysPerWeek \in Nat \ {0}
    /\ Days \subseteq Nat \ {0}
    /\ \A d \in Days : d <= LastDay
<1>1. LastDay \in Nat \ {0} /\ DaysPerWeek \in Nat \ {0}
  BY RulesAssumption
<1> QED
  BY <1>1 DEF Days

\* A non-empty set of days has a latest day.
LEMMA LatestDay ==
    ASSUME NEW T \in SUBSET Days, T # {}
    PROVE  \E d \in T : \A e \in T : e <= d
<1> DEFINE S == {n \in Nat : LastDay - n \in T}
<1>1. S \subseteq Nat /\ S # {}
  <2>1. PICK d \in T : TRUE
    OBVIOUS
  <2>2. LastDay - d \in S
    BY <2>1, DaysAreNumbers DEF Days
  <2> QED
    BY <2>2
<1>2. PICK x \in S : \A y \in S : ~ (<<y, x>> \in OpToRel(<, Nat))
  <2> HIDE DEF S
  <2> QED
    BY <1>1, WFMin, NatLessThanWellFounded
<1>3. \A y \in S : ~ (y < x)
  BY <1>2 DEF OpToRel
<1>4. ASSUME NEW e \in T PROVE e <= LastDay - x
  <2>1. LastDay - e \in S
    BY DaysAreNumbers DEF Days
  <2> QED
    BY <2>1, <1>3, DaysAreNumbers DEF Days
<1> QED
  BY <1>4

\* The Monday of a day is that day or an earlier one of the calendar.
LEMMA MondayType ==
    ASSUME NEW d \in Days
    PROVE  Monday(d) \in 1 .. d
<1>1. (d - 1) % DaysPerWeek \in 0 .. DaysPerWeek - 1
  BY DaysAreNumbers DEF Days
<1>2. (d - 1) % DaysPerWeek <= d - 1
  BY DaysAreNumbers DEF Days
<1> QED
  BY <1>1, <1>2, DaysAreNumbers DEF Monday, Days

LEMMA MondayInDays ==
    ASSUME NEW d \in Days
    PROVE  Monday(d) \in Days
<1>1. Monday(d) \in 1 .. d /\ d \in 1 .. LastDay
  BY MondayType DEF Days
<1> QED
  BY <1>1, DaysAreNumbers DEF Days

\* Multiplication by a natural number keeps the order.
LEMMA TimesMonotone ==
    ASSUME NEW n \in Nat, NEW a \in Int, NEW b \in Int, a <= b
    PROVE  n * a <= n * b
OBVIOUS

\* A later day is not of an earlier week.
LEMMA MondayMonotone ==
    ASSUME NEW d \in Days, NEW e \in Days, d <= e
    PROVE  Monday(d) <= Monday(e)
<1>1. DaysPerWeek \in Nat /\ 0 < DaysPerWeek
  BY DaysAreNumbers
<1> DEFINE q(x) == (x - 1) \div DaysPerWeek
           r(x) == (x - 1) % DaysPerWeek
<1>2. \A x \in Days : /\ q(x) \in Int /\ r(x) \in 0 .. DaysPerWeek - 1
                      /\ x - 1 = DaysPerWeek * q(x) + r(x)
  BY <1>1 DEF Days
<1>3. \A x \in Days : Monday(x) = x - r(x)
  BY DEF Monday
<1> HIDE DEF q, r
<1>4. CASE q(d) <= q(e)
  <2>1. DaysPerWeek * q(d) <= DaysPerWeek * q(e)
    BY <1>1, <1>2, <1>4, TimesMonotone
  <2> QED
    BY <1>1, <1>2, <1>3, <2>1 DEF Days
<1>5. CASE q(e) + 1 <= q(d)
  <2>1. DaysPerWeek * (q(e) + 1) <= DaysPerWeek * q(d)
    BY <1>1, <1>2, <1>5, TimesMonotone
  <2>2. DaysPerWeek * (q(e) + 1) = DaysPerWeek * q(e) + DaysPerWeek
    BY <1>1, <1>2
  <2> QED
    BY <1>1, <1>2, <1>5, <2>1, <2>2 DEF Days
<1> QED
  BY <1>2, <1>4, <1>5

LEMMA WeeksAreDays == Weeks \subseteq Days
BY MondayInDays DEF Weeks

LEMMA LastOfWeeks ==
    ASSUME NEW T \in SUBSET Weeks, T # {}
    PROVE  LastOf(T) \in T /\ \A o \in T : o <= LastOf(T)
BY LatestDay, WeeksAreDays DEF LastOf

-----------------------------------------------------------------------------
(***************************************************************************)
(* The walk over the weekly RSI has a closed form.                         *)
(***************************************************************************)
WeeklyOK == weekly \in [Weeks -> WeeklyRsi \cup {Null, NoRow}]

Before(w) == {o \in PublishedWeeks : o < w}

\* Some week before w opened the trend, and none since has closed it.
OpenAt(p, w) ==
    \E o \in Before(w) :
        /\ weekly[o] <= p.trend_start
        /\ \A q \in Before(w) : o < q => weekly[q] < p.trend_end

LEMMA PublishedType ==
    ASSUME WeeklyOK
    PROVE  /\ PublishedWeeks \in SUBSET Weeks
           /\ PublishedWeeks \subseteq Int
           /\ \A w \in PublishedWeeks : weekly[w] \in Int
<1>1. PublishedWeeks \in SUBSET Weeks
  BY DEF PublishedWeeks, HasRow, WeeklyOK
<1>2. \A w \in PublishedWeeks : weekly[w] \in Int
  BY <1>1, RulesAssumption DEF PublishedWeeks, HasRow, WeeklyOK
<1> QED
  BY <1>1, <1>2, WeeksAreDays DEF Days

\* One step of the walk.
LEMMA OpenAtStep ==
    ASSUME WeeklyOK, NEW v \in Versions, NEW w \in Weeks
    PROVE  /\ Before(w) = {} => ~ OpenAt(Params[v], w)
           /\ Before(w) # {} =>
                /\ LastOf(Before(w)) \in PublishedWeeks
                /\ LastOf(Before(w)) < w
                /\ OpenAt(Params[v], w) <=>
                     Flip(Params[v], OpenAt(Params[v], LastOf(Before(w))),
                          weekly[LastOf(Before(w))])
<1> DEFINE p == Params[v]
           last == LastOf(Before(w))
<1>1. /\ p.trend_start \in Int /\ p.trend_end \in Int
      /\ p.trend_start < p.trend_end
  BY RulesAssumption DEF ParamsRow
<1>2. CASE Before(w) = {}
  BY <1>2 DEF OpenAt
<1>3. CASE Before(w) # {}
  <2> HIDE DEF p, last
  <2>1. Before(w) \in SUBSET Weeks
    BY PublishedType DEF Before
  <2>2. /\ last \in Before(w) /\ \A o \in Before(w) : o <= last
        /\ last \in PublishedWeeks /\ last < w
    BY <1>3, <2>1, LastOfWeeks DEF Before, last
  <2>3. Before(last) = Before(w) \ {last}
    <3>1. w \in Int
      BY WeeksAreDays DEF Days
    <3> QED
      BY <2>2, <3>1, PublishedType DEF Before
  <2>4. weekly[last] \in Int /\ last \in Int
    BY <2>2, PublishedType
  <2>5. \A o \in Before(w) : weekly[o] \in Int /\ o \in Int
    BY PublishedType DEF Before
  <2>6. CASE weekly[last] <= p.trend_start
    <3>1. OpenAt(p, w)
      <4>1. \A q \in Before(w) : ~ (last < q)
        BY <2>2, <2>4, <2>5
      <4> QED
        BY <2>2, <2>6, <4>1 DEF OpenAt
    <3>2. Flip(p, OpenAt(p, last), weekly[last])
      BY <1>1, <2>4, <2>6 DEF Flip
    <3> QED
      BY <2>2, <3>1, <3>2 DEF p, last
  <2>7. CASE weekly[last] >= p.trend_end
    <3>1. ~ OpenAt(p, w)
      BY <1>1, <2>2, <2>4, <2>5, <2>7 DEF OpenAt
    <3>2. ~ Flip(p, OpenAt(p, last), weekly[last])
      BY <1>1, <2>4, <2>7 DEF Flip
    <3> QED
      BY <2>2, <3>1, <3>2 DEF p, last
  <2>8. CASE ~ (weekly[last] <= p.trend_start) /\ ~ (weekly[last] >= p.trend_end)
    <3>1. OpenAt(p, w) <=> OpenAt(p, last)
      BY <1>1, <2>2, <2>3, <2>4, <2>5, <2>8 DEF OpenAt
    <3>2. Flip(p, OpenAt(p, last), weekly[last]) <=> OpenAt(p, last)
      BY <2>8 DEF Flip
    <3> QED
      BY <2>2, <3>1, <3>2 DEF p, last
  <2> QED
    BY <2>6, <2>7, <2>8
<1> QED
  BY <1>2, <1>3

\* The recursion that the stage computes is that closed form.
LEMMA TrendStatesAreOpenAt ==
    ASSUME WeeklyOK, NEW v \in Versions
    PROVE  \A w \in Weeks : TrendStates(Params[v])[w] = OpenAt(Params[v], w)
<1> DEFINE p == Params[v]
           Walk(f) == [w \in Weeks |->
              LET before == {o \in PublishedWeeks : o < w}
              IN  IF before = {} THEN FALSE
                  ELSE Flip(p, f[LastOf(before)], weekly[LastOf(before)])]
           g == [w \in Weeks |-> OpenAt(p, w)]
           states == TrendStates(p)
<1>1. states = CHOOSE f : f = Walk(f)
  BY DEF TrendStates
<1>2. g = Walk(g)
  <2> SUFFICES ASSUME NEW w \in Weeks
               PROVE  OpenAt(p, w) = IF Before(w) = {} THEN FALSE
                                     ELSE Flip(p, g[LastOf(Before(w))],
                                               weekly[LastOf(Before(w))])
    BY DEF Before
  <2>0. \A x : OpenAt(p, x) \in BOOLEAN
    BY DEF OpenAt
  <2>1. CASE Before(w) = {}
    BY <2>0, <2>1, OpenAtStep
  <2>2. CASE Before(w) # {}
    <3>1. LastOf(Before(w)) \in Weeks
      BY <2>2, OpenAtStep, PublishedType
    <3>2. g[LastOf(Before(w))] = OpenAt(p, LastOf(Before(w)))
      BY <3>1
    <3>3. OpenAt(p, w) <=> Flip(p, OpenAt(p, LastOf(Before(w))),
                                weekly[LastOf(Before(w))])
      BY <2>2, OpenAtStep
    <3>4. Flip(p, OpenAt(p, LastOf(Before(w))), weekly[LastOf(Before(w))])
             \in BOOLEAN
      BY <2>0 DEF Flip
    <3> QED
      BY <2>0, <2>2, <3>2, <3>3, <3>4
  <2> QED
    BY <2>1, <2>2
<1> HIDE DEF g, states
<1>3. states = Walk(states)
  BY <1>1, <1>2
<1>4. \A w \in Weeks : g[w] = OpenAt(p, w)
  BY DEF g
<1> HIDE DEF Walk
<1>5. \A w \in Weeks : states[w] = g[w]
  <2> DEFINE Wrong == {w \in Weeks : states[w] # g[w]}
  <2>1. ASSUME Wrong # {} PROVE FALSE
    <3>1. Wrong \subseteq Nat
      BY WeeksAreDays, DaysAreNumbers
    <3>2. PICK w \in Wrong : \A y \in Wrong : ~ (<<y, w>> \in OpToRel(<, Nat))
      <4> HIDE DEF Wrong
      <4> QED
        BY <2>1, <3>1, WFMin, NatLessThanWellFounded
    <3>3. \A y \in Wrong : ~ (y < w)
      BY <3>1, <3>2 DEF OpToRel
    <3>4. states[w] = IF Before(w) = {} THEN FALSE
                      ELSE Flip(p, states[LastOf(Before(w))],
                                weekly[LastOf(Before(w))])
      BY <1>3 DEF Walk, Before
    <3>5. g[w] = IF Before(w) = {} THEN FALSE
                 ELSE Flip(p, g[LastOf(Before(w))], weekly[LastOf(Before(w))])
      BY <1>2 DEF Walk, Before
    <3>6. CASE Before(w) # {}
      <4>1. LastOf(Before(w)) \in Weeks /\ LastOf(Before(w)) < w
        BY <3>6, OpenAtStep, PublishedType
      <4>2. states[LastOf(Before(w))] = g[LastOf(Before(w))]
        BY <3>3, <4>1
      <4> QED
        BY <3>4, <3>5, <3>6, <4>2
    <3> QED
      BY <3>4, <3>5, <3>6
  <2> QED
    BY <2>1
<1> QED
  BY <1>4, <1>5 DEF states

\* The trend a day looks up: opened by a week before its own, not closed since.
LEMMA TrendForIsOpened ==
    ASSUME WeeklyOK, NEW v \in Versions, NEW d \in Days
    PROVE  TrendFor(Params[v], d) = Opened(Params[v], d)
<1> DEFINE p == Params[v]
           known == {w \in PublishedWeeks : w <= Monday(d)}
           before == {w \in PublishedWeeks :
              w < Monday(d) /\ \E own \in PublishedWeeks : w < own /\ own <= Monday(d)}
<1>0. Monday(d) \in Int
  BY MondayInDays DEF Days
<1>1. CASE known = {}
  <2>1. before = {}
    BY <1>1
  <2> QED
    BY <1>1, <2>1 DEF TrendFor, Opened
<1>2. CASE known # {}
  <2>1. known \in SUBSET Weeks
    BY PublishedType
  <2>2. /\ LastOf(known) \in known /\ \A o \in known : o <= LastOf(known)
        /\ LastOf(known) \in Weeks
    BY <1>2, <2>1, LastOfWeeks
  <2>3. before = Before(LastOf(known))
    <3> HIDE DEF known
    <3>1. LastOf(known) \in PublishedWeeks /\ LastOf(known) <= Monday(d)
      BY <2>2 DEF known
    <3>2. \A own \in PublishedWeeks : own <= Monday(d) => own <= LastOf(known)
      BY <2>2 DEF known
    <3> QED
      BY <1>0, <3>1, <3>2, PublishedType DEF Before
  <2>4. TrendFor(p, d) = TrendStates(p)[LastOf(known)]
    BY <1>2 DEF TrendFor
  <2>5. TrendFor(p, d) = OpenAt(p, LastOf(known))
    BY <2>2, <2>4, TrendStatesAreOpenAt
  <2>6. OpenAt(p, LastOf(known)) = Opened(p, d)
    <3> HIDE DEF known
    <3> QED
      BY <2>3 DEF OpenAt, Opened
  <2> QED
    BY <2>5, <2>6
<1> QED
  BY <1>1, <1>2

TrendsMatch ==
    \A v \in Versions, d \in Days : TrendFor(Params[v], d) = Opened(Params[v], d)

LEMMA TrendsAreOpened == WeeklyOK => TrendsMatch
BY TrendForIsOpened DEF TrendsMatch

\* After a step too.
LEMMA TrendsAreOpenedAfter == WeeklyOK' => TrendsMatch'
BY TrendsAreOpened, PTL

-----------------------------------------------------------------------------
(***************************************************************************)
(* Types.                                                                  *)
(***************************************************************************)
LEMMA SignalRowType ==
    ASSUME TypeOK, NEW v \in Versions, NEW d \in Days
    PROVE  SignalRow(v, d) \in Signal
<1>1. TrendFor(Params[v], d) \in BOOLEAN
  <2>1. TrendFor(Params[v], d) = Opened(Params[v], d)
    BY TrendForIsOpened DEF TypeOK, WeeklyOK
  <2>2. Opened(Params[v], d) \in BOOLEAN
    BY DEF Opened
  <2> QED
    BY <2>1, <2>2
<1>2. ApplySignal(Params[v], daily[d], TrendFor(Params[v], d))
         \in {"BUY", "SELL", "NEUTRAL"}
  BY DEF ApplySignal
<1> QED
  BY <1>1, <1>2 DEF SignalRow, Signal

LEMMA SignalsTypeOK ==
    ASSUME TypeOK, NEW first, NEW last, Signals(first, last), ds' \in 0 .. today
    PROVE  TypeOK'
<1>1. fact_signals' \in [Days -> Signal \cup {NoRow}]
  BY SignalRowType DEF Signals, TypeOK
<1> QED
  BY <1>1 DEF Signals, features, params, TypeOK

LEMMA TypeOKStep == TypeOK /\ [Next]_vars => TypeOK'
<1> SUFFICES ASSUME TypeOK, [Next]_vars PROVE TypeOK'
  OBVIOUS
<1>1. CASE NextDay
  <2>1. /\ today' \in 0 .. LastDay /\ ds' \in 0 .. today'
    BY <1>1, RulesAssumption DEF NextDay, TypeOK
  <2>2. daily' \in [Days -> DailyRsi \cup {NoRow}]
    BY <1>1 DEF NextDay, TypeOK
  <2>3. weekly' \in [Weeks -> WeeklyRsi \cup {Null, NoRow}]
    BY <1>1 DEF NextDay, TypeOK
  <2> QED
    BY <1>1, <2>1, <2>2, <2>3 DEF NextDay, TypeOK, params
<1>2. ASSUME NEW v \in Versions, Promote(v)
      PROVE  TypeOK'
  BY <1>2, RulesAssumption DEF Promote, TypeOK, features
<1>3. CASE DailyRun
  BY <1>3, SignalsTypeOK DEF DailyRun, TypeOK
<1>4. ASSUME NEW first \in Days, NEW last \in Days, Backfill(first, last)
      PROVE  TypeOK'
  BY <1>4, SignalsTypeOK DEF Backfill, TypeOK
<1>5. CASE UNCHANGED vars
  BY <1>5 DEF vars, features, params, TypeOK
<1> QED
  BY <1>1, <1>2, <1>3, <1>4, <1>5 DEF Next

\* Every variable keeps its type: every stored signal is one of the three, under a
\* version that exists.
THEOREM RulesTypeCorrect == Spec => []TypeOK
<1>1. Init => TypeOK
  BY RulesAssumption DEF Init, TypeOK
<1> QED
  BY <1>1, TypeOKStep, PTL DEF Spec

-----------------------------------------------------------------------------
(***************************************************************************)
(* A stored signal is the one its version gives of the features of now.    *)
(***************************************************************************)
\* A day with a feature has the feature of its week, so that weeks which come later
\* are after it; and a stored signal has its feature.
RulesInv ==
    /\ \A d \in HasRow(daily) : Monday(d) \in HasRow(weekly)
    /\ HasRow(fact_signals) \subseteq HasRow(daily)
    /\ \A d \in HasRow(fact_signals), v \in Versions :
         fact_signals[d].version = v => fact_signals[d] = SignalRow(v, d)

\* New features are of later days and later weeks.
LEMMA NewFeatures ==
    ASSUME TypeOK, RulesInv, NextDay
    PROVE  /\ \A d \in HasRow(daily) : daily'[d] = daily[d]
           /\ \A d \in HasRow(daily), w \in Weeks :
                w <= Monday(d) => weekly'[w] = weekly[w]
           /\ \A d \in HasRow(daily') : Monday(d) \in HasRow(weekly')
<1>1. PICK new \in SUBSET NewDays :
        LET weeks == {Monday(d) : d \in new} \ HasRow(weekly)
        IN  /\ \E r \in [new -> DailyRsi] :
                 daily' = [d \in Days |-> IF d \in new THEN r[d] ELSE daily[d]]
            /\ \E r \in [weeks -> WeeklyRsi \cup {Null}] :
                 weekly' = [w \in Weeks |-> IF w \in weeks THEN r[w] ELSE weekly[w]]
  BY DEF NextDay
<1> DEFINE weeks == {Monday(d) : d \in new} \ HasRow(weekly)
<1>2. PICK r \in [new -> DailyRsi] :
        daily' = [d \in Days |-> IF d \in new THEN r[d] ELSE daily[d]]
  BY <1>1
<1>3. PICK q \in [weeks -> WeeklyRsi \cup {Null}] :
        weekly' = [w \in Weeks |-> IF w \in weeks THEN q[w] ELSE weekly[w]]
  BY <1>1
<1>4. new \subseteq Days
  BY RulesAssumption DEF NewDays, NextDay, TypeOK, Days
<1>5. \A d \in new : \A e \in HasRow(daily) : e < d
  BY <1>4 DEF NewDays, HasRow, TypeOK, Days
<1>6. HasRow(daily) \subseteq Days /\ HasRow(weekly) \subseteq Weeks
  BY DEF HasRow, TypeOK
<1>7. \A d \in HasRow(daily) : daily'[d] = daily[d]
  BY <1>2, <1>5, <1>6 DEF Days
<1>8. ASSUME NEW d \in HasRow(daily), NEW w \in Weeks, w <= Monday(d)
      PROVE  weekly'[w] = weekly[w]
  <2>1. w \notin weeks
    <3> SUFFICES ASSUME NEW e \in new, w = Monday(e), w \notin HasRow(weekly)
                 PROVE  FALSE
      OBVIOUS
    <3>1. d \in Days /\ e \in Days /\ d <= e
      BY <1>4, <1>5, <1>6 DEF Days
    <3>2. Monday(d) <= Monday(e) /\ Monday(d) \in Int /\ Monday(e) \in Int
      BY <3>1, MondayMonotone, MondayInDays DEF Days
    <3> QED
      BY <1>8, <3>2 DEF RulesInv
  <2> QED
    BY <1>3, <2>1
<1>9. ASSUME NEW d \in HasRow(daily')
      PROVE  Monday(d) \in HasRow(weekly')
  <2>1. DOMAIN weekly' = Weeks /\ d \in Days /\ (d \in new \/ d \in HasRow(daily))
    BY <1>2, <1>3 DEF HasRow, TypeOK
  <2>2. Monday(d) \in Weeks
    BY <2>1 DEF Weeks
  <2>3. CASE Monday(d) \in HasRow(weekly)
    <3>1. weekly'[Monday(d)] = weekly[Monday(d)]
      BY <1>3, <2>2, <2>3
    <3> QED
      BY <2>1, <2>2, <2>3, <3>1 DEF HasRow
  <2>4. CASE Monday(d) \notin HasRow(weekly)
    <3>1. Monday(d) \in weeks
      BY <2>1, <2>4 DEF RulesInv
    <3>2. weekly'[Monday(d)] \in WeeklyRsi \cup {Null}
      BY <1>3, <2>2, <3>1
    <3> QED
      BY <2>1, <2>2, <3>2, RulesAssumption DEF HasRow
  <2> QED
    BY <2>3, <2>4
<1> QED
  BY <1>7, <1>8, <1>9

\* So the trend of a day that has its feature stays what it was.
LEMMA TrendIsStable ==
    ASSUME TypeOK, TypeOK', NEW d \in Days, NEW v \in Versions,
           \A w \in Weeks : w <= Monday(d) => weekly'[w] = weekly[w]
    PROVE  TrendFor(Params[v], d)' = TrendFor(Params[v], d)
<1>1. Monday(d) \in Int
  BY MondayInDays DEF Days
<1>2. WeeklyOK /\ WeeklyOK'
  BY DEF TypeOK, WeeklyOK
<1>3. \A w : w <= Monday(d) => (w \in PublishedWeeks' <=> w \in PublishedWeeks)
  BY DEF PublishedWeeks, HasRow, TypeOK
<1>4. \A w \in PublishedWeeks : w \in Weeks /\ w \in Int
  BY <1>2, PublishedType
<1>5. \A w \in PublishedWeeks' : w \in Weeks /\ w \in Int
  <2>1. PublishedWeeks' \subseteq Weeks
    BY DEF PublishedWeeks, HasRow, TypeOK
  <2> QED
    BY <2>1, WeeksAreDays, DaysAreNumbers
<1>6. {w \in PublishedWeeks' :
          w < Monday(d) /\ \E own \in PublishedWeeks' : w < own /\ own <= Monday(d)}
        = {w \in PublishedWeeks :
          w < Monday(d) /\ \E own \in PublishedWeeks : w < own /\ own <= Monday(d)}
  BY <1>1, <1>3, <1>4, <1>5
<1>7. Opened(Params[v], d)' = Opened(Params[v], d)
  BY <1>1, <1>4, <1>6 DEF Opened
<1>8. TrendFor(Params[v], d) = Opened(Params[v], d)
  BY <1>2, TrendForIsOpened
<1>9. TrendFor(Params[v], d)' = Opened(Params[v], d)'
  BY <1>2, TrendsAreOpenedAfter DEF TrendsMatch
<1> QED
  BY <1>7, <1>8, <1>9

\* So a stored signal stays the one its version gives.
LEMMA SignalIsStable ==
    ASSUME TypeOK, TypeOK', RulesInv, NextDay, NEW d \in HasRow(daily), NEW v \in Versions
    PROVE  SignalRow(v, d)' = SignalRow(v, d)
<1>1. d \in Days
  BY DEF HasRow, TypeOK
<1>2. TrendFor(Params[v], d)' = TrendFor(Params[v], d)
  BY <1>1, NewFeatures, TrendIsStable
<1>3. daily'[d] = daily[d]
  BY NewFeatures
<1> QED
  BY <1>2, <1>3 DEF SignalRow

\* A run reads days with a feature only, and stores what SignalRow gives.
LEMMA SignalsInv ==
    ASSUME TypeOK, RulesInv, NEW first, NEW last, Signals(first, last)
    PROVE  RulesInv'
<1>1. /\ daily' = daily /\ weekly' = weekly
      /\ \A v, d : SignalRow(v, d)' = SignalRow(v, d)
  BY DEF Signals, features, SignalRow, TrendFor, TrendStates, PublishedWeeks, HasRow
<1>2. ASSUME NEW d \in HasRow(fact_signals')
      PROVE  /\ d \in HasRow(daily)
             /\ \A v \in Versions : fact_signals'[d].version = v =>
                  fact_signals'[d] = SignalRow(v, d)
  <2>1. d \in Days
    BY <1>2 DEF Signals, HasRow
  <2>2. CASE d \in Read(first, last)
    <3>1. fact_signals'[d] = SignalRow(active, d)
      BY <2>1, <2>2 DEF Signals
    <3> QED
      BY <2>2, <3>1 DEF Read, SignalRow
  <2>3. CASE d \notin Read(first, last)
    <3>1. fact_signals'[d] = fact_signals[d]
      BY <2>1, <2>3 DEF Signals
    <3>2. d \in HasRow(fact_signals)
      BY <1>2, <2>1, <3>1 DEF HasRow, TypeOK
    <3> QED
      BY <3>1, <3>2 DEF RulesInv
  <2> QED
    BY <2>2, <2>3
<1> QED
  BY <1>1, <1>2 DEF RulesInv

LEMMA RulesInvStep == TypeOK /\ TypeOK' /\ RulesInv /\ [Next]_vars => RulesInv'
<1> SUFFICES ASSUME TypeOK, TypeOK', RulesInv, [Next]_vars PROVE RulesInv'
  OBVIOUS
<1>1. CASE NextDay
  <2>1. /\ fact_signals' = fact_signals
        /\ \A d \in HasRow(fact_signals) :
              d \in HasRow(daily) /\ fact_signals[d].version \in Versions
    BY <1>1 DEF NextDay, RulesInv, HasRow, TypeOK, Signal
  <2>2. HasRow(daily) \subseteq HasRow(daily')
    BY <1>1, NewFeatures DEF HasRow, TypeOK
  <2>3. ASSUME NEW d \in HasRow(fact_signals'), NEW v \in Versions,
               fact_signals'[d].version = v
        PROVE  fact_signals'[d] = SignalRow(v, d)'
    <3>1. d \in HasRow(fact_signals) /\ d \in HasRow(daily)
      BY <2>1 DEF HasRow
    <3> QED
      BY <1>1, <2>1, <2>3, <3>1, SignalIsStable DEF RulesInv
  <2>4. HasRow(fact_signals') \subseteq HasRow(daily')
    BY <2>1, <2>2 DEF HasRow
  <2> QED
    BY <1>1, <2>3, <2>4, NewFeatures DEF RulesInv
<1>2. ASSUME UNCHANGED <<daily, weekly, fact_signals>>
      PROVE  RulesInv'
  <2>1. \A v, d : SignalRow(v, d)' = SignalRow(v, d)
    BY <1>2 DEF SignalRow, TrendFor, TrendStates, PublishedWeeks, HasRow
  <2> QED
    BY <1>2, <2>1 DEF RulesInv, HasRow
<1>3. CASE DailyRun \/ \E first, last \in Days : Backfill(first, last)
  BY <1>3, SignalsInv DEF DailyRun, Backfill
<1> QED
  BY <1>1, <1>2, <1>3 DEF Next, Promote, vars, features

LEMMA RulesInvHolds == Spec => []RulesInv
<1>1. Init => RulesInv
  BY DEF Init, RulesInv, HasRow
<1> QED
  BY <1>1, RulesInvStep, RulesTypeCorrect, PTL DEF Spec

\* One run over the whole history would give every row that is stored, under the row's
\* own version: features that come late, runs given up, back-fills of any range and
\* promotions never leave a row that no longer follows from the features.
THEOREM BackfillAgreesHolds == Spec => []BackfillAgrees
<1>1. TypeOK /\ RulesInv => BackfillAgrees
  BY DEF TypeOK, RulesInv, BackfillAgrees, HasRow, Signal
<1> QED
  BY <1>1, RulesInvHolds, RulesTypeCorrect, PTL

\* A stored BUY stands on a trend that a published week before the day's own opened
\* and that none has closed since, under its own version's bounds, and on the day's
\* own RSI: the recursive walk of the stage decides exactly that.
THEOREM StandsOnItsTrendHolds == Spec => []StandsOnItsTrend
<1>1. TypeOK /\ RulesInv => StandsOnItsTrend
  <2> SUFFICES ASSUME TypeOK, RulesInv, NEW d \in HasRow(fact_signals)
               PROVE  LET p == Params[fact_signals[d].version]
                          s == fact_signals[d].signal
                      IN  /\ s = "BUY" <=> Opened(p, d) /\ daily[d] < p.oversold
                          /\ s = "SELL" => daily[d] > p.overbought
    BY DEF StandsOnItsTrend
  <2> DEFINE p == Params[fact_signals[d].version]
  <2>1. d \in Days /\ fact_signals[d].version \in Versions
    BY DEF HasRow, TypeOK, Signal
  <2>2. TrendFor(p, d) = Opened(p, d)
    BY <2>1, TrendForIsOpened DEF TypeOK, WeeklyOK
  <2>3. fact_signals[d] = SignalRow(fact_signals[d].version, d)
    BY <2>1 DEF RulesInv
  <2>4. fact_signals[d].signal = ApplySignal(p, daily[d], TrendFor(p, d))
    <3> DEFINE v == fact_signals[d].version
    <3> HIDE DEF v
    <3>1. fact_signals[d] = SignalRow(v, d)
      BY <2>3 DEF v
    <3>2. fact_signals[d].signal = ApplySignal(Params[v], daily[d], TrendFor(Params[v], d))
      BY <3>1 DEF SignalRow
    <3> QED
      BY <3>2 DEF v
  <2> QED
    BY <2>2, <2>4 DEF ApplySignal
<1> QED
  BY <1>1, RulesInvHolds, RulesTypeCorrect, PTL
=============================================================================
