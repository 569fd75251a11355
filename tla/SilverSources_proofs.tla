------------------------ MODULE SilverSources_proofs ------------------------
(***************************************************************************)
(* Theorems about SilverSources, for every calendar, look-backs, number of *)
(* splits, and whatever bars the sources lack or deliver late.             *)
(***************************************************************************)
EXTENDS SilverSources, TLAPS, WellFoundedInduction

-----------------------------------------------------------------------------
(***************************************************************************)
(* Types.                                                                  *)
(***************************************************************************)
\* A non-empty set of days has a latest day.
LEMMA LatestDay ==
    ASSUME NEW T \in SUBSET Days, T # {}
    PROVE  \E d \in T : \A e \in T : e <= d
<1> DEFINE S == {n \in Nat : LastDay - n \in T}
<1>1. S \subseteq Nat /\ S # {}
  <2>1. PICK d \in T : TRUE
    OBVIOUS
  <2>2. LastDay - d \in S
    BY <2>1, SourcesAssumption DEF Days
  <2> QED
    BY <2>2
<1>2. PICK x \in S : \A y \in S : ~ (<<y, x>> \in OpToRel(<, Nat))
  <2> HIDE DEF S
  <2> QED
    BY <1>1, WFMin, NatLessThanWellFounded
<1>3. \A y \in S : ~ (y < x)
  BY <1>2 DEF OpToRel
<1>4. ASSUME NEW e \in T PROVE e <= LastDay - x
  <2>1. LastDay - e \in S
    BY SourcesAssumption DEF Days
  <2> QED
    BY <2>1, <1>3, SourcesAssumption DEF Days
<1> QED
  BY <1>4

\* The days of the model's calendar that are over, and the splits so far.
LEMMA ClosedDays ==
    ASSUME TypeOK
    PROVE  /\ today \in Nat /\ today <= LastDay
           /\ 1 .. today \subseteq Days
           /\ splits \subseteq Days
           /\ \A d \in Days : SplitsAfter(d) \in SUBSET Days
<1>1. today \in Nat /\ today <= LastDay
  BY SourcesAssumption DEF TypeOK
<1>2. 1 .. today \subseteq Days
  BY <1>1, SourcesAssumption DEF Days
<1> QED
  BY <1>1, <1>2 DEF TypeOK, SplitsAfter

LEMMA RangeOfDays ==
    ASSUME NEW first \in Days, NEW last \in Days
    PROVE  first .. last \subseteq Days
<1> SUFFICES ASSUME NEW d \in first .. last PROVE d \in 1 .. LastDay
  BY DEF Days
<1>1. first \in 1 .. LastDay /\ last \in 1 .. LastDay
  BY DEF Days
<1> QED
  BY <1>1, SourcesAssumption

\* The winner of a day is one of its branches.
LEMMA WinnerIsBranch ==
    ASSUME NEW d \in Days, NEW last, Branches(d, last) # {}
    PROVE  Winner(Branches(d, last)) \in Branches(d, last)
<1> DEFINE B == Branches(d, last)
<1>1. \A r \in B : r.source \in Sources
  BY DEF Branches, Sources
<1>2. \E r \in B : \A q \in B : Priority[q.source] <= Priority[r.source]
  <2>1. CASE \E r \in B : r.source = "yahoo"
    BY <1>1, <2>1 DEF Priority, Sources
  <2>2. CASE \A r \in B : r.source = "tiingo"
    BY <2>2 DEF Priority
  <2> QED
    BY <1>1, <2>1, <2>2 DEF Sources
<1> QED
  BY <1>2 DEF Winner

LEMMA BranchesType ==
    ASSUME TypeOK, NEW d \in Days, NEW last
    PROVE  Branches(d, last) \subseteq Row
<1>1. d \in HasRow(yahoo) => yahoo[d].adj \in SUBSET Days
  BY DEF TypeOK, HasRow, YahooRow
<1>2. SplitFactors(d, last) \in SUBSET Days
  BY DEF SplitFactors, HasRow, TypeOK
<1> QED
  BY <1>1, <1>2 DEF Branches, Row, Sources

LEMMA DailyMergedType ==
    ASSUME TypeOK, NEW first, NEW last
    PROVE  DailyMerged(first, last) \in [Days -> Row \cup {NoRow}]
<1>1. ASSUME NEW d \in Days, Branches(d, last) # {}
      PROVE  Winner(Branches(d, last)) \in Row
  BY <1>1, WinnerIsBranch, BranchesType
<1> QED
  BY <1>1 DEF DailyMerged, TypeOK

LEMMA WeeklyMergedType ==
    ASSUME TypeOK, NEW table \in [Days -> Row \cup {NoRow}], NEW first
    PROVE  WeeklyMerged(table, first) \in [Mondays -> Row \cup {NoRow}]
<1>1. ASSUME NEW w
      PROVE  WeeklyClose(table, w) \in Row \cup {NoRow}
  <2> DEFINE week == {d \in HasRow(table) : Monday(d) = w}
  <2>1. CASE week = {}
    BY <2>1 DEF WeeklyClose
  <2>2. CASE week # {}
    <3>1. week \in SUBSET Days
      BY DEF HasRow
    <3>2. \E d \in week : \A e \in week : e <= d
      BY <2>2, <3>1, LatestDay
    <3>3. (CHOOSE d \in week : \A e \in week : e <= d) \in Days
      BY <3>1, <3>2
    <3> QED
      BY <2>2, <3>3 DEF WeeklyClose
  <2> QED
    BY <2>1, <2>2
<1> QED
  BY <1>1 DEF WeeklyMerged, TypeOK

LEMMA ConformTypeOK ==
    ASSUME TypeOK, NEW first, NEW last, Conform(first, last),
           first .. last \subseteq Days, ds' \in 0 .. today, settled' \in BOOLEAN
    PROVE  TypeOK'
<1>1. silver' \in [Days -> Row \cup {NoRow}]
  BY DailyMergedType DEF Conform
<1>2. weekly' \in [Mondays -> Row \cup {NoRow}]
  BY <1>1, WeeklyMergedType DEF Conform
<1>3. rebased' \subseteq Days
  BY DEF Conform, TypeOK
<1> QED
  BY <1>1, <1>2, <1>3 DEF Conform, TypeOK, market, bronze

LEMMA StoreType ==
    ASSUME TypeOK, NEW s \in Sources, NEW first, StoreBars(s, first)
    PROVE  /\ yahoo' \in [Days -> YahooRow \cup {NoRow}]
           /\ tiingo' \in [Days -> TiingoRow \cup {NoRow}]
<1>1. \A d \in Days : [adj |-> SplitsAfter(d)] \in YahooRow
  BY ClosedDays DEF YahooRow
<1>2. \A d \in Days : [split |-> d \in splits] \in TiingoRow
  BY DEF TiingoRow
<1> QED
  BY <1>1, <1>2 DEF StoreBars, StoreYahoo, StoreTiingo, TypeOK

LEMMA TypeOKStep == TypeOK /\ [Next]_vars => TypeOK'
<1> SUFFICES ASSUME TypeOK, [Next]_vars PROVE TypeOK'
  OBVIOUS
<1>0. LastDay \in Nat /\ Lookback \in Nat
  BY SourcesAssumption
<1>1. CASE NextDay
  <2>1. /\ today' = today + 1 /\ today' \in 0 .. LastDay
        /\ ds' = today /\ ds' \in 0 .. today'
    BY <1>0, <1>1 DEF NextDay, TypeOK
  <2>2. splits' \subseteq 1 .. today'
    <3>1. splits' \subseteq splits \cup {today'} /\ splits \subseteq 1 .. today
      BY <1>1 DEF NextDay, TypeOK
    <3> QED
      BY <2>1, <3>1 DEF TypeOK
  <2>3. published' \in [Sources -> SUBSET (1 .. today')]
    BY <1>1 DEF NextDay, ClosedBars
  <2>4. refreshed' \subseteq Sources /\ rebased' \subseteq Days
    BY <1>1 DEF NextDay, TypeOK
  <2> QED
    BY <1>1, <2>1, <2>2, <2>3, <2>4 DEF NextDay, TypeOK, bronze
<1>2. ASSUME NEW s \in Sources, IngestLatest(s)
      PROVE  TypeOK'
  BY <1>2, StoreType DEF IngestLatest, TypeOK, market, history
<1>3. ASSUME NEW s \in Sources, BackfillHistory(s)
      PROVE  TypeOK'
  BY <1>3, StoreType DEF BackfillHistory, TypeOK, market
<1>4. CASE DailyRun
  <2>1. today \in Days /\ WindowStart(today) .. today \subseteq Days
    BY <1>0, <1>4 DEF DailyRun, TypeOK, WindowStart, Days
  <2> QED
    BY <1>4, <2>1, ConformTypeOK DEF DailyRun, TypeOK
<1>5. ASSUME NEW first \in Days, NEW last \in Days, ConformAgain(first, last)
      PROVE  TypeOK'
  <2>1. first .. last \subseteq Days
    BY RangeOfDays
  <2> QED
    BY <1>5, <2>1, ConformTypeOK DEF ConformAgain, TypeOK
<1>6. CASE UNCHANGED vars
  BY <1>6 DEF vars, market, bronze, history, TypeOK
<1> QED
  BY <1>1, <1>2, <1>3, <1>4, <1>5, <1>6 DEF Next

\* Every variable keeps its type: a bar of a source is of a closed day, and a row of
\* silver is of one source.
THEOREM SourcesTypeCorrect == Spec => []TypeOK
<1>1. Init => TypeOK
  <2> SUFFICES ASSUME Init PROVE TypeOK
    OBVIOUS
  <2>1. today \in 0 .. LastDay /\ ds \in 0 .. today
    BY SourcesAssumption DEF Init
  <2> QED
    BY <2>1 DEF Init, TypeOK
<1> QED
  BY <1>1, TypeOKStep, PTL DEF Spec

-----------------------------------------------------------------------------
(***************************************************************************)
(* What bronze holds.                                                      *)
(***************************************************************************)
\* A Yahoo bar as Yahoo would deliver it now.
YahooRight(d) == yahoo[d] # NoRow => yahoo[d].adj = SplitsAfter(d)

\* A row of silver that is divided by every split after its day.
Right(d) == silver[d] # NoRow => silver[d].day = d /\ silver[d].adj = SplitsAfter(d)

\* Bars are of published days; Tiingo's factor of a day is known when its bar is
\* stored; a source ingested today has right bars as far as it looks back, and one
\* back-filled since the last split has no others.
BronzeInv ==
    /\ HasRow(yahoo) \subseteq published["yahoo"]
    /\ HasRow(tiingo) \subseteq published["tiingo"]
    /\ \A e \in HasRow(tiingo) : tiingo[e].split <=> e \in splits
    /\ "yahoo" \in ingested =>
         \A d \in Days : today - SourceLookback <= d => YahooRight(d)
    /\ "yahoo" \in refreshed => \A d \in Days : YahooRight(d)
    /\ "tiingo" \in refreshed => splits \subseteq HasRow(tiingo)

\* Silver has no row that bronze has no bar for; what is known to be on one basis.
SilverInv ==
    /\ HasRow(silver) \subseteq HasRow(yahoo) \cup HasRow(tiingo)
    /\ ds = today /\ settled =>
         /\ ingested = Sources /\ splits \subseteq HasRow(tiingo)
         /\ \A d \in Days : WindowStart(today) <= d => Right(d)
    /\ rebased # {} => refreshed = Sources
    /\ \A d \in rebased : Right(d)

\* A day closes.  Nothing is stored of it yet, and a split on it is after the splits
\* of any bar only where nothing is said of the bars any more.
LEMMA BronzeInvNextDay ==
    ASSUME TypeOK, BronzeInv, NextDay
    PROVE  BronzeInv'
<1>1. /\ yahoo' = yahoo /\ tiingo' = tiingo /\ ingested' = {}
      /\ \A s \in Sources : published[s] \subseteq published'[s]
  BY DEF NextDay, bronze
<1>2. \A e \in HasRow(tiingo) : e # today'
  BY DEF BronzeInv, NextDay, TypeOK, Sources
<1>3. \A e \in HasRow(tiingo) : e \in splits' <=> e \in splits
  BY <1>2 DEF NextDay
<1>4. refreshed' = {} \/ (refreshed' = refreshed /\ splits' = splits)
  BY DEF NextDay
<1> QED
  BY <1>1, <1>3, <1>4
  DEF BronzeInv, HasRow, YahooRight, SplitsAfter, Sources

\* An ingest stores what the source says now.
LEMMA BronzeInvStore ==
    ASSUME TypeOK, BronzeInv, NEW s \in Sources, NEW first \in Int,
           StoreBars(s, first), UNCHANGED <<today, splits, published>>,
           "yahoo" \in ingested' =>
              "yahoo" \in ingested \/ (s = "yahoo" /\ first <= today - SourceLookback),
           "yahoo" \in refreshed' =>
              "yahoo" \in refreshed \/ (s = "yahoo" /\ first <= 1),
           "tiingo" \in refreshed' =>
              "tiingo" \in refreshed
                \/ (s = "tiingo" /\ first <= 1 /\ splits \subseteq published["tiingo"])
    PROVE  /\ BronzeInv'
           /\ HasRow(yahoo) \subseteq HasRow(yahoo')
           /\ HasRow(tiingo) \subseteq HasRow(tiingo')
<1> DEFINE bars == published[s] \cap (first .. today)
<1>1. \A d \in Days : SplitsAfter(d)' = SplitsAfter(d)
  BY DEF SplitsAfter
<1>2. bars \subseteq Days
  BY ClosedDays DEF TypeOK
<1>3. CASE s = "yahoo"
  <2>1. /\ tiingo' = tiingo
        /\ \A d \in Days : yahoo'[d] = IF d \in bars THEN [adj |-> SplitsAfter(d)]
                                       ELSE yahoo[d]
        /\ DOMAIN yahoo' = Days /\ DOMAIN yahoo = Days
    BY <1>3 DEF StoreBars, StoreYahoo, TypeOK
  <2>2. \A d \in bars : [adj |-> SplitsAfter(d)] # NoRow
    <3>1. \A d \in bars : [adj |-> SplitsAfter(d)] \in YahooRow
      BY <1>2, ClosedDays DEF YahooRow
    <3> QED
      BY <3>1, SourcesAssumption
  <2>3. \A d \in Days : (d \in bars \/ YahooRight(d)) => YahooRight(d)'
    BY <1>1, <2>1 DEF YahooRight
  <2>4. \A d \in HasRow(yahoo) : d \in published["yahoo"] /\ d <= today
                                 /\ d \in Int /\ 1 <= d
    BY DEF BronzeInv, TypeOK, Sources
  <2>5. HasRow(yahoo') \subseteq published["yahoo"] /\ HasRow(yahoo) \subseteq HasRow(yahoo')
    BY <1>2, <1>3, <2>1, <2>2, <2>4 DEF HasRow
  <2>6. \A d \in Days : first <= d => YahooRight(d)'
    <3> SUFFICES ASSUME NEW d \in Days, first <= d PROVE YahooRight(d)'
      OBVIOUS
    <3>1. CASE d \in bars
      BY <2>3, <3>1
    <3>2. CASE d \notin bars
      <4>1. d \notin HasRow(yahoo)
        BY <1>3, <2>4, <3>2 DEF TypeOK
      <4> QED
        BY <2>1, <3>2, <4>1 DEF YahooRight, HasRow
    <3> QED
      BY <3>1, <3>2
  <2>7. "yahoo" \in ingested' =>
           \A d \in Days : today' - SourceLookback <= d => YahooRight(d)'
    <3> SUFFICES ASSUME "yahoo" \in ingested', NEW d \in Days,
                        today - SourceLookback <= d
                 PROVE  YahooRight(d)'
      OBVIOUS
    <3>1. CASE "yahoo" \in ingested
      BY <2>3, <3>1 DEF BronzeInv
    <3>2. CASE first <= today - SourceLookback
      <4>1. first <= d
        BY <3>2, SourcesAssumption DEF TypeOK, Days
      <4> QED
        BY <2>6, <4>1
    <3> QED
      BY <3>1, <3>2
  <2>8. "yahoo" \in refreshed' => \A d \in Days : YahooRight(d)'
    <3> SUFFICES ASSUME "yahoo" \in refreshed', NEW d \in Days PROVE YahooRight(d)'
      OBVIOUS
    <3>1. CASE "yahoo" \in refreshed
      BY <2>3, <3>1 DEF BronzeInv
    <3>2. CASE first <= 1
      BY <2>6, <3>2 DEF Days
    <3> QED
      BY <3>1, <3>2
  <2>9. "tiingo" \in refreshed' => "tiingo" \in refreshed
    BY <1>3
  <2> QED
    BY <2>1, <2>5, <2>7, <2>8, <2>9 DEF BronzeInv
<1>4. CASE s = "tiingo"
  <2>1. /\ yahoo' = yahoo
        /\ \A d \in Days : tiingo'[d] = IF d \in bars THEN [split |-> d \in splits]
                                        ELSE tiingo[d]
        /\ DOMAIN tiingo' = Days /\ DOMAIN tiingo = Days
    BY <1>4 DEF StoreBars, StoreTiingo, TypeOK
  <2>2. \A d \in bars : [split |-> d \in splits] # NoRow
    <3>1. \A d \in bars : [split |-> d \in splits] \in TiingoRow
      BY DEF TiingoRow
    <3> QED
      BY <3>1, SourcesAssumption
  <2>3. \A d \in Days : YahooRight(d)' = YahooRight(d)
    BY <1>1, <2>1 DEF YahooRight
  <2>4. /\ HasRow(tiingo) \subseteq HasRow(tiingo')
        /\ bars \subseteq HasRow(tiingo')
        /\ HasRow(tiingo') \subseteq HasRow(tiingo) \cup bars
    BY <1>2, <2>1, <2>2 DEF HasRow
  <2>5. \A e \in HasRow(tiingo') : tiingo'[e].split <=> e \in splits
    <3> SUFFICES ASSUME NEW e \in HasRow(tiingo')
                 PROVE  tiingo'[e].split <=> e \in splits
      OBVIOUS
    <3>1. e \in Days
      BY <1>2, <2>1 DEF HasRow
    <3>2. CASE e \in bars
      <4>1. tiingo'[e] = [split |-> e \in splits]
        BY <2>1, <3>1, <3>2
      <4>2. CASE e \in splits
        <5>1. (e \in splits) = TRUE
          BY <4>2
        <5>2. tiingo'[e] = [split |-> TRUE]
          BY <4>1, <5>1, Zenon
        <5> QED
          BY <4>2, <5>2
      <4>3. CASE e \notin splits
        <5>1. (e \in splits) = FALSE
          BY <4>3
        <5>2. tiingo'[e] = [split |-> FALSE]
          BY <4>1, <5>1, Zenon
        <5> QED
          BY <4>3, <5>2
      <4> QED
        BY <4>2, <4>3
    <3>3. CASE e \notin bars
      BY <2>1, <2>4, <3>1, <3>3 DEF BronzeInv
    <3> QED
      BY <3>2, <3>3
  <2>6. "tiingo" \in refreshed' => splits \subseteq HasRow(tiingo')
    <3>1. CASE "tiingo" \in refreshed
      BY <2>4, <3>1 DEF BronzeInv
    <3>2. CASE first <= 1 /\ splits \subseteq published["tiingo"]
      <4>1. splits \subseteq bars
        BY <1>4, <3>2 DEF TypeOK
      <4> QED
        BY <2>4, <4>1
    <3> QED
      BY <3>1, <3>2
  <2>7. ("yahoo" \in ingested' => "yahoo" \in ingested)
        /\ ("yahoo" \in refreshed' => "yahoo" \in refreshed)
    BY <1>4
  <2> QED
    BY <1>4, <2>1, <2>3, <2>4, <2>5, <2>6, <2>7 DEF BronzeInv
<1> QED
  BY <1>3, <1>4 DEF Sources

-----------------------------------------------------------------------------
(***************************************************************************)
(* What conform makes of it.                                               *)
(***************************************************************************)
\* With a right Yahoo bar, and every split in Tiingo, conform puts a day on the basis
\* of today, whichever source wins it.
LEMMA ConformedRight ==
    ASSUME TypeOK, BronzeInv, splits \subseteq HasRow(tiingo),
           HasRow(silver) \subseteq HasRow(yahoo) \cup HasRow(tiingo),
           NEW first, NEW last, NEW d \in Days, d \in first .. last, YahooRight(d),
           DailyMerged(first, last)[d] # NoRow
    PROVE  /\ DailyMerged(first, last)[d].day = d
           /\ DailyMerged(first, last)[d].adj = SplitsAfter(d)
<1>1. Branches(d, last) # {}
  BY DEF DailyMerged, Branches, HasRow, TypeOK
<1>2. DailyMerged(first, last)[d] \in Branches(d, last)
  BY <1>1, WinnerIsBranch DEF DailyMerged
<1>3. SplitFactors(d, last) = SplitsAfter(d)
  <2>1. \A e : e \in SplitFactors(d, last) <=> e \in SplitsAfter(d)
    BY DEF SplitFactors, SplitsAfter, BronzeInv
  <2> QED
    BY <2>1
<1> QED
  BY <1>2, <1>3 DEF Branches, YahooRight, HasRow

LEMMA MergedRows ==
    ASSUME TypeOK, NEW first, NEW last,
           HasRow(silver) \subseteq HasRow(yahoo) \cup HasRow(tiingo)
    PROVE  /\ HasRow(DailyMerged(first, last))
                \subseteq HasRow(yahoo) \cup HasRow(tiingo)
           /\ \A d \in Days : d \notin first .. last =>
                DailyMerged(first, last)[d] = silver[d]
BY DEF DailyMerged, Branches, HasRow, TypeOK

\* A range conformed anew, while bronze is right for the days that must be right.
LEMMA SilverInvConform ==
    ASSUME TypeOK, BronzeInv, SilverInv, NEW first, NEW last, Conform(first, last),
           first .. last \subseteq Days,
           NEW d \in Days,
           splits \subseteq HasRow(tiingo), YahooRight(d),
           d \in first .. last \/ Right(d)
    PROVE  Right(d)'
<1>1. silver' = DailyMerged(first, last) /\ splits' = splits
  BY DEF Conform, market
<1>2. SplitsAfter(d)' = SplitsAfter(d)
  BY <1>1 DEF SplitsAfter
<1>3. CASE d \in first .. last
  BY <1>1, <1>2, <1>3, ConformedRight DEF Right, SilverInv
<1>4. CASE d \notin first .. last
  BY <1>1, <1>2, <1>4, MergedRows DEF Right, SilverInv
<1> QED
  BY <1>3, <1>4

LEMMA RebasedConform ==
    ASSUME TypeOK, BronzeInv, SilverInv, NEW first, NEW last, Conform(first, last),
           first .. last \subseteq Days
    PROVE  /\ HasRow(silver') \subseteq HasRow(yahoo') \cup HasRow(tiingo')
           /\ rebased' # {} => refreshed' = Sources
           /\ \A d \in rebased' : Right(d)'
<1>1. HasRow(silver') \subseteq HasRow(yahoo') \cup HasRow(tiingo')
  BY MergedRows DEF Conform, bronze, SilverInv
<1>2. rebased' # {} => refreshed' = Sources
  BY DEF Conform, SilverInv
<1>3. ASSUME NEW d \in rebased'
      PROVE  Right(d)'
  <2>1. refreshed = Sources
    BY <1>3, <1>2 DEF Conform
  <2>2. d \in Days /\ (d \in first .. last \/ Right(d))
    BY <1>3 DEF Conform, SilverInv, TypeOK
  <2> QED
    BY <2>1, <2>2, SilverInvConform DEF BronzeInv, Sources
<1> QED
  BY <1>1, <1>2, <1>3

-----------------------------------------------------------------------------
LEMMA InvStep ==
    TypeOK /\ BronzeInv /\ SilverInv /\ [Next]_vars => BronzeInv' /\ SilverInv'
<1> SUFFICES ASSUME TypeOK, BronzeInv, SilverInv, [Next]_vars
             PROVE  BronzeInv' /\ SilverInv'
  OBVIOUS
<1>1. CASE NextDay
  <2>1. /\ silver' = silver /\ yahoo' = yahoo /\ tiingo' = tiingo
        /\ ds' # today'
    BY <1>1 DEF NextDay, bronze, TypeOK
  <2>2. \/ rebased' = {}
        \/ rebased' = rebased /\ refreshed' = refreshed /\ splits' = splits
    BY <1>1 DEF NextDay
  <2>3. SilverInv'
    BY <2>1, <2>2 DEF SilverInv, Right, SplitsAfter
  <2> QED
    BY <1>1, <2>3, BronzeInvNextDay
<1>2. ASSUME NEW s \in Sources, NEW first \in Int, StoreBars(s, first),
             \/ IngestLatest(s) /\ first = today - SourceLookback
             \/ BackfillHistory(s) /\ first = 1
      PROVE  BronzeInv' /\ SilverInv'
  <2>1. /\ UNCHANGED <<today, splits, published, silver, ds, settled, rebased>>
        /\ ingested \subseteq ingested' /\ refreshed \subseteq refreshed'
        /\ refreshed' \subseteq Sources
    BY <1>2 DEF IngestLatest, BackfillHistory, market, history, TypeOK
  <2>2. "yahoo" \in ingested' =>
           "yahoo" \in ingested \/ (s = "yahoo" /\ first <= today - SourceLookback)
    BY <1>2, SourcesAssumption DEF IngestLatest, BackfillHistory, TypeOK
  <2>3. /\ "yahoo" \in refreshed' =>
             "yahoo" \in refreshed \/ (s = "yahoo" /\ first <= 1)
        /\ "tiingo" \in refreshed' =>
             "tiingo" \in refreshed
               \/ (s = "tiingo" /\ first <= 1 /\ splits \subseteq published["tiingo"])
    BY <1>2 DEF IngestLatest, BackfillHistory, history, Sources
  <2>4. /\ BronzeInv'
        /\ HasRow(yahoo) \subseteq HasRow(yahoo')
        /\ HasRow(tiingo) \subseteq HasRow(tiingo')
    BY <1>2, <2>1, <2>2, <2>3, BronzeInvStore
  <2>5. ingested' \subseteq Sources
    BY <1>2 DEF IngestLatest, BackfillHistory, TypeOK
  <2>6. \A d \in Days : Right(d)' = Right(d)
    BY <2>1 DEF Right, SplitsAfter
  <2>7. SilverInv'
    BY <2>1, <2>4, <2>5, <2>6 DEF SilverInv, WindowStart, TypeOK
  <2> QED
    BY <2>4, <2>7
<1>3. ASSUME NEW s \in Sources, IngestLatest(s) \/ BackfillHistory(s)
      PROVE  BronzeInv' /\ SilverInv'
  <2>1. today - SourceLookback \in Int
    BY SourcesAssumption DEF TypeOK
  <2>2. /\ IngestLatest(s) => StoreBars(s, today - SourceLookback)
        /\ BackfillHistory(s) => StoreBars(s, 1)
    BY DEF IngestLatest, BackfillHistory
  <2> QED
    BY <1>2, <1>3, <2>1, <2>2
<1>4. ASSUME NEW first, NEW last, Conform(first, last) PROVE BronzeInv'
  BY <1>4 DEF Conform, market, bronze, BronzeInv, YahooRight, SplitsAfter
<1>5. CASE DailyRun
  <2> DEFINE first == WindowStart(today)
  <2>1. Conform(first, today) /\ ds' = today /\ today' = today
    BY <1>5 DEF DailyRun, Conform, market
  <2>2. /\ today \in Days /\ first \in Days /\ first .. today \subseteq Days
        /\ today - SourceLookback <= first
    BY <1>5, SourcesAssumption DEF DailyRun, TypeOK, WindowStart, Days
  <2>3. ASSUME settled', NEW d \in Days, first <= d
        PROVE  Right(d)'
    <3>1. ingested = Sources /\ splits \subseteq HasRow(tiingo)
      BY <1>5, <2>3 DEF DailyRun
    <3>2. today - SourceLookback <= d
      BY <2>2, <2>3, SourcesAssumption DEF Days
    <3>3. YahooRight(d)
      BY <3>1, <3>2 DEF BronzeInv, Sources
    <3>4. CASE d <= today
      <4>1. d \in first .. today
        BY <2>2, <2>3, <3>4 DEF Days
      <4> QED
        BY <2>1, <2>2, <3>1, <3>3, <4>1, SilverInvConform
    <3>5. CASE ~ (d <= today)
      <4>1. d \notin HasRow(yahoo) /\ d \notin HasRow(tiingo)
        BY <3>5 DEF BronzeInv, TypeOK, Sources
      <4>2. d \notin HasRow(silver')
        BY <2>1, <2>2, <4>1, RebasedConform DEF Conform, bronze
      <4>3. silver' = DailyMerged(first, today)
        BY <2>1 DEF Conform
      <4> QED
        BY <4>2, <4>3, DailyMergedType DEF Right, HasRow
    <3> QED
      BY <3>4, <3>5
  <2>4. settled' => ingested' = Sources /\ splits' \subseteq HasRow(tiingo')
    BY <1>5, <2>1 DEF DailyRun, Conform, market, bronze
  <2>5. SilverInv'
    BY <2>1, <2>2, <2>3, <2>4, RebasedConform DEF SilverInv, WindowStart
  <2> QED
    BY <1>4, <2>1, <2>5
<1>6. ASSUME NEW first \in Days, NEW last \in Days, ConformAgain(first, last)
      PROVE  BronzeInv' /\ SilverInv'
  <2>1. /\ Conform(first, last) /\ first .. last \subseteq Days
        /\ UNCHANGED <<ds, settled, today, splits, tiingo, ingested>>
    BY <1>6, RangeOfDays DEF ConformAgain, Conform, market, bronze
  <2>2. ASSUME ds' = today', settled'
        PROVE  /\ ingested' = Sources /\ splits' \subseteq HasRow(tiingo')
               /\ \A d \in Days : WindowStart(today') <= d => Right(d)'
    <3>1. ingested = Sources /\ splits \subseteq HasRow(tiingo)
      BY <2>1, <2>2 DEF SilverInv
    <3>2. ASSUME NEW d \in Days, WindowStart(today) <= d
          PROVE  Right(d)'
      <4>1. Right(d)
        BY <2>1, <2>2, <3>2 DEF SilverInv
      <4>2. today - SourceLookback <= d
        BY <3>2, SourcesAssumption DEF WindowStart, TypeOK, Days
      <4>3. YahooRight(d)
        BY <3>1, <4>2 DEF BronzeInv, Sources
      <4> QED
        BY <2>1, <3>1, <4>1, <4>3, SilverInvConform
    <3> QED
      BY <2>1, <3>1, <3>2
  <2>3. SilverInv'
    BY <2>1, <2>2, RebasedConform DEF SilverInv
  <2> QED
    BY <1>4, <2>1, <2>3
<1>7. CASE UNCHANGED vars
  BY <1>7
  DEF vars, market, bronze, history, BronzeInv, SilverInv, YahooRight, Right,
      SplitsAfter, WindowStart
<1> QED
  BY <1>1, <1>3, <1>5, <1>6, <1>7 DEF Next

LEMMA InvHolds == Spec => [](BronzeInv /\ SilverInv)
<1>1. Init => BronzeInv /\ SilverInv
  BY DEF Init, BronzeInv, SilverInv, HasRow, Sources, YahooRight, Right
<1> QED
  BY <1>1, InvStep, SourcesTypeCorrect, PTL DEF Spec

\* Two days that are right are on one basis.
LEMMA RightOnOneBasis ==
    ASSUME TypeOK, NEW T \in SUBSET Days, \A d \in T : Right(d)
    PROVE  OnOneBasis({silver[d] : d \in T \cap HasRow(silver)})
<1> SUFFICES ASSUME NEW d \in T \cap HasRow(silver), NEW e \in T \cap HasRow(silver),
                    silver[d].day < silver[e].day
             PROVE  silver[d].adj = silver[e].adj \cup
                       {x \in splits : silver[d].day < x /\ x <= silver[e].day}
  BY DEF OnOneBasis, SameBasis
<1>1. /\ silver[d].day = d /\ silver[d].adj = SplitsAfter(d)
      /\ silver[e].day = e /\ silver[e].adj = SplitsAfter(e)
      /\ d \in Int /\ e \in Int
  BY DEF Right, HasRow, Days
<1>2. \A x \in splits : x > d <=> x > e \/ (d < x /\ x <= e)
  BY <1>1 DEF TypeOK
<1> QED
  BY <1>1, <1>2 DEF SplitsAfter

\* A launch that read after both of today's ingests leaves all it has processed on one
\* basis, on the day of a split too, and it stays so through ranges conformed by hand
\* until the next day closes: for every look-back of the launch up to the ingests'.
THEOREM RecentOnOneBasisHolds == Spec => []RecentOnOneBasis
<1>1. TypeOK /\ SilverInv => RecentOnOneBasis
  <2> SUFFICES ASSUME TypeOK, SilverInv, ds = today, settled
               PROVE  OnOneBasis({silver[d] :
                         d \in (WindowStart(today) .. today) \cap HasRow(silver)})
    BY DEF RecentOnOneBasis
  <2>1. /\ WindowStart(today) .. today \in SUBSET Days
        /\ \A d \in WindowStart(today) .. today : Right(d)
    BY SourcesAssumption DEF TypeOK, WindowStart, Days, SilverInv
  <2> QED
    BY <2>1, RightOnOneBasis
<1> QED
  BY <1>1, InvHolds, SourcesTypeCorrect, PTL

\* Back-filling both sources and conforming again repairs a split, in whatever ranges
\* and order the history is conformed and however daily runs interleave.
THEOREM RebaseRestoresHolds == Spec => []RebaseRestores
<1>1. TypeOK /\ SilverInv => RebaseRestores
  BY RightOnOneBasis DEF TypeOK, SilverInv, RebaseRestores
<1> QED
  BY <1>1, InvHolds, SourcesTypeCorrect, PTL
=============================================================================
