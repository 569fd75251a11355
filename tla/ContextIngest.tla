--------------------------- MODULE ContextIngest ---------------------------
(***************************************************************************)
(* The context ingests: the daily DAG runs each once a day, best effort,   *)
(* to refresh the end of a bronze table from its provider; an operator may *)
(* run it by hand for a range.  A run takes the symbols of its feed one    *)
(* after another: it fetches a window, drops what is missing or not closed *)
(* yet, and MERGEs the rest on its key, in chunks.                         *)
(*                                                                         *)
(* A value is the day the provider published it.  The feeds differ in:     *)
(*   "values"    a date has one row, its latest value (FRED, CoinMetrics)  *)
(*   "bars"      the same, and the bar of the running day is not closed    *)
(*               (Yahoo, Tiingo)                                           *)
(*   "last"      the daily run asks for the newest date only (MVRV)        *)
(*   "vintages"  a date has a row for every value it ever had, with the    *)
(*               days the value was current (M2 from ALFRED)               *)
(***************************************************************************)
EXTENDS Integers, Sequences, FiniteSets, FiniteSetsExt

CONSTANTS
    LastDay,    \* bound: calendar days
    MaxValues,  \* bound: values the provider ever publishes
    Lookback,   \* DAILY_LOOKBACK_DAYS
    ChunkSize,  \* MAX_MERGE_PARTITIONS
    Symbol,     \* the symbols or series of all feeds
    Feeds       \* feeds: their kind, and their symbols in the order of the loop

Kinds == {"values", "bars", "last", "vintages"}

ASSUME ContextAssumption ==
    /\ LastDay \in Nat \ {0}
    /\ MaxValues \in Nat
    /\ Lookback \in Nat
    /\ ChunkSize \in Nat \ {0}
    /\ Feeds \subseteq [kind : Kinds, symbols : Seq(Symbol) \ {<<>>}]

VARIABLES
    feed,    \* the ingest this behaviour is about
    today,
    source,  \* days on which the provider published a value, by symbol and date
    table,   \* the rows of bronze, by symbol
    todo,    \* the symbols a run has left, the one it is at first; <<>> for no run
    from,    \* the window it requests
    to,
    asof,    \* the day of the fetch for the symbol it is at, 0 before the fetch
    batch,   \* rows fetched and not MERGEd yet
    reach    \* history: the day of the last fetch of a date whose run went on

vars == <<feed, today, source, table, todo, from, to, asof, batch, reach>>

Days == 1 .. LastDay
Forever == LastDay + 1    \* 9999-12-31
Row == [date : Days, start : Days, end : 1 .. Forever]

MaxOf(i, j) == IF i > j THEN i ELSE j

Vintages == feed.kind = "vintages"
Running == todo # <<>>

Init ==
    /\ feed \in Feeds
    /\ today = 1
    /\ source = [s \in Symbol |-> [d \in Days |-> {}]]
    /\ table = [s \in Symbol |-> {}]
    /\ todo = <<>> /\ from = 1 /\ to = 1
    /\ asof = 0 /\ batch = {}
    /\ reach = [s \in Symbol |-> [d \in Days |-> 0]]
-----------------------------------------------------------------------------
(***************************************************************************)
(* The provider.                                                           *)
(***************************************************************************)

NextDay ==
    /\ today < LastDay
    /\ today' = today + 1
    /\ UNCHANGED <<feed, source, table, todo, from, to, asof, batch, reach>>

Published ==
    {v \in Symbol \X Days \X Days : v[3] \in source[v[1]][v[2]]}

\* A first value, a late one or a revised one.
Publish(s, d) ==
    /\ d <= today
    /\ today \notin source[s][d]
    /\ Cardinality(Published) < MaxValues
    /\ source' = [source EXCEPT ![s][d] = @ \cup {today}]
    /\ UNCHANGED <<feed, today, table, todo, from, to, asof, batch, reach>>

\* The last day the value published on day p was current.
VintageEnd(s, d, p) ==
    LET later == {q \in source[s][d] : q > p}
    IN  IF later = {} THEN Forever ELSE Min(later) - 1

\* A vintage request answers with the vintages that were current on day lo or
\* later, cut off at lo: an early realtime_start would make up new keys.
VintageRecords(s, d, lo) ==
    {[date |-> d, start |-> MaxOf(p, lo), end |-> VintageEnd(s, d, p)] :
        p \in {q \in source[s][d] : VintageEnd(s, d, q) >= lo}}

\* Mutant: a date without a value is kept, with a NULL.
NullRecords(s, d) ==
    {[date |-> d, start |-> IF source[s][d] = {} THEN 0 ELSE Max(source[s][d]),
      end |-> Forever]}

\* Any other request answers with the value of the day. A date without a value
\* is alerted and dropped.
ValueRecords(s, d) ==
    {[date |-> d, start |-> p, end |-> Forever] :
        p \in {q \in source[s][d] : VintageEnd(s, d, q) = Forever}}
-----------------------------------------------------------------------------
(***************************************************************************)
(* A run.                                                                  *)
(***************************************************************************)

\* Mutant: a vintage request without its observation_start.
WindowUnbounded ==
    IF Vintages THEN Days
    ELSE {d \in from .. to : feed.kind = "bars" => d < today}

\* The dates a fetch asks for; a vintage request has no last date, and of the
\* bars the open one is dropped.
Window ==
    IF Vintages THEN from .. LastDay
    ELSE {d \in from .. to : feed.kind = "bars" => d < today}

\* What the "last" endpoint may answer with: its newest datum is of the last date with
\* a value or of a later one, which may get its value by the fetch or still lack it.
NewestDates ==
    {d \in 1 .. today : \A e \in Days : source[feed.symbols[1]][e] # {} => e <= d}

\* What the daily run asks for: the last days, or the newest datum alone.
DailyWindows ==
    IF feed.kind = "last" THEN {<<d, d>> : d \in NewestDates}
    ELSE {<<MaxOf(1, today - Lookback), today>>}

\* ingest_latest
StartDaily ==
    /\ ~Running
    /\ todo' = feed.symbols
    /\ \E w \in DailyWindows : from' = w[1] /\ to' = w[2]
    /\ UNCHANGED <<feed, today, source, table, asof, batch, reach>>

\* ingest_range, backfill_history; vintages only know the whole history.
StartByHand(first, last) ==
    /\ ~Running
    /\ first <= last /\ last <= today
    /\ Vintages => first = 1 /\ last = today
    /\ todo' = feed.symbols
    /\ from' = first
    /\ to' = last
    /\ UNCHANGED <<feed, today, source, table, asof, batch, reach>>

Fetch ==
    /\ Running /\ asof = 0
    /\ LET s == Head(todo) IN
         batch' = UNION {IF Vintages THEN VintageRecords(s, d, from)
                                     ELSE ValueRecords(s, d) : d \in Window}
    /\ asof' = today
    /\ UNCHANGED <<feed, today, source, table, todo, from, to, reach>>

\* Rows come in order of date and, of one date, in order of publication.
Before(q, r) == q.date < r.date \/ (q.date = r.date /\ q.start < r.start)
Position(b, r) == Cardinality({q \in b : Before(q, r)})

\* Mutant: the next chunk starts one row late.
RestSkippingOne(b) == {r \in b : Position(b, r) > ChunkSize}

Chunk(b) == {r \in b : Position(b, r) < ChunkSize}
RestOf(b) == {r \in b : Position(b, r) >= ChunkSize}

\* Mutant: realtime_start is left out of the key of a vintage.
SameDate(q, r) == q.date = r.date

SameKey(q, r) == q.date = r.date /\ (Vintages => q.start = r.start)

\* WHEN MATCHED every column is updated, WHEN NOT MATCHED the row is inserted.
Merged(rows, chunk) ==
    {r \in rows : \A q \in chunk : ~SameKey(q, r)} \cup chunk

MergeChunk ==
    /\ batch # {}
    /\ table' = [table EXCEPT ![Head(todo)] = Merged(@, Chunk(batch))]
    /\ batch' = RestOf(batch)
    /\ UNCHANGED <<feed, today, source, todo, from, to, asof, reach>>

\* The dates a finished symbol is up to date for.
Promised == {d \in from .. to : feed.kind = "bars" => d < asof}

\* The symbol is done: the loop goes on, or the run ends.
NextSymbol ==
    /\ Running /\ asof # 0 /\ batch = {}
    /\ todo' = Tail(todo)
    /\ asof' = 0
    /\ reach' = [reach EXCEPT ![Head(todo)] =
                    [d \in Days |-> IF d \in Promised THEN asof ELSE @[d]]]
    /\ UNCHANGED <<feed, today, source, table, from, to, batch>>

\* An exception, or the end of the process. The symbols left are not tried, and
\* the best-effort wrapper hides the failure from the retries of the DAG.
RunDies ==
    /\ Running
    /\ todo' = <<>> /\ asof' = 0 /\ batch' = {}
    /\ UNCHANGED <<feed, today, source, table, from, to, reach>>

Next ==
    \/ NextDay
    \/ \E i \in DOMAIN feed.symbols, d \in Days : Publish(feed.symbols[i], d)
    \/ StartDaily
    \/ \E first, last \in Days : StartByHand(first, last)
    \/ Fetch
    \/ MergeChunk
    \/ NextSymbol
    \/ RunDies

Spec == Init /\ [][Next]_vars
-----------------------------------------------------------------------------
(***************************************************************************)
(* Properties.                                                             *)
(***************************************************************************)

\* Every variable keeps its type; a stored row has a value.
TypeOK ==
    /\ feed \in Feeds
    /\ today \in Days
    /\ source \in [Symbol -> [Days -> SUBSET Days]]
    /\ table \in [Symbol -> SUBSET Row]
    /\ todo \in Seq(Symbol)
    /\ from \in Days /\ to \in Days
    /\ asof \in 0 .. LastDay
    /\ batch \subseteq Row
    /\ reach \in [Symbol -> [Days -> 0 .. LastDay]]

\* The as-of join of the feature views finds one row: whatever was fetched when,
\* merged in part or cut short, no two rows of a date were current on one day.
AsOfUnambiguous ==
    \A s \in Symbol : \A q, r \in table[s] :
        q # r /\ q.date = r.date => q.end < r.start \/ r.end < q.start

\* The value of date d that was current on day x, as a set: by the rows given.
KnownOn(rows, d, x) ==
    {r.start : r \in {q \in rows : q.date = d /\ q.start <= x /\ x <= q.end}}

\* What a finished fetch promised stays true, whatever later runs do or fail to
\* do: for the days before the fetch, the table knows of each date in the window
\* what the provider knew. Feeds without vintages know the value or a later one.
UpToDate ==
    \A s \in Symbol, d \in Days : \A x \in 1 .. LastDay : x < reach[s][d] =>
        IF Vintages
        THEN KnownOn(table[s], d, x) = KnownOn(VintageRecords(s, d, 0), d, x)
        ELSE \A p \in source[s][d] : p <= x =>
                \E r \in table[s] : r.date = d /\ r.start >= p

\* No run takes the table back: a vintage stays, and is only ever closed; any
\* other value gives way to a later one only.
NeverGoesBack ==
    [][\A s \in Symbol : \A r \in table[s] : \E q \in table'[s] :
          /\ SameKey(q, r)
          /\ q.start >= r.start
          /\ q.end <= r.end]_vars
=============================================================================
