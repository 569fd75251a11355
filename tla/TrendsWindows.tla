--------------------------- MODULE TrendsWindows ---------------------------
(***************************************************************************)
(* Google Trends to bronze, and what the view that stitches it rests on.   *)
(*                                                                         *)
(* Google scales each answer to its own maximum, and its grid depends on   *)
(* the length of the request: weeks only between MinWeekly and MaxWeekly.  *)
(* So the history is kept as overlapping windows, each under the start of  *)
(* its request, and the view re-scales each window onto the one before it  *)
(* by the weeks they share.  A row is the end of the request that brought  *)
(* it: with its window's start, that is the scale of its value.            *)
(*                                                                         *)
(* The DAG's job refreshes the newest window every day; by hand the history*)
(* is back-filled window by window, or one range is loaded.  The two may   *)
(* run at once, and either may fail at any request (Google's rate limits). *)
(* An answer may also lack weeks, or be empty: the job stores what there   *)
(* is, if anything, and goes on.                                           *)
(* Time is in weeks; the week under way is never stored.                   *)
(***************************************************************************)
EXTENDS Integers

CONSTANTS
    LastWeek,      \* bound: the number of weeks
    WindowWeeks,   \* WINDOW_DAYS
    OverlapWeeks,  \* OVERLAP_DAYS
    MinWeekly,     \* MIN_WEEKLY_DAYS: a shorter request is answered by day
    MaxWeekly,     \* a longer one is answered by month ("above ~5y")
    MaxByHand,     \* bound: jobs by hand
    MaxFaults,     \* bound: jobs that fail, and answers that lack weeks
    Gaps,          \* the sets of weeks an answer may lack
    NoRow,         \* no row for this key, or no answer to store
    Env            \* "backfill", "range": what is run by hand

VARIABLES
    today,   \* the last week that is over
    raw,     \* google_trends_btc_weekly_raw, by window start and week
    other,   \* the window starts under which it holds days or months
    todo,    \* by job: the windows it has still to request
    answer,  \* by job: the window it has the answer of, not yet stored
    lacks,   \* by job: the weeks that answer has no value for
    kind,    \* what the job by hand is
    crossed, \* a week has ended since it started
    byHand,  \* jobs by hand so far
    faults,  \* jobs that have failed, and answers that lacked weeks
    lost,    \* history: the weeks an answer lacked when it was stored
    whole,   \* history: a back-fill has ended, and there are windows
    ranged   \* history: a range has been stored

table == <<raw, other>>
vars == <<today, table, todo, answer, lacks, kind, crossed, byHand, faults, lost, whole,
          ranged>>

Weeks == 1 .. LastWeek
Jobs == {"dag", "hand"}
Window == {w \in Weeks \X Weeks : w[1] <= w[2]}

ASSUME TrendsAssumption ==
    /\ LastWeek \in Nat \ {0}
    /\ WindowWeeks \in Nat \ {0}
    /\ OverlapWeeks \in 1 .. WindowWeeks
    /\ MinWeekly \in 0 .. OverlapWeeks
    /\ MaxWeekly \in Nat
    /\ WindowWeeks <= MaxWeekly
    /\ WindowWeeks < LastWeek
    /\ MaxByHand \in Nat
    /\ MaxFaults \in Nat
    /\ Gaps \subseteq SUBSET Weeks /\ {} \in Gaps
    /\ NoRow \notin Weeks \cup Window

Lesser(a, b) == IF a < b THEN a ELSE b
Held(s) == {w \in Weeks : raw[s][w] # NoRow}

\* The windows of the table, as the view numbers them, and MAX(window_start).
Starts == {s \in Weeks : Held(s) # {}} \cup other
IsLatest(s) == s \in Starts /\ \A q \in Starts : q <= s

\* Week 1 is HISTORY_START, a window's length before the ingest's first day at least.
Init ==
    /\ today = WindowWeeks + 1
    /\ raw = [s \in Weeks |-> [w \in Weeks |-> NoRow]] /\ other = {}
    /\ todo = [j \in Jobs |-> {}] /\ answer = [j \in Jobs |-> NoRow]
    /\ lacks = [j \in Jobs |-> {}] /\ lost = {}
    /\ kind = "none" /\ crossed = FALSE /\ byHand = 0 /\ faults = 0
    /\ whole = FALSE /\ ranged = FALSE

Idle(j) == todo[j] = {} /\ answer[j] = NoRow

\* The DAG's task ends within its day.  A job by hand may go on, but it is a few
\* requests of seconds to minutes each: at most one week ends before it does.
NextWeek ==
    /\ today < LastWeek
    /\ Idle("dag")
    /\ Idle("hand") \/ ~ crossed
    /\ today' = today + 1
    /\ crossed' = ~ Idle("hand")
    /\ UNCHANGED <<table, todo, answer, lacks, kind, byHand, faults, lost, whole, ranged>>

(***************************************************************************)
(* The windows of each entry point.                                        *)
(***************************************************************************)
Step == IF WindowWeeks - OverlapWeeks > 1 THEN WindowWeeks - OverlapWeeks ELSE 1

\* Mutants: windows that do not overlap; the end not capped.
BoundsApart(start, end) ==
    {<<a, Lesser(a + WindowWeeks, end)>> :
        a \in {b \in start .. end : (b - start) % (WindowWeeks + 1) = 0}}
BoundsUncapped(start, end) ==
    {<<a, a + WindowWeeks>> :
        a \in {b \in start .. end :
                 (b - start) % Step = 0 /\ (b = start \/ b - Step + WindowWeeks < end)}}

\* A further window while the one before it stops short of the end.
WindowBounds(start, end) ==
    {<<a, Lesser(a + WindowWeeks, end)>> :
        a \in {b \in start .. end :
                 /\ (b - start) % Step = 0
                 /\ b = start \/ b - Step + WindowWeeks < end}}

RangeWindow(start, end) ==
    <<Lesser(start, IF end > MinWeekly THEN end - MinWeekly ELSE 1), end>>

\* Mutant: a window never longer than those of the back-fill.
RefreshCapped(s) == <<s, Lesser(s + WindowWeeks, today)>>

RefreshWindow(s) == <<s, today>>

\* Nothing is stored yet: a window that ends today.
FirstWindow == <<today - WindowWeeks, today>>

StartJob(j, windows) ==
    /\ Idle(j)
    /\ todo' = [todo EXCEPT ![j] = windows]
    /\ UNCHANGED <<today, table, answer, lacks, faults, lost, whole, ranged>>

IngestLatest ==
    /\ \/ \E s \in Weeks : IsLatest(s) /\ StartJob("dag", {RefreshWindow(s)})
       \/ Starts = {} /\ StartJob("dag", {FirstWindow})
    /\ UNCHANGED <<kind, crossed, byHand>>

StartByHand(k, windows) ==
    /\ k \in Env
    /\ byHand < MaxByHand
    /\ StartJob("hand", windows)
    /\ kind' = k
    /\ crossed' = FALSE
    /\ byHand' = byHand + 1

BackfillHistory == StartByHand("backfill", WindowBounds(1, today))

IngestRange(start, end) ==
    /\ start <= end /\ end <= today /\ end > MinWeekly
    /\ StartByHand("range", {RangeWindow(start, end)})

(***************************************************************************)
(* A job: window by window, oldest first, a request and a MERGE.           *)
(***************************************************************************)
Fetch(j) ==
    /\ answer[j] = NoRow
    /\ \E w \in todo[j], g \in Gaps :
         /\ \A v \in todo[j] : w[1] <= v[1]
         /\ g # {} => faults < MaxFaults
         /\ answer' = [answer EXCEPT ![j] = w]
         /\ lacks' = [lacks EXCEPT ![j] = g \cap (w[1] .. w[2])]
         /\ todo' = [todo EXCEPT ![j] = @ \ {w}]
         /\ faults' = IF g = {} THEN faults ELSE faults + 1
    /\ UNCHANGED <<today, table, kind, crossed, byHand, lost, whole, ranged>>

\* Google's grid, as the module's documentation has it.
Grid(w) ==
    CASE w[2] - w[1] < MinWeekly -> "day"
      [] w[2] - w[1] > MaxWeekly -> "month"
      [] OTHER -> "week"

\* Mutant: a stored week keeps its value.
UpsertNewOnly(w, weeks) ==
    IF Grid(w) = "week"
    THEN /\ raw' = [raw EXCEPT ![w[1]] =
                       [v \in Weeks |-> IF v \in weeks /\ @[v] = NoRow THEN w[2] ELSE @[v]]]
         /\ UNCHANGED other
    ELSE /\ other' = other \cup {s \in {w[1]} : weeks # {}}
         /\ UNCHANGED raw

\* A date of another grid is a key of its own.  The abstraction: none of them is
\* the date of a week.
Upsert(w, weeks) ==
    IF Grid(w) = "week"
    THEN /\ raw' = [raw EXCEPT ![w[1]] =
                       [v \in Weeks |-> IF v \in weeks THEN w[2] ELSE @[v]]]
         /\ UNCHANGED other
    ELSE /\ other' = other \cup {s \in {w[1]} : weeks # {}}
         /\ UNCHANGED raw

\* The weeks without a value are dropped, with a warning.
Prepared(j) == (answer[j][1] .. answer[j][2]) \ lacks[j]

\* A window without rows is skipped, and the job goes on to the next.
Store(j) ==
    /\ answer[j] # NoRow
    /\ Upsert(answer[j], Prepared(j))
    /\ answer' = [answer EXCEPT ![j] = NoRow]
    /\ lacks' = [lacks EXCEPT ![j] = {}]
    /\ lost' = lost \cup lacks[j]
    /\ whole' = (whole \/ (j = "hand" /\ kind = "backfill" /\ todo[j] = {} /\ Starts' # {}))
    /\ ranged' = (ranged \/ (j = "hand" /\ kind = "range"))
    /\ UNCHANGED <<today, todo, kind, crossed, byHand, faults>>

Fail(j) ==
    /\ faults < MaxFaults
    /\ ~ Idle(j)
    /\ todo' = [todo EXCEPT ![j] = {}]
    /\ answer' = [answer EXCEPT ![j] = NoRow]
    /\ lacks' = [lacks EXCEPT ![j] = {}]
    /\ faults' = faults + 1
    /\ UNCHANGED <<today, table, kind, crossed, byHand, lost, whole, ranged>>

JobStep(j) == Fetch(j) \/ Store(j)

Next ==
    \/ NextWeek
    \/ IngestLatest
    \/ BackfillHistory
    \/ \E start, end \in Weeks : IngestRange(start, end)
    \/ \E j \in Jobs : JobStep(j) \/ Fail(j)

Spec == Init /\ [][Next]_vars

\* Weeks pass, the DAG runs in each, and its job goes on.
FairSpec ==
    /\ Spec
    /\ WF_vars(NextWeek) /\ WF_vars(IngestLatest) /\ WF_vars(JobStep("dag"))
-----------------------------------------------------------------------------
\* No request ends in the future, or is so short that Google answers by day: the last
\* window of a back-fill reaches back over the overlap, a refresh never shortens its
\* window, and a range by hand is widened.
RequestsOK ==
    /\ \A j \in Jobs : \A w \in todo[j] : w[2] <= today
    /\ \A j \in Jobs : answer[j] # NoRow => answer[j][2] <= today /\ Grid(answer[j]) # "day"

\* Every variable keeps its type, every request its limits.
TypeOK ==
    /\ today \in Weeks
    /\ raw \in [Weeks -> [Weeks -> (1 .. today) \cup {NoRow}]]
    /\ other \subseteq Weeks
    /\ todo \in [Jobs -> SUBSET Window]
    /\ answer \in [Jobs -> Window \cup {NoRow}]
    /\ lacks \in [Jobs -> SUBSET Weeks]
    /\ RequestsOK
    /\ kind \in {"none", "backfill", "range"}
    /\ crossed \in BOOLEAN
    /\ byHand \in 0 .. MaxByHand
    /\ faults \in 0 .. MaxFaults
    /\ lost \subseteq Weeks
    /\ whole \in BOOLEAN /\ ranged \in BOOLEAN

\* The view's window before a window: the previous by rank of the start.
IsPrevious(p, s) == p \in Starts /\ p < s /\ \A q \in Starts : q < s => q <= p

\* A window whose factor the view computes: it shares a week with the one before.
\* (Without a shared week the view silently takes the factor to be 1.)
Rescaled(s) == \A p \in Weeks : IsPrevious(p, s) => Held(p) \cap Held(s) # {}

\* Once a back-fill has ended, every window but the first is re-scaled onto the
\* one before it, and no week up to the newest stored is missing: whatever the
\* DAG stored before or meanwhile, with whatever start, and however later
\* back-fills fail (and as long as no range is loaded by hand).  Excepted are only
\* the windows that start with a week some answer lacked, and those weeks.
WholeHistory ==
    whole /\ ~ ranged =>
        /\ \A s \in Starts : s \in lost \/ Rescaled(s)
        /\ \A s \in Starts : \A w \in Held(s) : \A v \in 1 .. w :
               v \in lost \/ \E q \in Starts : v \in Held(q)

\* A refresh brings the newest window onto one scale, whatever a back-fill left there
\* or stored between its request and its MERGE; but for the weeks its answer lacks,
\* which keep the scale they had.
RefreshUnifies ==
    [][\A w \in Window :
         (answer["dag"] = w /\ Store("dag") /\ Grid(w) = "week") =>
             \A v \in Weeks \ lacks["dag"] : raw'[w[1]][v] \in {NoRow, w[2]}]_vars

\* Every week is stored once it is over, as long as the newest window is young enough
\* to be answered by week until the end: under failures, and while the hand's job adds
\* windows (a range by hand may move the newest start past weeks that are not stored).
\* A week that an answer lacked may stay missing.
NewestWeekLandsInYoungWindow ==
    \A w \in Weeks :
        (/\ today >= w
         /\ \E s \in Starts : IsLatest(s) /\ s <= w /\ LastWeek - s <= MaxWeekly)
        ~> (ranged \/ w \in lost \/ \E s \in Starts : w \in Held(s))
=============================================================================
