---------------------------- MODULE UpsertTable ----------------------------
(***************************************************************************)
(* What a pipeline stage promises of the table it feeds: an attempt either *)
(* leaves the table alone or upserts exactly the rows it computed, all of  *)
(* them, at once.  Rows otherwise change only when they are deleted by     *)
(* hand, between attempts.  A table is the set of the keys it holds.       *)
(***************************************************************************)
CONSTANT Row  \* the rows that may ever exist

VARIABLES
    table,
    batch   \* the rows an attempt has computed and not yet merged

Init == table = {} /\ batch = {}

Compute == batch = {} /\ batch' \subseteq Row /\ UNCHANGED table

Commit == table' = table \cup batch /\ batch' = {}

Fail == batch' = {} /\ UNCHANGED table

Delete == batch = {} /\ table' \subseteq table /\ UNCHANGED batch

Next == Compute \/ Commit \/ Fail \/ Delete

Spec == Init /\ [][Next]_<<table, batch>>
=============================================================================
