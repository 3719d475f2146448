----------------------------- MODULE AuditTrail -----------------------------
(***************************************************************************)
(* The audit events of one column of one row (AuditEventService), oldest   *)
(* first, and what it means that they account for its value.               *)
(***************************************************************************)
EXTENDS Integers, Sequences

\* An audit event: the column went from old to new; a new row comes from "none".
Change(old, new) == [from |-> old, to |-> new]

\* The trail accounts for a status: each event starts where the one before it
\* ended, the first from nothing, and the last one ends at the present status.
Accounts(trail, status) ==
    /\ \A i \in 1 .. Len(trail) :
        /\ trail[i].from = IF i = 1 THEN "none" ELSE trail[i - 1].to
        /\ trail[i].to # trail[i].from
    /\ status = IF trail = <<>> THEN "none" ELSE trail[Len(trail)].to
=============================================================================
