--------------------------- MODULE MCLoanRequests ---------------------------
(***************************************************************************)
(* LoanRequests on small instances.                                        *)
(***************************************************************************)
EXTENDS LoanRequests, TLC

CONSTANTS u1, u2, l1, l2, k1, t1, t2, w1, w2

MCWorkers == {w1, w2}

Create(k, t) == [op |-> "create", key |-> k, by |-> u1, to |-> u2, terms |-> t]
Decide(op, k, u, l) == [op |-> op, key |-> k, by |-> u, loan |-> l]
Reject(k, l) == [op |-> "reject", key |-> k, by |-> u2, loan |-> l, reason |-> "no"]

\* One key used for the same and for other terms, and for an acceptance.
KeyCalls == {Create(k1, t1), Create(k1, t2), Decide("accept", k1, u2, l1)}

\* ... and for everything else that can be decided on the loan, by either party.
KeyAndDecisionCalls ==
    KeyCalls \cup {Reject(k1, l1), Decide("cancel", k1, u1, l1), Decide("cancel", k1, u2, l1)}

\* Workers are only compared for equality.
MCSymmetry == Permutations(MCWorkers)
=============================================================================
