----------------------------- MODULE MCRealtime -----------------------------
(***************************************************************************)
(* Realtime with one page, of either kind: pages meet only in the access   *)
(* token, which every page can renew, and in the loan, which is decided    *)
(* elsewhere as well.                                                      *)
(***************************************************************************)
EXTENDS Realtime

CONSTANT tab

MCPages == {tab}
=============================================================================
