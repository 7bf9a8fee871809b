------------------------- MODULE MCOverviewServing -------------------------
(* OverviewServing on a small instance. *)
EXTENDS OverviewServing

CONSTANTS r1, r2, c1

MCRequests == {r1, r2}
MCChats == {c1}
=============================================================================
