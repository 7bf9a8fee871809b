-------------------------- MODULE MCOverviewStream --------------------------
(* OverviewStream on a small instance. *)
EXTENDS OverviewStream, TLC

MCGateOn == {TRUE, FALSE}
=============================================================================
