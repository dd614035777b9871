---------------------------- MODULE MC_ThreadStart ----------------------------
(***************************************************************************)
(* Instances of ThreadStart.                                                *)
(***************************************************************************)
EXTENDS ThreadStart

CONSTANTS c1, c2, c3

ThreeCalls == {c1, c2, c3}
TwoCalls == {c1, c2}
=============================================================================
