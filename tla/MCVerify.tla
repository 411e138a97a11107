------------------------------- MODULE MCVerify -------------------------------
(* A small instance of Verify for TLC: nothing held before, or one unit of either side. *)
EXTENDS Verify

Held == {-1, 0, 1}
=============================================================================
