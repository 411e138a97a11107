------------------------------ MODULE MCHistory ------------------------------
(* Two symbols over six base intervals, with holes at different places; files from elsewhere
   that have it all, begin inside an interval, lack a bar, or have one bar. *)
EXTENDS History

CONSTANTS eurusd, usdjpy

MCPrice == [t \in 0..Horizon |-> (t * 3) % 7]

MCListings ==
  {[s \in Symbols |-> IF s = eurusd THEN {0, 1, 4, 5} ELSE b] :
     b \in {{0, 1, 2, 3, 5}, {0, 2, 3, 4}}}

MCExports == {0..Horizon, 1..Horizon, {0, 1, 2, 4, 5}, {2}}
=============================================================================
