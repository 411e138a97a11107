---------------------------- MODULE MCShadowBroker ----------------------------
(* A small instance of ShadowBroker for TLC: prices 0 to 4, every entry at 2. *)
EXTENDS ShadowBroker

CONSTANTS eurusd

MCBars == {[low |-> 1, high |-> 2], [low |-> 2, high |-> 4]}

\* Entries at 2, with a stop 1 away; a short has the target 1, a long has none.  The
\* strategy later asks for the tighter stop 2 or, for a long, the looser stop 0.
Entries == {<<1, 2>>, <<-1, 2>>}
MCStop == [e \in Entries |-> e[2] - e[1]]
MCTarget == [e \in Entries |-> IF e[1] = 1 THEN NoPrice ELSE 1]
=============================================================================
