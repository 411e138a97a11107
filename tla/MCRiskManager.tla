---------------------------- MODULE MCRiskManager ----------------------------
(* A small instance of RiskManager for TLC. *)
EXTENDS RiskManager, TLC

CONSTANTS eurusd

MCSymbols == {eurusd}
\* Two instants on the first day, one on the second, one in the next week.  A cooldown of
\* 2 that begins with the first is over on the same day; one that begins with the second
\* reaches into the next.
MCTimes == {0, 2, 3, 5}
MCDayOf == 0 :> 0 @@ 2 :> 0 @@ 3 :> 1 @@ 5 :> 2
MCWeekOf == 0 :> 0 @@ 2 :> 0 @@ 3 :> 0 @@ 5 :> 1
Entry ==
  [symbol |-> eurusd, reduce_only |-> FALSE, side |-> "buy", quantity |-> 1, price |-> 20,
   stop_loss |-> 19, equity |-> 100, used_margin |-> 0, available |-> 100,
   open_positions |-> 0, same_symbol |-> 0, spread |-> 0, atr |-> 1, atr_baseline |-> 1]

MCRequests == {Entry, [Entry EXCEPT !.reduce_only = TRUE, !.stop_loss = NoPrice]}
MCPnls == {-3, 3}
MCPnlRange == -6..3

\* Once a write of the file is lost every property is excused for good, so the states
\* after that are not explored further.
WritesKept == durable
=============================================================================
