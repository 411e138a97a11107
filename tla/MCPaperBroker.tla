---------------------------- MODULE MCPaperBroker ----------------------------
(* A small instance of PaperBroker for TLC.  The unit of price is 2520, which    *)
(* makes the average entry of up to ten units whole.                                 *)
EXTENDS PaperBroker

CONSTANTS eurusd

U == 2520

MCBalance == 10 * U

Bar(low, high, close) == [low |-> low * U, high |-> high * U, close |-> close * U]

\* A quiet bar around 6, one that reaches down to a stop and up to a target at once, one
\* that falls, one that rises.
MCBars == {Bar(6, 6, 6), Bar(4, 9, 6), Bar(3, 6, 4)}

Request(type, side, quantity, trigger, stop, target, reduce_only) ==
  [type |-> type, side |-> side, quantity |-> quantity,
   trigger |-> IF trigger = NoPrice THEN NoPrice ELSE trigger * U,
   stop |-> IF stop = NoPrice THEN NoPrice ELSE stop * U,
   target |-> IF target = NoPrice THEN NoPrice ELSE target * U, reduce_only |-> reduce_only]

\* Entries with stop and target, a reversal three units large, exits that are too large
\* or in part, and pending orders of both types, one of them reduce-only.
MCRequests ==
  {Request("market", 1, 2, NoPrice, 4, 9, FALSE),
   Request("market", -1, 3, NoPrice, 9, NoPrice, FALSE),
   Request("market", -1, 1, NoPrice, NoPrice, NoPrice, TRUE),
   Request("limit", 1, 1, 5, 3, NoPrice, FALSE),
   Request("limit", 1, 3, 4, NoPrice, NoPrice, FALSE),
   Request("stop", -1, 3, 5, NoPrice, NoPrice, TRUE)}

\* A loose stop, and one that is on the winning side after a bar that falls.
MCStops == {3 * U, 5 * U}
=============================================================================
