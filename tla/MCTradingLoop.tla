---------------------------- MODULE MCTradingLoop ----------------------------
(* Small instances of TradingLoop for TLC. *)
EXTENDS TradingLoop

CONSTANTS eurusd, usdjpy

\* One instant: TradingLoop looks at a single day.
MCTimes == {0}
MCDay == [t \in MCTimes |-> 0]

Pair == <<eurusd, usdjpy>>
Single == <<eurusd>>

\* An entry every other rule of the risk manager accepts: 1% of the equity is worth the
\* distance to the stop of one unit, or of two.
EntryOf(d, equity) ==
  [symbol |-> eurusd, reduce_only |-> FALSE, side |-> IF d = 1 THEN "buy" ELSE "sell",
   quantity |-> 0, price |-> 20, stop_loss |-> 20 - d, equity |-> equity,
   used_margin |-> 0, available |-> equity, open_positions |-> 0, same_symbol |-> 0,
   spread |-> 0, atr |-> 1, atr_baseline |-> 1]

OneUnit == [d \in {1, -1} |-> EntryOf(d, 100)]
TwoUnits == [d \in {1, -1} |-> EntryOf(d, 200)]
BuysAndSells == {1, -1}
Buys == {1}
LossesAndProfits == {-6, 6}
Profits == {6}
=============================================================================
