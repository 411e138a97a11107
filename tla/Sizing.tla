-------------------------------- MODULE Sizing --------------------------------
(***************************************************************************)
(* core/sizing.py's PositionSizer, with the limit that StrategyRunner        *)
(* (_max_quantity_by_margin, core/runner.py) derives from the balance.  The  *)
(* code divides Decimals and floors the least of the limits to a multiple of *)
(* quantity_step; that is the least number of whole lots in each of them.    *)
(***************************************************************************)
EXTENDS RiskRules

CONSTANTS
  SizingMethod,   \* "fixed_fractional" or "fixed_quantity"
  FixedQuantity,
  MinQuantity,
  MaxQuantity,    \* NoLimit switches it off
  QuantityStep

NoLimit == -1

ASSUME SizingAssumption ==
  /\ SizingMethod \in {"fixed_fractional", "fixed_quantity"}
  /\ {FixedQuantity, MinQuantity, QuantityStep, ContractSize, AssumedLeverage} \subseteq Nat \ {0}
  /\ MaxQuantity \in Nat \union {NoLimit}
  /\ MaxRiskPerTrade \in Nat \ {0} /\ MaxMarginUsage \in Nat \ {0}

Least(m, n) == IF m <= n THEN m ELSE n

\* What one lot risks between entry and stop, and what it is worth; in percent.
LotRisk(o) == 100 * Distance(o.price, o.stop_loss) * ContractSize * QuantityStep
LotNotional(o) == 100 * o.price * ContractSize * QuantityStep

\* _max_quantity_by_margin
AllowedMargin(o) == Least(o.equity * MaxMarginUsage - 100 * o.used_margin, 100 * o.available)
MarginLots(o) ==
  IF AllowedMargin(o) <= 0 THEN 0
  ELSE (AllowedMargin(o) * AssumedLeverage) \div LotNotional(o)

MethodLots(o) ==
  IF SizingMethod = "fixed_quantity" THEN FixedQuantity \div QuantityStep
  ELSE (o.equity * MaxRiskPerTrade) \div LotRisk(o)

Lots(o) ==
  LET wanted == Least(MethodLots(o), MarginLots(o))
  IN  IF MaxQuantity = NoLimit THEN wanted ELSE Least(wanted, MaxQuantity \div QuantityStep)

\* A fixed fraction of the equity can only be risked up to a stop some way off.
Sizeable(o) ==
  /\ o.equity > 0
  /\ SizingMethod = "fixed_fractional" => o.stop_loss # NoPrice /\ o.stop_loss # o.price

\* calculate: 0 stands for no order.
Sized(o) ==
  IF Sizeable(o) /\ Lots(o) * QuantityStep >= MinQuantity THEN Lots(o) * QuantityStep ELSE 0
=============================================================================
