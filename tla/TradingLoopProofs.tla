--------------------------- MODULE TradingLoopProofs ---------------------------
(***************************************************************************)
(* Invariance proofs for TradingLoop, for any symbols, strategy, sizes,      *)
(* limits and results, and any interleaving with what the broker does on its *)
(* own.                                                                      *)
(***************************************************************************)
EXTENDS TradingLoop, SequenceTheorems, TLAPS

-----------------------------------------------------------------------------
(* What RiskRules and Sizing compute *)

LEMMA RollType ==
  ASSUME NEW s \in RiskStates \union {RiskStateDefault}, NEW t \in Times
  PROVE  Roll(s, t) \in RiskStates
BY ClockAssumption DEF RiskStates, RiskStateDefault, Roll, HaltReasons, NoHalt, NoKey

LEMMA TradeClosedType ==
  ASSUME NEW s \in RiskStates, NEW t \in Times, NEW reference \in Int,
         NEW symbol \in Symbols, NEW pnl \in Int
  PROVE  /\ TradeClosed(s, t, reference, symbol, pnl) \in RiskStates
         /\ TradeClosed(s, t, reference, symbol, pnl).day_key = DayOf[t]
         /\ TradeClosed(s, t, reference, symbol, pnl).week_key = WeekOf[t]
         /\ TradeClosed(s, t, reference, symbol, pnl).daily_trades = Roll(s, t).daily_trades
         /\ TradeClosed(s, t, reference, symbol, pnl).daily_pnl = Roll(s, t).daily_pnl + pnl
         /\ TradeClosed(s, t, reference, symbol, pnl).weekly_pnl = Roll(s, t).weekly_pnl + pnl
         /\ TradeClosed(s, t, reference, symbol, pnl).last_loss_at
              = WithLoss(Roll(s, t).last_loss_at, symbol, t, pnl)
         /\ TradeClosed(s, t, reference, symbol, pnl).halt_reason
              = HaltReasonAfter(Roll(s, t).halt_reason, Roll(s, t).daily_pnl + pnl,
                                Roll(s, t).weekly_pnl + pnl, reference)
<1> DEFINE r == Roll(s, t)
           reason == HaltReasonAfter(r.halt_reason, r.daily_pnl + pnl, r.weekly_pnl + pnl,
                                     reference)
           losses == WithLoss(r.last_loss_at, symbol, t, pnl)
<1>1. r \in RiskStates /\ r.day_key = DayOf[t] /\ r.week_key = WeekOf[t]
  <2>1. r \in RiskStates
    BY RollType
  <2>2. QED
    BY <2>1 DEF Roll
<1>2. TradeClosed(s, t, reference, symbol, pnl)
        = [day_key |-> r.day_key, week_key |-> r.week_key,
           daily_pnl |-> r.daily_pnl + pnl, weekly_pnl |-> r.weekly_pnl + pnl,
           daily_trades |-> r.daily_trades, halt_reason |-> reason, last_loss_at |-> losses]
  BY DEF TradeClosed
<1> HIDE DEF r
<1>3. reason \in HaltReasons
  BY <1>1 DEF RiskStates, HaltReasonAfter, HaltReasons
<1>4. losses \in [Symbols -> Times \union {Never}]
  BY <1>1 DEF RiskStates, WithLoss
<1> DEFINE c == TradeClosed(s, t, reference, symbol, pnl)
<1> HIDE DEF reason, losses, c
<1>5. /\ c \in RiskStates
      /\ c.day_key = DayOf[t] /\ c.week_key = WeekOf[t]
      /\ c.daily_trades = r.daily_trades
      /\ c.daily_pnl = r.daily_pnl + pnl /\ c.weekly_pnl = r.weekly_pnl + pnl
      /\ c.last_loss_at = losses /\ c.halt_reason = reason
  BY <1>1, <1>2, <1>3, <1>4 DEF RiskStates, c
<1>6. QED
  BY <1>5 DEF r, reason, losses, c

LEMMA OrderSubmittedType ==
  ASSUME NEW s \in RiskStates, NEW t \in Times
  PROVE  OrderSubmitted(s, t) \in RiskStates
BY RollType DEF OrderSubmitted, RiskStates

\* An order of which the sizer is asked: the balance may be anything the broker says,
\* a price is positive.
Priced(o) ==
  /\ o.price \in Nat \ {0} /\ o.stop_loss \in Nat \union {NoPrice}
  /\ {o.equity, o.used_margin, o.available} \subseteq Int

\* Floor division: as many whole b as fit in a.
LEMMA WholeParts ==
  ASSUME NEW a \in Int, NEW b \in Nat \ {0}
  PROVE  a \div b \in Int /\ (a \div b) * b <= a
OBVIOUS

\* A smaller number of equal parts is not larger.
LEMMA FewerParts ==
  ASSUME NEW m \in Int, NEW n \in Int, NEW b \in Nat, m <= n
  PROVE  m * b <= n * b
OBVIOUS

LEMMA PositiveProduct ==
  ASSUME NEW m \in Nat \ {0}, NEW n \in Nat \ {0}
  PROVE  m * n \in Nat \ {0}
OBVIOUS

\* A margin a below its limit leaves room for what is used already.
LEMMA RoomBesidesUsed ==
  ASSUME NEW e \in Int, NEW m \in Int, NEW u \in Int, NEW l \in Int, NEW a \in Int, NEW n \in Int,
         100 * n <= a * l, a * l <= (e * m - 100 * u) * l
  PROVE  100 * (u * l + n) <= m * e * l
<1>1. (e * m - 100 * u) * l = m * e * l - 100 * (u * l)
  OBVIOUS
<1>2. /\ a * l \in Int /\ u * l \in Int /\ m * e * l \in Int
  OBVIOUS
<1>3. 100 * (u * l + n) = 100 * (u * l) + 100 * n
  BY <1>2
<1>4. QED
  BY <1>1, <1>2, <1>3

LEMMA RoomAvailable ==
  ASSUME NEW v \in Int, NEW l \in Int, NEW a \in Int, NEW n \in Int,
         100 * n <= a * l, a * l <= (100 * v) * l
  PROVE  n <= v * l
<1>1. (100 * v) * l = 100 * (v * l) /\ v * l \in Int /\ a * l \in Int
  OBVIOUS
<1>2. QED
  BY <1>1

\* The order that is sized is no more than each of its limits.
LEMMA LotsWithinLimits ==
  ASSUME NEW o, Priced(o), MethodLots(o) \in Int, MarginLots(o) \in Int
  PROVE  /\ Lots(o) \in Int
         /\ Lots(o) <= MethodLots(o) /\ Lots(o) <= MarginLots(o)
BY SizingAssumption DEF Lots, Least, NoLimit

LEMMA MarginLotsFit ==
  ASSUME NEW o, Priced(o)
  PROVE  /\ MarginLots(o) \in Int /\ LotNotional(o) \in Nat \ {0} /\ AllowedMargin(o) \in Int
         /\ MarginLots(o) > 0 =>
              MarginLots(o) * LotNotional(o) <= AllowedMargin(o) * AssumedLeverage
<1>1. LotNotional(o) \in Nat \ {0}
  <2>1. 100 * o.price \in Nat \ {0} /\ {ContractSize, QuantityStep} \subseteq Nat \ {0}
    BY SizingAssumption DEF Priced
  <2>2. (100 * o.price) * ContractSize \in Nat \ {0}
    BY <2>1, PositiveProduct
  <2>3. QED
    BY <2>1, <2>2, PositiveProduct DEF LotNotional
<1>2. AllowedMargin(o) \in Int
  BY SizingAssumption DEF AllowedMargin, Least, Priced
<1>3. AllowedMargin(o) * AssumedLeverage \in Int
  BY <1>2, SizingAssumption
<1>4. QED
  BY <1>1, <1>2, <1>3, WholeParts DEF MarginLots

LEMMA MethodLotsFit ==
  ASSUME NEW o, Priced(o), Sizeable(o)
  PROVE  /\ MethodLots(o) \in Int
         /\ SizingMethod = "fixed_fractional" =>
              /\ LotRisk(o) \in Nat \ {0}
              /\ MethodLots(o) * LotRisk(o) <= o.equity * MaxRiskPerTrade
<1>1. CASE SizingMethod = "fixed_quantity"
  <2>1. FixedQuantity \in Int /\ QuantityStep \in Nat \ {0}
    BY SizingAssumption
  <2>2. QED
    BY <1>1, <2>1, WholeParts DEF MethodLots
<1>2. CASE SizingMethod = "fixed_fractional"
  <2>1. Distance(o.price, o.stop_loss) \in Nat \ {0}
    BY <1>2 DEF Distance, Sizeable, Priced, NoPrice
  <2>2. {ContractSize, QuantityStep} \subseteq Nat \ {0}
    BY SizingAssumption
  <2>3. 100 * Distance(o.price, o.stop_loss) \in Nat \ {0}
    BY <2>1, PositiveProduct
  <2>4. LotRisk(o) \in Nat \ {0}
    BY <2>2, <2>3, PositiveProduct DEF LotRisk
  <2>5. o.equity * MaxRiskPerTrade \in Int
    BY SizingAssumption DEF Priced
  <2>6. QED
    BY <1>2, <2>4, <2>5, WholeParts DEF MethodLots
<1>3. QED
  BY <1>1, <1>2, SizingAssumption

\* An order of the size the runner computes needs no more margin than max_margin_usage
\* and the balance leave (runner.py:459: or every order would be refused), whatever the
\* method.
THEOREM SizedWithinMargin ==
  ASSUME NEW o, Priced(o), o.quantity = Sized(o), Sized(o) > 0
  PROVE  MarginRulesHold(o)
<1> DEFINE N == LotNotional(o)
           A == AllowedMargin(o)
           notional == o.price * o.quantity * ContractSize
<1>1. /\ Lots(o) \in Int /\ N \in Nat \ {0} /\ A \in Int
      /\ Lots(o) <= MarginLots(o) /\ MarginLots(o) \in Int
  <2>1. MethodLots(o) \in Int
    BY MethodLotsFit DEF Sized
  <2>2. QED
    BY <2>1, LotsWithinLimits, MarginLotsFit
<1>2. o.quantity = Lots(o) * QuantityStep /\ QuantityStep \in Nat \ {0} /\ Lots(o) > 0
  <2>1. o.quantity = Lots(o) * QuantityStep /\ o.quantity > 0
    BY DEF Sized
  <2>2. QED
    BY <2>1, <1>1, SizingAssumption
<1>3. Lots(o) * N <= A * AssumedLeverage
  <2>1. MarginLots(o) * N <= A * AssumedLeverage
    BY <1>1, <1>2, MarginLotsFit
  <2>2. Lots(o) * N <= MarginLots(o) * N
    BY <1>1, FewerParts
  <2>3. QED
    BY <2>1, <2>2, <1>1, SizingAssumption
<1>4. 100 * notional = Lots(o) * N /\ notional \in Int
  BY <1>1, <1>2, SizingAssumption DEF LotNotional, Priced
<1>5. /\ A <= o.equity * MaxMarginUsage - 100 * o.used_margin
      /\ A <= 100 * o.available
  BY SizingAssumption DEF AllowedMargin, Least, Priced
<1> HIDE DEF N, A, notional
<1>6. A * AssumedLeverage <= (o.equity * MaxMarginUsage - 100 * o.used_margin) * AssumedLeverage
  <2>1. /\ o.equity * MaxMarginUsage - 100 * o.used_margin \in Int
        /\ AssumedLeverage \in Nat
    BY SizingAssumption DEF Priced
  <2>2. QED
    BY <1>1, <1>5, <2>1, FewerParts
<1>7. A * AssumedLeverage <= (100 * o.available) * AssumedLeverage
  <2>1. 100 * o.available \in Int /\ AssumedLeverage \in Nat
    BY SizingAssumption DEF Priced
  <2>2. QED
    BY <1>1, <1>5, <2>1, FewerParts
<1>8. 100 * (o.used_margin * AssumedLeverage + notional)
        <= MaxMarginUsage * o.equity * AssumedLeverage
  <2>1. 100 * notional <= A * AssumedLeverage
    BY <1>3, <1>4
  <2>2. {o.equity, o.used_margin, MaxMarginUsage, AssumedLeverage} \subseteq Int
    BY SizingAssumption DEF Priced
  <2>3. QED
    BY <1>1, <1>4, <1>6, <2>1, <2>2, RoomBesidesUsed
<1>9. notional <= o.available * AssumedLeverage
  <2>1. 100 * notional <= A * AssumedLeverage
    BY <1>3, <1>4
  <2>2. o.available \in Int /\ AssumedLeverage \in Int
    BY SizingAssumption DEF Priced
  <2>3. QED
    BY <1>1, <1>4, <1>7, <2>1, <2>2, RoomAvailable
<1>10. QED
  BY <1>8, <1>9 DEF MarginRulesHold, notional

\* An order sized as a fixed fraction, with its stop on the side where it loses, risks
\* no more than max_risk_per_trade: rounding down to whole lots never exceeds the budget
\* (sizing.py:7-8), so that RiskManager does not refuse it for its stop.
THEOREM SizedWithinRisk ==
  ASSUME NEW o, Priced(o), o.quantity = Sized(o), Sized(o) > 0,
         SizingMethod = "fixed_fractional",
         o.side = "buy" => o.stop_loss < o.price,
         o.side = "sell" => o.stop_loss > o.price
  PROVE  StopRulesHold(o)
<1> DEFINE R == LotRisk(o)
           D == Distance(o.price, o.stop_loss)
<1>1. /\ Sizeable(o) /\ o.stop_loss # NoPrice
      /\ o.quantity = Lots(o) * QuantityStep
  BY DEF Sized, Sizeable
<1>2. /\ MethodLots(o) \in Int /\ R \in Nat
      /\ MethodLots(o) * R <= o.equity * MaxRiskPerTrade
  BY <1>1, MethodLotsFit
<1>3. Lots(o) \in Int /\ Lots(o) <= MethodLots(o)
  BY <1>2, LotsWithinLimits, MarginLotsFit
<1>4. Lots(o) * R <= o.equity * MaxRiskPerTrade
  <2>1. Lots(o) * R <= MethodLots(o) * R
    BY <1>2, <1>3, FewerParts
  <2>2. o.equity * MaxRiskPerTrade \in Int
    BY SizingAssumption DEF Priced
  <2>3. QED
    BY <1>2, <1>3, <2>1, <2>2
<1>5. 100 * D * o.quantity * ContractSize = Lots(o) * R
  <2>1. D \in Int /\ {ContractSize, QuantityStep} \subseteq Int
    BY <1>1, SizingAssumption DEF Distance, Priced
  <2>2. QED
    BY <1>1, <1>3, <2>1 DEF LotRisk
<1>6. QED
  BY <1>1, <1>4, <1>5 DEF StopRulesHold

-----------------------------------------------------------------------------
(* The inductive invariants, beside TypeOK *)

Stepping == pc \in {"symbol", "signal", "entry", "close", "recheck", "exit"}

\* An order is one of the first symbol still to do: an entry where the snapshot was
\* flat, an exit where it was not, and no larger than what was last seen of the position.
Prepared ==
  order # None =>
    /\ todo # <<>> /\ order.symbol = Head(todo)
    /\ IF pc = "entry" THEN MaxPositionsPerSymbol = 1 => snapshot[order.symbol] = 0
                       ELSE snapshot[order.symbol] # 0
    /\ pc \in {"recheck", "exit"} =>
         /\ SameSide(order.live, -order.units)
         /\ Units(order.units) <= Units(order.live)

\* Only this step opens positions, and of each symbol once: where the snapshot is flat
\* and the symbol is still to do, the symbol still is flat.
ToDo == IF pc = "infer" THEN Symbols ELSE IF Stepping THEN ToSet(todo) ELSE {}

StillFlat == IsInjective(todo) /\ \A s \in ToDo : snapshot[s] = 0 => position[s] = 0

\* Without reports: what is booked, what is about to be, and what is missing of the
\* remembered positions was all closed, each unit once, but for what vanished.
InferredOnce ==
  /\ pc # "book" /\ (pc # "infer" => closures = Flat)
  /\ \A s \in Symbols :
       booked[s] + closures[s] + ClosedBetween(previous[s], position[s])
         <= ClosedUnits(s) + vanished[s]

\* With reports: the units among the first k trades.
UnitsOf(s, k) ==
  FoldLeft(LAMBDA sum, trade : sum + (IF trade.symbol = s THEN trade.quantity ELSE 0), 0,
           SubSeq(history, 1, k))

\* The first process has booked exactly the trades it has seen.
ReportedOnce ==
  /\ pc # "infer"
  /\ starts = 0 => ~Running /\ booked = Flat
  /\ ~Running => seen = 0
  /\ \A s \in Symbols :
       /\ Running => booked[s] = UnitsOf(s, seen)
       /\ booked[s] <= ClosedUnits(s)
       /\ \A k \in 0..Len(history) : UnitsOf(s, k) <= ClosedUnits(s)

\* The risk manager knows what the trades it was told of add up to, and once they have
\* added up to the limit it stays halted; outside the booking it was told of all that
\* was fetched.
LossesKnown ==
  /\ risk.day_key = DayOf[Now] /\ risk.week_key = WeekOf[Now] /\ saved.day_key = DayOf[Now]
  /\ saved.week_key = WeekOf[Now]
  /\ starts = 0 => ~Running /\ risk.daily_pnl = 0
  /\ ~Running => seen = 0
  /\ seen <= fetched /\ (pc # "book" => seen = fetched)
  /\ pc = "infer" => ~ReportsClosedTrades
  /\ IF ReportsClosedTrades
     THEN Running => /\ risk.daily_pnl = ReportedPnl(seen)
                     /\ \A k \in 1..seen :
                          Reached(ReportedPnl(k), MaxDailyLoss, ReferenceEquity) => Halted(risk)
     ELSE fetched = 0

-----------------------------------------------------------------------------
(* Type correctness *)

Trades == [symbol : Symbols, quantity : Nat \ {0}, pnl : Int]

\* An order that is sized is of whole units.
LEMMA SizedType ==
  ASSUME NEW d \in Directions
  PROVE  /\ Sized(Terms[d]) \in Nat /\ d \in {1, -1}
         /\ Request(d).quantity = Sized(Terms[d])
         /\ Request(d).same_symbol = (IF snapshot[Current] = 0 THEN 0 ELSE 1)
         /\ Request(d).reduce_only = FALSE
<1>1. Terms[d] \in EntryRequests /\ d \in {1, -1}
  BY LoopAssumption
<1>2. Priced(Terms[d])
  BY <1>1 DEF EntryRequests, Priced
<1>3. Sized(Terms[d]) \in Nat
  <2>1. CASE Sizeable(Terms[d]) /\ Lots(Terms[d]) * QuantityStep >= MinQuantity
    <3>1. MethodLots(Terms[d]) \in Int
      BY <1>2, <2>1, MethodLotsFit
    <3>2. MarginLots(Terms[d]) \in Int
      BY <1>2, MarginLotsFit
    <3>3. Lots(Terms[d]) \in Int
      BY <1>2, <3>1, <3>2, LotsWithinLimits
    <3>4. Lots(Terms[d]) * QuantityStep \in Int
      BY <3>3, SizingAssumption
    <3> QED
      BY <2>1, <3>4, SizingAssumption DEF Sized
  <2>2. CASE ~(Sizeable(Terms[d]) /\ Lots(Terms[d]) * QuantityStep >= MinQuantity)
    BY <2>2 DEF Sized
  <2> QED
    BY <2>1, <2>2
<1>4. /\ Request(d).quantity = Sized(Terms[d])
      /\ Request(d).same_symbol = (IF snapshot[Current] = 0 THEN 0 ELSE 1)
      /\ Request(d).reduce_only = FALSE
  BY <1>1 DEF Request, EntryRequests
<1> QED
  BY <1>1, <1>3, <1>4

\* A fill changes the one position, and appends at most one trade.
LEMMA FilledType ==
  ASSUME TypeOK, NEW s \in Symbols, NEW n \in Int, n # 0, NEW pnl \in Int, Filled(s, n, pnl)
  PROVE  /\ position' \in [Symbols -> Int] /\ history' \in Seq(Trades)
         /\ position'[s] = position[s] + n
         /\ \A r \in Symbols : r # s => position'[r] = position[r]
         /\ IF SameSide(position[s], -n)
            THEN history' = Append(history, [symbol |-> s, pnl |-> pnl,
                                             quantity |-> Least(Units(position[s]), Units(n))])
            ELSE history' = history
<1>1. position[s] \in Int /\ position' = [position EXCEPT ![s] = position[s] + n]
  BY DEF Filled, TypeOK
<1>2. CASE SameSide(position[s], -n)
  <2>1. Least(Units(position[s]), Units(n)) \in Nat \ {0}
    BY <1>1, <1>2 DEF SameSide, Least, Units
  <2>2. history' = Append(history, [symbol |-> s, pnl |-> pnl,
                                    quantity |-> Least(Units(position[s]), Units(n))])
    BY <1>2, <2>1 DEF Filled
  <2> QED
    BY <1>1, <1>2, <2>1, <2>2 DEF TypeOK, Trades
<1>3. CASE ~SameSide(position[s], -n)
  BY <1>1, <1>3 DEF Filled, TypeOK, Trades
<1> QED
  BY <1>2, <1>3

LEMMA OrderType ==
  ASSUME NEW s \in Symbols, NEW n \in Int \ {0}, NEW reduce_only \in BOOLEAN,
         NEW forced \in BOOLEAN, NEW live \in Int
  PROVE  [symbol |-> s, units |-> n, reduce_only |-> reduce_only, forced |-> forced,
          live |-> live] \in Orders
BY DEF Orders

LEMMA LoopTypeInit == Init => TypeOK
<1> SUFFICES ASSUME Init PROVE TypeOK
  OBVIOUS
<1>1. risk \in RiskStates /\ saved = risk
  BY RollType, LoopAssumption DEF Init
<1>2. /\ <<>> \in Seq(Trades) /\ Len(<<>>) = 0 /\ <<>> \in Seq(Symbols)
      /\ Flat \in [Symbols -> Int] /\ Flat \in [Symbols -> Nat] /\ 0 \in 0..0 /\ 0 \in 0..MaxStarts
  BY LoopAssumption DEF Flat
<1> QED
  BY <1>1, <1>2 DEF Init, TypeOK, Trades

LEMMA RecordedType ==
  ASSUME TypeOK, NEW s \in Symbols, NEW quantity \in Nat, NEW pnl \in Int,
         RecordTradeClosed(s, quantity, pnl)
  PROVE  /\ risk' \in RiskStates /\ saved' \in RiskStates /\ booked' \in [Symbols -> Nat]
         /\ booked'[s] = booked[s] + quantity
         /\ \A r \in Symbols : r # s => booked'[r] = booked[r]
         /\ vanished' = vanished
<1>1. risk' \in RiskStates
  BY TradeClosedType, LoopAssumption DEF RecordTradeClosed, TypeOK
<1> QED
  BY <1>1 DEF RecordTradeClosed, TypeOK

\* Of a remembered position, what is not missing is still held.
LEMMA StillHeldUnits ==
  ASSUME NEW s \in Symbols, previous[s] \in Int, position[s] \in Int
  PROVE  /\ StillHeld(s) \in Nat
         /\ ClosedBetween(previous[s], 0) = ClosedBetween(previous[s], position[s]) + StillHeld(s)
BY DEF StillHeld, ClosedBetween, SameSide, Units

LEMMA LoopTypeNext == TypeOK /\ Prepared /\ [Next]_vars => TypeOK'
<1> SUFFICES ASSUME TypeOK, Prepared, [Next]_vars PROVE TypeOK'
  OBVIOUS
<1> USE DEF vars, broker, trades, books
<1>1. /\ Len(history) \in Nat /\ fetched \in 0..Len(history) /\ seen \in 0..Len(history)
      /\ todo \in Seq(Symbols)
      /\ todo # <<>> => Tail(todo) \in Seq(Symbols) /\ Head(todo) \in Symbols
      /\ Flat \in [Symbols -> Int] /\ Flat \in [Symbols -> Nat] /\ <<>> \in Seq(Symbols)
  BY DEF TypeOK, Flat
<1>2. Pnls \subseteq Int /\ None \notin Orders /\ SymbolOrder \in Seq(Symbols) /\ MaxStarts \in Nat
  BY LoopAssumption
<1>3. order # None => order \in Orders /\ todo # <<>>
  BY DEF TypeOK, Prepared
<1>4. ASSUME Ended, UNCHANGED broker, risk' \in RiskStates, saved' \in RiskStates,
             UNCHANGED <<booked, vanished, starts>>
      PROVE  TypeOK'
  <2>1. UNCHANGED <<position, history, starts, booked, vanished>>
    BY <1>4
  <2>2. 0 \in 0..Len(history)
    BY <1>1
  <2>3. fetched' \in 0..Len(history)' /\ seen' \in 0..Len(history)'
    BY <1>4, <2>1, <2>2 DEF Ended
  <2> QED
    BY <1>1, <1>4, <2>1, <2>3 DEF Ended, TypeOK
<1>5. ASSUME NEW s \in Symbols, NEW n \in Int, n # 0, NEW pnl \in Int, Filled(s, n, pnl)
      PROVE  /\ position' \in [Symbols -> Int] /\ history' \in Seq(Trades)
             /\ fetched \in 0..Len(history') /\ seen \in 0..Len(history')
  <2>1. position' \in [Symbols -> Int] /\ history' \in Seq(Trades)
    BY <1>5, FilledType
  <2>2. Len(history') = Len(history) \/ Len(history') = Len(history) + 1
    BY <1>5 DEF Filled, TypeOK
  <2> QED
    BY <1>1, <2>1, <2>2
<1>6. ASSUME NEW s \in Symbols, NEW quantity \in Nat, NEW pnl \in Int,
             RecordTradeClosed(s, quantity, pnl)
      PROVE  /\ risk' \in RiskStates /\ saved' \in RiskStates /\ booked' \in [Symbols -> Nat]
             /\ vanished' = vanished
  BY <1>6, RecordedType
<1>7. CASE Poll \/ StopAtBoundary \/ Start
  <2>1. CASE Poll \/ StopAtBoundary
    BY <2>1 DEF Poll, StopAtBoundary, TypeOK
  <2>2. CASE Start
    BY <1>2, <2>2 DEF Start, TypeOK
  <2> QED
    BY <1>7, <2>1, <2>2
<1>8. CASE Shutdown
  BY <1>8, <1>4 DEF Shutdown, TypeOK
<1>9. CASE Crash
  BY <1>9, <1>4 DEF Crash, TypeOK
<1>10. CASE FetchClosedTrades
  BY <1>1, <1>10 DEF FetchClosedTrades, TypeOK
<1>11. CASE NoClosedTrades \/ TradesBooked \/ SnapshotFails \/ StepEnds
  BY <1>11 DEF NoClosedTrades, TradesBooked, SnapshotFails, StepEnds, TypeOK
<1>12. CASE BookTrade
  <2>1. seen + 1 \in 1..Len(history)
    BY <1>1, <1>12 DEF BookTrade
  <2>2. history[seen + 1] \in Trades
    BY <2>1, ElementOfSeq DEF TypeOK, Trades
  <2>3. /\ risk' \in RiskStates /\ saved' \in RiskStates /\ booked' \in [Symbols -> Nat]
        /\ vanished' = vanished
    BY <1>6, <1>12, <2>2 DEF BookTrade, Trades
  <2> QED
    BY <1>12, <2>1, <2>3 DEF BookTrade, TypeOK
<1>13. ASSUME NEW positions \in [Symbols -> Int], Snapshotted(positions),
              vanished' \in [Symbols -> Nat]
       PROVE  TypeOK'
  <2>1. [s \in Symbols |-> ClosedBetween(previous[s], positions[s])] \in [Symbols -> Nat]
    BY DEF ClosedBetween, SameSide, Units, TypeOK
  <2> QED
    BY <1>2, <1>13, <2>1 DEF Snapshotted, TypeOK
<1>14. CASE TakeSnapshot \/ EmptySnapshot
  <2>1. position \in [Symbols -> Int] /\ vanished \in [Symbols -> Nat]
    BY DEF TypeOK
  <2>2. \A s \in Symbols : vanished[s] + StillHeld(s) \in Nat
    BY StillHeldUnits, <2>1 DEF TypeOK
  <2>3. vanished' \in [Symbols -> Nat]
    BY <1>14, <2>1, <2>2 DEF TakeSnapshot, EmptySnapshot
  <2> QED
    BY <1>1, <1>13, <1>14, <2>1, <2>3 DEF TakeSnapshot, EmptySnapshot
<1>15. ASSUME NEW s \in Symbols, NEW pnl \in Pnls, InferClosedTrade(s, pnl) PROVE TypeOK'
  <2>1. closures[s] \in Nat /\ pnl \in Int
    BY <1>2 DEF TypeOK
  <2>2. /\ risk' \in RiskStates /\ saved' \in RiskStates /\ booked' \in [Symbols -> Nat]
        /\ vanished' = vanished
    BY <1>6, <1>15, <2>1 DEF InferClosedTrade
  <2> QED
    BY <1>15, <2>2 DEF InferClosedTrade, TypeOK
<1>16. ASSUME NEW s \in Symbols, InferFails(s) PROVE TypeOK'
  BY <1>16 DEF InferFails, TypeOK
<1>17. CASE Inferred
  BY <1>2, <1>17 DEF Inferred, TypeOK
<1>18. CASE NothingToDo
  BY <1>1, <1>18 DEF NothingToDo, Deciding, SymbolDone, TypeOK
<1>19. ASSUME NEW forced \in BOOLEAN, todo # <<>>, Exiting(forced) PROVE TypeOK'
  <2>1. snapshot[Current] \in Int /\ Current \in Symbols
    BY <1>1, <1>19 DEF Current, TypeOK
  <2>2. order' \in Orders /\ order' # None
    <3>1. -snapshot[Current] \in Int \ {0} /\ 0 \in Int
      BY <1>19, <2>1 DEF Exiting
    <3>2. order' = [symbol |-> Current, units |-> -snapshot[Current],
                    reduce_only |-> TRUE, forced |-> forced, live |-> 0]
      BY <1>19 DEF Exiting
    <3> QED
      BY <1>2, <2>1, <3>1, <3>2, OrderType
  <2> QED
    BY <1>19, <2>2 DEF Exiting, TypeOK
<1>20. CASE ForceExit \/ SignalExit
  BY <1>19, <1>20 DEF ForceExit, SignalExit, Deciding
<1>21. ASSUME NEW d \in Directions, SignalEntry(d) PROVE TypeOK'
  <2>1. CASE Sized(Terms[d]) > 0 /\ Approves(risk, Now, Request(d))
    <3>1. d * Request(d).quantity \in Int \ {0}
      <4>1. Request(d).quantity \in Nat \ {0} /\ d \in {1, -1}
        <5>1. Request(d).quantity = Sized(Terms[d]) /\ Sized(Terms[d]) \in Nat /\ d \in {1, -1}
          BY SizedType
        <5> QED
          BY <2>1, <5>1
      <4> QED
        BY <4>1
    <3>2. Current \in Symbols
      BY <1>1, <1>21 DEF SignalEntry, Deciding, Current
    <3>3. order' = [symbol |-> Current, units |-> d * Request(d).quantity,
                    reduce_only |-> FALSE, forced |-> FALSE, live |-> 0]
      BY <1>21, <2>1 DEF SignalEntry
    <3>4. order' \in Orders /\ order' # None
      <4>1. 0 \in Int
        OBVIOUS
      <4> QED
        BY <1>2, <3>1, <3>2, <3>3, <4>1, OrderType
    <3> QED
      BY <1>21, <2>1, <3>4 DEF SignalEntry, TypeOK
  <2>2. CASE ~(Sized(Terms[d]) > 0 /\ Approves(risk, Now, Request(d)))
    BY <1>1, <1>21, <2>2 DEF SignalEntry, Deciding, SymbolDone, TypeOK
  <2> QED
    BY <2>1, <2>2
<1>22. ASSUME NEW pnl \in Pnls, EntryPlaced(pnl) \/ EntryAnswerLost(pnl) PROVE TypeOK'
  <2>1. order # None /\ order.symbol \in Symbols /\ order.units \in Int \ {0} /\ pnl \in Int
    BY <1>2, <1>3, <1>22 DEF EntryPlaced, EntryAnswerLost, Orders, TypeOK
  <2>2. risk' \in RiskStates
    BY <1>22, OrderSubmittedType, LoopAssumption DEF EntryPlaced, EntryAnswerLost, TypeOK
  <2>3. /\ position' \in [Symbols -> Int] /\ history' \in Seq(Trades)
        /\ fetched \in 0..Len(history') /\ seen \in 0..Len(history')
    BY <1>5, <1>22, <2>1 DEF EntryPlaced, EntryAnswerLost
  <2> QED
    BY <1>1, <1>3, <1>22, <2>1, <2>2, <2>3
       DEF EntryPlaced, EntryAnswerLost, SymbolDone, TypeOK, Trades
<1>23. CASE EntryRefused
  BY <1>1, <1>3, <1>23 DEF EntryRefused, SymbolDone, TypeOK
<1>24. CASE CloseFinds
  <2>1. order \in Orders /\ order.symbol \in Symbols /\ position[order.symbol] \in Int
    BY <1>3, <1>24 DEF CloseFinds, Orders, TypeOK
  <2>2. Sign(order.units) * Least(Units(order.units), Units(position[order.symbol])) \in Int \ {0}
    BY <1>24, <2>1 DEF CloseFinds, SameSide, Sign, Least, Units, Orders
  <2>3. order' \in Orders /\ order' # None
    BY <1>2, <1>24, <2>1, <2>2 DEF CloseFinds, Orders
  <2> QED
    BY <1>24, <2>3 DEF CloseFinds, TypeOK
<1>25. CASE ExitSent
  BY <1>25 DEF ExitSent, TypeOK
<1>26. ASSUME order # None, UNCHANGED <<broker, trades, snapshot, books, starts>>, NotSent
       PROVE  TypeOK'
  BY <1>1, <1>3, <1>26 DEF NotSent, TypeOK
<1>27. CASE CloseGivesUp \/ ExitNotSent \/ ExitRefused
  <2>1. order # None
    BY <1>27 DEF CloseGivesUp, ExitNotSent, ExitRefused, TypeOK
  <2> QED
    BY <1>26, <1>27, <2>1 DEF CloseGivesUp, ExitNotSent, ExitRefused
<1>28. ASSUME NEW pnl \in Pnls, ExitFilled(pnl) PROVE TypeOK'
  <2>1. order # None /\ order.symbol \in Symbols /\ order.units \in Int \ {0} /\ pnl \in Int
    BY <1>2, <1>3, <1>28 DEF ExitFilled, Orders, TypeOK
  <2>2. Reducing(order.symbol, order.units) \in Int \ {0}
    <3>1. position[order.symbol] \in Int
      BY <2>1 DEF TypeOK
    <3> QED
      BY <1>28, <2>1, <3>1 DEF ExitFilled, Reducing, Sign, Least, Units
  <2>3. /\ position' \in [Symbols -> Int] /\ history' \in Seq(Trades)
        /\ fetched \in 0..Len(history') /\ seen \in 0..Len(history')
    BY <1>5, <1>28, <2>1, <2>2 DEF ExitFilled
  <2> QED
    BY <1>1, <1>3, <1>28, <2>1, <2>3 DEF ExitFilled, SymbolDone, NotSent, TypeOK, Trades
<1>29. ASSUME NEW s \in Symbols, NEW pnl \in Pnls, NEW quantity \in 1..Units(position[s]),
              ClosedOutside(s, quantity, pnl)
       PROVE  TypeOK'
  <2>1. position[s] \in Int /\ pnl \in Int
    BY <1>2 DEF TypeOK
  <2>2. -Sign(position[s]) * quantity \in Int \ {0}
    BY <2>1 DEF Sign, Units
  <2>3. /\ position' \in [Symbols -> Int] /\ history' \in Seq(Trades)
        /\ fetched \in 0..Len(history') /\ seen \in 0..Len(history')
    BY <1>5, <1>29, <2>1, <2>2 DEF ClosedOutside
  <2> QED
    BY <1>29, <2>3 DEF ClosedOutside, TypeOK, Trades
<1>30. CASE UNCHANGED vars
  BY <1>30 DEF TypeOK
<1> QED
  BY <1>7, <1>8, <1>9, <1>10, <1>11, <1>12, <1>14, <1>15, <1>16, <1>17, <1>18, <1>20, <1>21, <1>22,
     <1>23, <1>24, <1>25, <1>27, <1>28, <1>29, <1>30 DEF Next, Runner, Step

-----------------------------------------------------------------------------
(* Exits *)

LEMMA PreparedNext == TypeOK /\ Prepared /\ [Next]_vars => Prepared'
<1> SUFFICES ASSUME TypeOK, Prepared, [Next]_vars PROVE Prepared'
  OBVIOUS
<1> USE DEF vars, broker, trades, books
<1>1. ASSUME order' = None PROVE Prepared'
  BY <1>1 DEF Prepared
<1>2. ASSUME UNCHANGED <<pc, snapshot, todo, order>> PROVE Prepared'
  BY <1>2 DEF Prepared
<1>3. pc \notin {"entry", "close", "recheck", "exit"} => order = None
  BY DEF TypeOK
<1>4. CASE Poll \/ StopAtBoundary \/ Start \/ Shutdown \/ Crash
  BY <1>1, <1>3, <1>4 DEF Poll, StopAtBoundary, Start, Shutdown, Crash, Ended
<1>5. CASE FetchClosedTrades \/ NoClosedTrades \/ BookTrade \/ TradesBooked
  BY <1>1, <1>3, <1>5 DEF FetchClosedTrades, NoClosedTrades, BookTrade, TradesBooked
<1>6. CASE TakeSnapshot \/ EmptySnapshot \/ SnapshotFails \/ Inferred \/ StepEnds
  BY <1>1, <1>3, <1>6 DEF TakeSnapshot, EmptySnapshot, Snapshotted, SnapshotFails, Inferred, StepEnds
<1>7. ASSUME NEW s \in Symbols, NEW pnl, InferClosedTrade(s, pnl) \/ InferFails(s)
      PROVE  Prepared'
  BY <1>1, <1>3, <1>7 DEF InferClosedTrade, InferFails
<1>8. ASSUME NotSent \/ SymbolDone PROVE Prepared'
  BY <1>1, <1>8 DEF NotSent, SymbolDone
<1>9. CASE NothingToDo \/ EntryRefused \/ CloseGivesUp \/ ExitNotSent \/ ExitRefused
  BY <1>8, <1>9 DEF NothingToDo, EntryRefused, CloseGivesUp, ExitNotSent, ExitRefused
<1>10. ASSUME NEW pnl \in Pnls, EntryPlaced(pnl) \/ EntryAnswerLost(pnl) \/ ExitFilled(pnl)
       PROVE  Prepared'
  BY <1>8, <1>10 DEF EntryPlaced, EntryAnswerLost, ExitFilled
<1>11. ASSUME NEW forced \in BOOLEAN, todo # <<>>, Exiting(forced) PROVE Prepared'
  BY <1>11 DEF Exiting, Prepared, Current
<1>12. CASE ForceExit \/ SignalExit
  BY <1>11, <1>12 DEF ForceExit, SignalExit, Deciding
<1>13. ASSUME NEW d \in Directions, SignalEntry(d) PROVE Prepared'
  <2>1. CASE Sized(Terms[d]) > 0 /\ Approves(risk, Now, Request(d))
    <3>1. MaxPositionsPerSymbol = 1 => snapshot[Current] = 0
      <4>1. Request(d).same_symbol < MaxPositionsPerSymbol
        BY <2>1, SizedType DEF Approves, PositionRulesHold
      <4>2. Request(d).same_symbol = (IF snapshot[Current] = 0 THEN 0 ELSE 1)
        BY SizedType
      <4> QED
        BY <4>1, <4>2
    <3> QED
      BY <1>13, <2>1, <3>1 DEF SignalEntry, Deciding, Prepared, Current
  <2>2. CASE ~(Sized(Terms[d]) > 0 /\ Approves(risk, Now, Request(d)))
    BY <1>8, <1>13, <2>2 DEF SignalEntry
  <2> QED
    BY <2>1, <2>2
<1>14. CASE CloseFinds
  <2>1. /\ order # None /\ order \in Orders /\ position[order.symbol] \in Int
        /\ order.units \in Int \ {0}
    BY <1>14 DEF CloseFinds, TypeOK, Orders
  <2>2. /\ order'.live = position[order.symbol] /\ order'.symbol = order.symbol
        /\ order'.units
             = Sign(order.units) * Least(Units(order.units), Units(position[order.symbol]))
    BY <1>14, <2>1 DEF CloseFinds, Orders
  <2>3. SameSide(order'.live, -order'.units) /\ Units(order'.units) <= Units(order'.live)
    BY <1>14, <2>1, <2>2 DEF CloseFinds, SameSide, Sign, Least, Units
  <2> QED
    BY <1>14, <2>1, <2>2, <2>3 DEF CloseFinds, Prepared
<1>15. CASE ExitSent
  BY <1>15 DEF ExitSent, Prepared, TypeOK
<1>16. ASSUME NEW s \in Symbols, NEW pnl \in Pnls, NEW quantity \in 1..Units(position[s]),
              ClosedOutside(s, quantity, pnl)
       PROVE  Prepared'
  BY <1>2, <1>16 DEF ClosedOutside
<1>17. CASE UNCHANGED vars
  BY <1>2, <1>17
<1> QED
  BY <1>4, <1>5, <1>6, <1>7, <1>9, <1>10, <1>12, <1>13, <1>14, <1>15, <1>16, <1>17
     DEF Next, Runner, Step

LEMMA PreparedAlways == Spec => [](TypeOK /\ Prepared)
<1>1. Init => TypeOK /\ Prepared
  BY LoopTypeInit DEF Init, Prepared
<1>2. TypeOK /\ Prepared /\ [Next]_vars => (TypeOK /\ Prepared)'
  BY LoopTypeNext, PreparedNext
<1> QED
  BY <1>1, <1>2, PTL DEF Spec

\* The state of the loop keeps its type, whatever the broker does in between.
THEOREM LoopTypeCorrect == Spec => []TypeOK
BY PreparedAlways, PTL

\* An exit of a position that is as close_position found it leaves it smaller or closed:
\* for every quantity the runner remembers, and where reduce-only is ignored.
THEOREM ExitsReduce == Spec => ExitsOnlyReduce
<1> DEFINE A == /\ position' # position /\ pc = "exit" /\ pc' # "exit"
                /\ position[order.symbol] = order.live
                => LET left == position'[order.symbol]
                   IN  left = 0 \/ SameSide(left, order.live)
<1>1. TypeOK /\ Prepared /\ [Next]_vars => A
  <2> SUFFICES ASSUME TypeOK, Prepared, [Next]_vars, position' # position, pc = "exit",
                      pc' # "exit", position[order.symbol] = order.live
               PROVE  position'[order.symbol] = 0 \/ SameSide(position'[order.symbol], order.live)
    OBVIOUS
  <2>1. PICK pnl \in Pnls : ExitFilled(pnl)
    BY DEF Next, Runner, Step, Poll, StopAtBoundary, Start, Shutdown, Crash, Ended,
           FetchClosedTrades, NoClosedTrades, BookTrade, TradesBooked, TakeSnapshot,
           EmptySnapshot, Snapshotted, SnapshotFails, Inferred, StepEnds, InferClosedTrade,
           InferFails, NothingToDo, EntryRefused, CloseGivesUp, ExitNotSent, ExitRefused,
           EntryPlaced, EntryAnswerLost, ForceExit, SignalExit, Exiting, SignalEntry, Deciding,
           CloseFinds, ExitSent, ClosedOutside, vars, broker
  <2>2. /\ order # None /\ order.symbol \in Symbols /\ order.units \in Int \ {0}
        /\ order.live \in Int /\ pnl \in Int
    BY LoopAssumption DEF TypeOK, Orders
  <2>3. SameSide(order.live, -order.units) /\ Units(order.units) <= Units(order.live)
    BY <2>2 DEF Prepared
  <2>4. Reducing(order.symbol, order.units) = order.units
    BY <2>2, <2>3 DEF Reducing, Sign, Least, Units, SameSide
  <2>5. position'[order.symbol] = order.live + order.units
    BY ZenonT(60), <2>1, <2>2, <2>4, FilledType DEF ExitFilled
  <2> QED
    BY <2>2, <2>3, <2>5 DEF SameSide, Units
<1>2. TypeOK /\ Prepared /\ [Next]_vars => [A]_vars
  BY <1>1
<1> QED
  BY <1>2, PreparedAlways, PTL DEF ExitsOnlyReduce, Spec

-----------------------------------------------------------------------------
(* Entries *)

\* Of a list without repetitions, the rest does not hold the first.
LEMMA RestIsDistinct ==
  ASSUME NEW seq \in Seq(Symbols), seq # <<>>, IsInjective(seq)
  PROVE  IsInjective(Tail(seq)) /\ ToSet(Tail(seq)) \subseteq ToSet(seq) \ {Head(seq)}
<1>1. /\ Len(seq) \in Nat \ {0} /\ DOMAIN seq = 1..Len(seq) /\ Head(seq) = seq[1]
      /\ DOMAIN Tail(seq) = 1..(Len(seq) - 1)
      /\ \A i \in 1..(Len(seq) - 1) : Tail(seq)[i] = seq[i + 1]
  BY HeadTailProperties, EmptySeq, LenProperties
<1>2. \A i \in 1..(Len(seq) - 1) : i + 1 \in 1..Len(seq) /\ i + 1 # 1
  BY <1>1
<1>3. IsInjective(Tail(seq))
  BY <1>1, <1>2 DEF IsInjective
<1>4. ASSUME NEW s \in ToSet(Tail(seq)) PROVE s \in ToSet(seq) /\ s # Head(seq)
  <2>1. PICK i \in 1..(Len(seq) - 1) : s = Tail(seq)[i]
    BY <1>1, <1>4 DEF ToSet
  <2>2. s = seq[i + 1] /\ 1 \in 1..Len(seq)
    BY <1>1, <2>1
  <2> QED
    BY <1>1, <1>2, <2>2 DEF ToSet, IsInjective
<1> QED
  BY <1>3, <1>4

\* A symbol that is done is taken off the list; the others are as they were.
LEMMA StillFlatRest ==
  ASSUME TypeOK, StillFlat, todo # <<>>, Stepping, pc' # "infer", UNCHANGED snapshot,
         todo' = Tail(todo) \/ (todo' = todo /\ snapshot[Head(todo)] # 0),
         \A s \in Symbols : s # Head(todo) => position'[s] = position[s]
  PROVE  StillFlat'
<1>1. /\ IsInjective(Tail(todo)) /\ ToSet(Tail(todo)) \subseteq ToSet(todo) \ {Head(todo)}
  BY RestIsDistinct DEF StillFlat, TypeOK
<1>2. ToSet(todo) \subseteq Symbols
  <2>1. \A i \in 1..Len(todo) : todo[i] \in Symbols
    BY ElementOfSeq DEF TypeOK
  <2>2. DOMAIN todo = 1..Len(todo)
    BY DEF TypeOK
  <2> QED
    BY <2>1, <2>2 DEF ToSet
<1>3. ToDo = ToSet(todo) /\ ToDo' \subseteq ToSet(todo') 
  BY DEF ToDo, Stepping
<1>4. IsInjective(todo')
  BY <1>1 DEF StillFlat
<1>5. ASSUME NEW s \in ToSet(todo'), snapshot[s] = 0 PROVE position'[s] = 0
  <2>1. s \in ToSet(todo) /\ s # Head(todo)
    BY <1>1, <1>5
  <2> QED
    BY <1>2, <1>3, <1>5, <2>1 DEF StillFlat
<1> QED
  BY <1>3, <1>4, <1>5 DEF StillFlat

LEMMA StillFlatNext ==
  ASSUME ~PositionErrorsAreEmpty
  PROVE  TypeOK /\ Prepared /\ StillFlat /\ [Next]_vars => StillFlat'
<1> SUFFICES ASSUME TypeOK, Prepared, StillFlat, [Next]_vars PROVE StillFlat'
  OBVIOUS
<1> USE DEF vars, broker, trades, books
<1>1. ASSUME UNCHANGED <<position, snapshot, todo>>, ToDo' \subseteq ToDo PROVE StillFlat'
  BY <1>1 DEF StillFlat
<1>2. ASSUME todo' = <<>>, pc' # "infer" PROVE StillFlat'
  BY <1>2 DEF StillFlat, ToDo, IsInjective, ToSet
<1>3. order # None => /\ todo # <<>> /\ order.symbol = Head(todo) /\ order.symbol \in Symbols
                      /\ order.units \in Int \ {0} /\ (pc # "entry" => snapshot[Head(todo)] # 0)
  BY DEF Prepared, TypeOK, Orders
<1>4. CASE Poll \/ StopAtBoundary \/ Start \/ FetchClosedTrades \/ NoClosedTrades \/ BookTrade
           \/ TradesBooked \/ SnapshotFails \/ StepEnds
  BY <1>1, <1>4 DEF Poll, StopAtBoundary, Start, FetchClosedTrades, NoClosedTrades, BookTrade,
                    TradesBooked, SnapshotFails, StepEnds, ToDo, Stepping
<1>5. CASE Shutdown \/ Crash
  BY <1>2, <1>5 DEF Shutdown, Crash, Ended
<1>6. IsInjective(SymbolOrder) /\ ToSet(SymbolOrder) = Symbols
  BY LoopAssumption
<1>7. CASE TakeSnapshot \/ EmptySnapshot
  <2>1. TakeSnapshot
    BY <1>7 DEF EmptySnapshot
  <2> QED
    BY <1>6, <2>1 DEF TakeSnapshot, Snapshotted, StillFlat, ToDo, Stepping
<1>8. ASSUME NEW s \in Symbols, NEW pnl, InferClosedTrade(s, pnl) \/ InferFails(s)
      PROVE  StillFlat'
  BY <1>1, <1>8 DEF InferClosedTrade, InferFails, ToDo, Stepping
<1>9. CASE Inferred
  BY <1>6, <1>9 DEF Inferred, StillFlat, ToDo, Stepping
<1>10. ASSUME UNCHANGED <<position, snapshot>>, Stepping, todo # <<>>,
              SymbolDone \/ (NotSent /\ snapshot[Head(todo)] # 0)
       PROVE  StillFlat'
  <2>1. /\ pc' # "infer"
        /\ todo' = Tail(todo) \/ (todo' = todo /\ snapshot[Head(todo)] # 0)
    BY <1>10 DEF SymbolDone, NotSent
  <2> QED
    BY <1>10, <2>1, StillFlatRest
<1>11. CASE NothingToDo
  BY <1>10, <1>11 DEF NothingToDo, Deciding, Stepping
<1>12. CASE EntryRefused \/ CloseGivesUp \/ ExitNotSent \/ ExitRefused
  <2>1. order # None /\ Stepping
    BY <1>12 DEF EntryRefused, CloseGivesUp, ExitNotSent, ExitRefused, TypeOK, Stepping
  <2> QED
    BY <1>3, <1>10, <1>12, <2>1 DEF EntryRefused, CloseGivesUp, ExitNotSent, ExitRefused
<1>13. CASE ForceExit \/ SignalExit
  BY <1>1, <1>13 DEF ForceExit, SignalExit, Exiting, Deciding, ToDo, Stepping
<1>14. ASSUME NEW d \in Directions, SignalEntry(d) PROVE StillFlat'
  <2>1. CASE SymbolDone
    BY <1>10, <1>14, <2>1 DEF SignalEntry, Deciding, Stepping
  <2>2. CASE pc' = "entry" /\ UNCHANGED todo
    BY <1>1, <1>14, <2>2 DEF SignalEntry, Deciding, ToDo, Stepping
  <2> QED
    BY <1>14, <2>1, <2>2 DEF SignalEntry
<1>15. CASE CloseFinds \/ ExitSent
  BY <1>1, <1>15 DEF CloseFinds, ExitSent, ToDo, Stepping
<1>16. ASSUME NEW pnl \in Pnls, EntryPlaced(pnl) \/ EntryAnswerLost(pnl) \/ ExitFilled(pnl)
       PROVE  StillFlat'
  <2>1. order # None /\ Stepping /\ pnl \in Int /\ order.symbol \in Symbols
    BY <1>3, <1>16, LoopAssumption
       DEF EntryPlaced, EntryAnswerLost, ExitFilled, TypeOK, Stepping
  <2>2. PICK n \in Int : n # 0 /\ Filled(order.symbol, n, pnl)
    <3>1. position[order.symbol] \in Int
      BY <2>1 DEF TypeOK
    <3>2. Reducing(order.symbol, order.units) \in Int
      BY <1>3, <2>1, <3>1 DEF Reducing, Sign, Least, Units
    <3> QED
      BY <1>3, <1>16, <2>1, <3>2 DEF EntryPlaced, EntryAnswerLost, ExitFilled
  <2>3. \A s \in Symbols : s # Head(todo) => position'[s] = position[s]
    BY <1>3, <2>1, <2>2, FilledType
  <2>4. /\ UNCHANGED snapshot /\ pc' # "infer"
        /\ todo' = Tail(todo) \/ (todo' = todo /\ snapshot[Head(todo)] # 0)
    BY <1>3, <1>16, <2>1 DEF EntryPlaced, EntryAnswerLost, ExitFilled, SymbolDone, NotSent
  <2> QED
    BY <1>3, <2>1, <2>3, <2>4, StillFlatRest
<1>17. ASSUME NEW s \in Symbols, NEW pnl \in Pnls, NEW quantity \in 1..Units(position[s]),
              ClosedOutside(s, quantity, pnl)
       PROVE  StillFlat'
  <2>1. position[s] # 0 /\ position' = [position EXCEPT ![s] = position'[s]]
    BY <1>17 DEF ClosedOutside, Filled, Units, TypeOK
  <2>2. \A r \in Symbols : position[r] = 0 => position'[r] = 0
    BY <2>1 DEF TypeOK
  <2>3. ToDo' = ToDo /\ ToDo \subseteq Symbols
    <3>1. \A i \in 1..Len(todo) : todo[i] \in Symbols
      BY ElementOfSeq DEF TypeOK
    <3>2. DOMAIN todo = 1..Len(todo)
      BY DEF TypeOK
    <3> QED
      BY <1>17, <3>1, <3>2 DEF ClosedOutside, ToDo, Stepping, ToSet
  <2> QED
    BY <1>17, <2>2, <2>3 DEF StillFlat, ClosedOutside
<1>18. CASE UNCHANGED vars
  BY <1>1, <1>18 DEF ToDo, Stepping
<1> QED
  BY <1>4, <1>5, <1>7, <1>8, <1>9, <1>11, <1>12, <1>13, <1>14, <1>15, <1>16, <1>17, <1>18
     DEF Next, Runner, Step

\* With one position allowed per symbol and a broker that does not take a failing call
\* for "no positions", an entry is filled where nothing is held, however old its
\* snapshot is.
THEOREM EntriesOpen ==
  ASSUME ~PositionErrorsAreEmpty, MaxPositionsPerSymbol = 1
  PROVE  Spec => EntriesOpenFlatSymbols
<1>1. Init => StillFlat
  BY DEF Init, StillFlat, ToDo, Stepping, IsInjective
<1>2. TypeOK /\ Prepared /\ StillFlat /\ [Next]_vars => StillFlat'
  BY StillFlatNext
<1>3. Prepared /\ StillFlat /\ TypeOK =>
        [position' # position /\ pc = "entry" /\ pc' # "entry" => position[order.symbol] = 0]_vars
  <2> SUFFICES ASSUME TypeOK, Prepared, StillFlat, pc = "entry"
               PROVE  position[order.symbol] = 0
    OBVIOUS
  <2>1. todo # <<>> /\ order.symbol = Head(todo) /\ snapshot[order.symbol] = 0
    BY DEF Prepared, TypeOK
  <2>2. Head(todo) \in ToSet(todo)
    BY <2>1, HeadTailProperties, EmptySeq DEF TypeOK, ToSet
  <2> QED
    BY <2>1, <2>2 DEF StillFlat, ToDo, Stepping
<1> QED
  BY <1>1, <1>2, <1>3, PreparedAlways, PTL DEF EntriesOpenFlatSymbols, Spec

-----------------------------------------------------------------------------
(* Sums over the closed trades *)

AddUnits(s, sum, trade) == sum + (IF trade.symbol = s THEN trade.quantity ELSE 0)
AddPnl(p, sum, trade) == sum + trade.pnl

UnitSum == INSTANCE FoldProofs WITH Step <- AddUnits
PnlSum == INSTANCE FoldProofs WITH Step <- AddPnl

\* The sums of the module are those the general lemmas are about.
LEMMA SumsAreFolds ==
  /\ \A s : ClosedUnits(s) = UnitSum!Folded(s, 0, history)
  /\ \A s : ClosedUnits(s)' = UnitSum!Folded(s, 0, history')
  /\ \A s, k : UnitsOf(s, k) = UnitSum!Folded(s, 0, SubSeq(history, 1, k))
  /\ \A s, k : UnitsOf(s, k)' = UnitSum!Folded(s, 0, SubSeq(history', 1, k))
  /\ \A k : ReportedPnl(k) = PnlSum!Folded(0, 0, SubSeq(history, 1, k))
  /\ \A k : ReportedPnl(k)' = PnlSum!Folded(0, 0, SubSeq(history', 1, k))
BY DEF ClosedUnits, UnitsOf, ReportedPnl, AddUnits, AddPnl, FoldLeft, MapThenFoldSet, Max,
       UnitSum!Folded, UnitSum!FoldLeft, UnitSum!MapThenFoldSet, UnitSum!Max,
       PnlSum!Folded, PnlSum!FoldLeft, PnlSum!MapThenFoldSet, PnlSum!Max

LEMMA SumsSeen ==
  /\ \A s : UnitsOf(s, seen)' = UnitSum!Folded(s, 0, SubSeq(history', 1, seen'))
  /\ ReportedPnl(seen)' = PnlSum!Folded(0, 0, SubSeq(history', 1, seen'))
BY DEF UnitsOf, ReportedPnl, AddUnits, AddPnl, FoldLeft, MapThenFoldSet, Max,
       UnitSum!Folded, UnitSum!FoldLeft, UnitSum!MapThenFoldSet, UnitSum!Max,
       PnlSum!Folded, PnlSum!FoldLeft, PnlSum!MapThenFoldSet, PnlSum!Max

LEMMA SumOfUnits ==
  ASSUME NEW seq \in Seq(Trades), NEW s \in Symbols
  PROVE  UnitSum!Folded(s, 0, seq) \in Int
<1>1. Len(seq) \in Nat /\ DOMAIN seq = 1..Len(seq) /\ \A k \in 1..Len(seq) : seq[k] \in Trades
  BY ElementOfSeq
<1>2. \A k \in 1..Len(seq) : \A value \in Int : AddUnits(s, value, seq[k]) \in Int
  BY <1>1 DEF AddUnits, Trades
<1>3. 0 \in Int
  OBVIOUS
<1> QED
  BY <1>1, <1>2, <1>3, UnitSum!FoldKeeps

LEMMA SumOfPnl ==
  ASSUME NEW seq \in Seq(Trades)
  PROVE  PnlSum!Folded(0, 0, seq) \in Int
<1>1. Len(seq) \in Nat /\ DOMAIN seq = 1..Len(seq) /\ \A k \in 1..Len(seq) : seq[k] \in Trades
  BY ElementOfSeq
<1>2. \A k \in 1..Len(seq) : \A value \in Int : AddPnl(0, value, seq[k]) \in Int
  BY <1>1 DEF AddPnl, Trades
<1>3. 0 \in Int
  OBVIOUS
<1> QED
  BY <1>1, <1>2, <1>3, PnlSum!FoldKeeps

\* Prefixes of the history: every one has a sum, ...
LEMMA PrefixSums ==
  ASSUME history \in Seq(Trades), NEW s \in Symbols
  PROVE  /\ ClosedUnits(s) \in Int
         /\ \A k \in 0..Len(history) : UnitsOf(s, k) \in Int /\ ReportedPnl(k) \in Int
<1>1. ClosedUnits(s) \in Int
  BY SumOfUnits, SumsAreFolds
<1>2. ASSUME NEW k \in 0..Len(history)
      PROVE  UnitsOf(s, k) \in Int /\ ReportedPnl(k) \in Int
  <2>1. \A i \in 1..k : history[i] \in Trades
    BY ElementOfSeq
  <2>2. SubSeq(history, 1, k) \in Seq(Trades)
    BY <2>1, SubSeqProperties
  <2> QED
    BY <2>2, SumOfUnits, SumOfPnl, SumsAreFolds
<1> QED
  BY <1>1, <1>2

\* ... the empty one adds up to nothing, the longest is the history, ...
LEMMA PrefixEnds ==
  ASSUME history \in Seq(Trades)
  PROVE  /\ \A s : UnitsOf(s, 0) = 0
         /\ ReportedPnl(0) = 0
         /\ \A s : UnitsOf(s, Len(history)) = ClosedUnits(s)
<1>1. SubSeq(history, 1, 0) = <<>> /\ SubSeq(history, 1, Len(history)) = history
  BY SubSeqEmpty, SubSeqFull
<1> QED
  BY <1>1, UnitSum!FoldOfEmpty, PnlSum!FoldOfEmpty, SumsAreFolds

\* ... and each is the one before and a trade.
LEMMA PrefixGrows ==
  ASSUME history \in Seq(Trades), NEW k \in 0..(Len(history) - 1)
  PROVE  /\ \A s : UnitsOf(s, k + 1) = AddUnits(s, UnitsOf(s, k), history[k + 1])
         /\ ReportedPnl(k + 1) = ReportedPnl(k) + history[k + 1].pnl
<1>1. \A s : UnitsOf(s, k + 1) = AddUnits(s, UnitsOf(s, k), history[k + 1])
  BY UnitSum!FoldOfPrefix, SumsAreFolds
<1>2. ReportedPnl(k + 1) = AddPnl(0, ReportedPnl(k), history[k + 1])
  BY PnlSum!FoldOfPrefix, SumsAreFolds
<1> QED
  BY <1>1, <1>2 DEF AddPnl

\* One more trade leaves the prefixes alone.
LEMMA OneMoreTrade ==
  ASSUME history \in Seq(Trades), NEW t \in Trades, history' = Append(history, t)
  PROVE  /\ \A s : ClosedUnits(s)' = AddUnits(s, ClosedUnits(s), t)
         /\ \A s : \A k \in 0..Len(history) : UnitsOf(s, k)' = UnitsOf(s, k)
         /\ \A k \in 0..Len(history) : ReportedPnl(k)' = ReportedPnl(k)
         /\ Len(history') = Len(history) + 1
         /\ \A s : UnitsOf(s, Len(history))' = ClosedUnits(s)'
<1>1. \A s : ClosedUnits(s)' = AddUnits(s, ClosedUnits(s), t)
  BY UnitSum!FoldOfAppend, SumsAreFolds
<1>2. \A k \in 0..Len(history) : SubSeq(history', 1, k) = SubSeq(history, 1, k)
  BY UnitSum!PrefixOfAppend
<1>3. /\ \A s : \A k \in 0..Len(history) : UnitsOf(s, k)' = UnitsOf(s, k)
      /\ \A k \in 0..Len(history) : ReportedPnl(k)' = ReportedPnl(k)
  BY <1>2, SumsAreFolds
<1>4. history' \in Seq(Trades) /\ Len(history') = Len(history) + 1
  BY AppendProperties
<1>5. \A s : UnitsOf(s, Len(history))' = ClosedUnits(s)'
  <2>1. SubSeq(history', 1, Len(history')) = history'
    BY <1>4, SubSeqFull
  <2>2. \A s : UnitsOf(s, Len(history))' = UnitSum!Folded(s, 0, SubSeq(history', 1, Len(history')))
    BY SumsAreFolds DEF UnitsOf
  <2> QED
    BY <2>1, <2>2, SumsAreFolds
<1> QED
  BY <1>1, <1>3, <1>4, <1>5

-----------------------------------------------------------------------------
(* Booking *)

\* What is missing of a remembered position grows by no more than a fill closes.
LEMMA MissingAfterFill ==
  ASSUME NEW remembered \in Int, NEW held \in Int, NEW n \in Int
  PROVE  /\ SameSide(held, -n) =>
              ClosedBetween(remembered, held + n)
                <= ClosedBetween(remembered, held) + Least(Units(held), Units(n))
         /\ ~SameSide(held, -n) =>
              ClosedBetween(remembered, held + n) <= ClosedBetween(remembered, held)
         /\ ClosedBetween(remembered, held) \in Nat /\ ClosedBetween(held, held) = 0
         /\ ClosedBetween(0, held) = 0
BY DEF ClosedBetween, SameSide, Least, Units

\* What a fill takes from a position was closed by it.
LEMMA ClosedByFill ==
  ASSUME TypeOK, NEW s \in Symbols, NEW n \in Int, n # 0, NEW pnl \in Int, Filled(s, n, pnl),
         NEW r \in Symbols
  PROVE  /\ ClosedUnits(r) \in Int /\ ClosedUnits(r)' \in Int
         /\ ClosedUnits(r) <= ClosedUnits(r)'
         /\ ClosedBetween(previous[r], position'[r]) + ClosedUnits(r)
              <= ClosedBetween(previous[r], position[r]) + ClosedUnits(r)'
<1> DEFINE before == ClosedBetween(previous[r], position[r])
           after == ClosedBetween(previous[r], position'[r])
<1>1. /\ position' \in [Symbols -> Int] /\ history' \in Seq(Trades) /\ history \in Seq(Trades)
      /\ position'[s] = position[s] + n /\ position[s] \in Int /\ previous[r] \in Int
      /\ position[r] \in Int /\ (r # s => position'[r] = position[r])
  BY FilledType DEF TypeOK, Trades
<1>2. ClosedUnits(r) \in Int
  BY <1>1, SumsAreFolds, SumOfUnits
<1>3. before \in Nat /\ after \in Nat
  BY <1>1, MissingAfterFill
<1>4. r # s => after = before
  BY <1>1
<1> HIDE DEF before, after
<1>5. CASE SameSide(position[s], -n)
  <2> DEFINE closed == Least(Units(position[s]), Units(n))
             t == [symbol |-> s, quantity |-> closed, pnl |-> pnl]
  <2>1. closed \in Nat \ {0} /\ history' = Append(history, t)
    BY SMTT(60), <1>1, <1>5, FilledType DEF SameSide, Least, Units
  <2>2. t \in Trades /\ t.symbol = s /\ t.quantity = closed
    BY <2>1 DEF Trades
  <2>3. r = s => after <= before + closed
    BY <1>1, <1>5, MissingAfterFill DEF before, after
  <2> HIDE DEF t, closed
  <2>4. ClosedUnits(r)' = ClosedUnits(r) + (IF r = s THEN closed ELSE 0)
    <3>1. ClosedUnits(r)' = AddUnits(r, ClosedUnits(r), t)
      BY <1>1, <2>1, <2>2, OneMoreTrade
    <3> QED
      BY <2>2, <3>1 DEF AddUnits
  <2> QED
    BY <1>2, <1>3, <1>4, <2>1, <2>3, <2>4 DEF before, after
<1>6. CASE ~SameSide(position[s], -n)
  <2>1. history' = history
    BY <1>1, <1>6, FilledType
  <2>2. ClosedUnits(r)' = ClosedUnits(r)
    BY <2>1, SumsAreFolds
  <2>3. r = s => after <= before
    BY <1>1, <1>6, MissingAfterFill DEF before, after
  <2> QED
    BY <1>2, <1>3, <1>4, <2>2, <2>3 DEF before, after
<1> QED
  BY <1>5, <1>6

\* What changes the broker is a fill, and a fill changes little else.
Fill ==
  /\ \E s \in Symbols, n \in Int \ {0}, pnl \in Int : Filled(s, n, pnl)
  /\ UNCHANGED <<trades, snapshot, saved, booked, vanished, starts>>
  /\ risk' = risk \/ risk' = OrderSubmitted(risk, Now)
  /\ pc' = pc \/ (pc \in {"entry", "exit"} /\ pc' \in {"symbol", "signal"})

LEMMA BrokerSteps ==
  ASSUME TypeOK, Prepared, [Next]_vars
  PROVE  Fill \/ UNCHANGED broker
<1> USE DEF vars, broker, trades, books
<1>1. CASE \E pnl \in Pnls : EntryPlaced(pnl) \/ EntryAnswerLost(pnl) \/ ExitFilled(pnl)
  <2>1. PICK pnl \in Pnls : EntryPlaced(pnl) \/ EntryAnswerLost(pnl) \/ ExitFilled(pnl)
    BY <1>1
  <2>2. /\ order.symbol \in Symbols /\ order.units \in Int \ {0} /\ pnl \in Int
        /\ pc \in {"entry", "exit"}
    BY <2>1, LoopAssumption DEF EntryPlaced, EntryAnswerLost, ExitFilled, TypeOK, Orders
  <2>3. \E n \in Int \ {0} : Filled(order.symbol, n, pnl)
    <3>1. CASE pc = "entry"
      BY <2>1, <2>2, <3>1 DEF EntryPlaced, EntryAnswerLost, ExitFilled
    <3>2. CASE pc = "exit"
      <4>1. position[order.symbol] \in Int
        BY <2>2 DEF TypeOK
      <4>2. Reducing(order.symbol, order.units) \in Int \ {0}
        BY <2>1, <2>2, <3>2, <4>1
           DEF EntryPlaced, EntryAnswerLost, ExitFilled, Reducing, Sign, Least, Units
      <4> QED
        BY <2>1, <3>2, <4>2 DEF EntryPlaced, EntryAnswerLost, ExitFilled
    <3> QED
      BY <2>2, <3>1, <3>2
  <2>4. /\ UNCHANGED <<trades, snapshot, saved, booked, vanished, starts>>
        /\ risk' = risk \/ risk' = OrderSubmitted(risk, Now)
        /\ pc' \in {"symbol", "signal"}
    BY <2>1 DEF EntryPlaced, EntryAnswerLost, ExitFilled, SymbolDone, NotSent
  <2> QED
    BY <2>2, <2>3, <2>4 DEF Fill
<1>2. ASSUME NEW s \in Symbols, NEW pnl \in Pnls, NEW quantity \in 1..Units(position[s]),
             ClosedOutside(s, quantity, pnl)
      PROVE  Fill
  <2>1. position[s] \in Int /\ pnl \in Int
    BY LoopAssumption DEF TypeOK
  <2>2. -Sign(position[s]) * quantity \in Int \ {0}
    BY <2>1 DEF Sign, Units
  <2>3. Filled(s, -Sign(position[s]) * quantity, pnl)
    BY <1>2 DEF ClosedOutside
  <2> QED
    BY <1>2, <2>1, <2>2, <2>3 DEF ClosedOutside, Fill
<1>3. CASE Poll \/ StopAtBoundary \/ Start \/ Shutdown \/ Crash \/ FetchClosedTrades
           \/ NoClosedTrades \/ BookTrade \/ TradesBooked
  BY <1>3 DEF Poll, StopAtBoundary, Start, Shutdown, Crash, FetchClosedTrades, NoClosedTrades,
              BookTrade, TradesBooked
<1>4. CASE TakeSnapshot \/ EmptySnapshot \/ SnapshotFails \/ Inferred \/ StepEnds \/ NothingToDo
           \/ EntryRefused \/ CloseGivesUp \/ ExitNotSent \/ ExitRefused \/ ForceExit
           \/ SignalExit \/ CloseFinds \/ ExitSent
  BY <1>4 DEF TakeSnapshot, EmptySnapshot, Snapshotted, SnapshotFails, Inferred, StepEnds,
              NothingToDo, EntryRefused, CloseGivesUp, ExitNotSent, ExitRefused, ForceExit,
              SignalExit, Exiting, CloseFinds, ExitSent
<1>5. ASSUME NEW s, NEW pnl, InferClosedTrade(s, pnl) \/ InferFails(s) PROVE UNCHANGED broker
  BY <1>5 DEF InferClosedTrade, InferFails
<1>6. ASSUME NEW d, SignalEntry(d) PROVE UNCHANGED broker
  BY <1>6 DEF SignalEntry
<1>7. CASE UNCHANGED vars
  BY <1>7
<1> QED
  BY <1>1, <1>2, <1>3, <1>4, <1>5, <1>6, <1>7 DEF Next, Runner, Step

\* A broker that has not moved has closed nothing.
LEMMA SameHistory ==
  ASSUME UNCHANGED broker
  PROVE  \A s : /\ ClosedUnits(s)' = ClosedUnits(s)
                /\ \A k : UnitsOf(s, k)' = UnitsOf(s, k) /\ ReportedPnl(k)' = ReportedPnl(k)
BY SumsAreFolds DEF broker

LEMMA InferredNext ==
  ASSUME ~ReportsClosedTrades
  PROVE  TypeOK /\ Prepared /\ InferredOnce /\ [Next]_vars => InferredOnce'
<1> SUFFICES ASSUME TypeOK, Prepared, InferredOnce, [Next]_vars PROVE InferredOnce'
  OBVIOUS
<1> USE DEF vars, broker, trades, books
<1> DEFINE Missing(s) == ClosedBetween(previous[s], position[s])
           Kept(s) == booked[s] + closures[s] + Missing(s) <= ClosedUnits(s) + vanished[s]
<1>1. \A s \in Symbols : /\ position[s] \in Int /\ previous[s] \in Int
                         /\ booked[s] \in Nat /\ closures[s] \in Nat /\ vanished[s] \in Nat
  BY DEF TypeOK
<1>2. \A s \in Symbols : ClosedUnits(s) \in Int /\ Missing(s) \in Nat
  BY <1>1, PrefixSums, MissingAfterFill DEF TypeOK, Trades
<1>3. CASE Fill
  <2>1. PICK s \in Symbols, n \in Int \ {0}, pnl \in Int : Filled(s, n, pnl)
    BY <1>3 DEF Fill
  <2>2. \A r \in Symbols : Kept(r)'
    <3> TAKE r \in Symbols
    <3>1. /\ ClosedUnits(r)' \in Int
          /\ Missing(r)' + ClosedUnits(r) <= Missing(r) + ClosedUnits(r)'
      BY <1>3, <2>1, ClosedByFill DEF Fill
    <3>2. position'[r] \in Int
      BY <2>1, FilledType
    <3>3. Missing(r)' \in Nat
      BY <1>1, <1>3, <3>2, MissingAfterFill DEF Fill
    <3>4. /\ Kept(r) /\ booked'[r] = booked[r] /\ closures'[r] = closures[r]
          /\ vanished'[r] = vanished[r]
      BY <1>3 DEF Fill, InferredOnce
    <3> HIDE DEF Missing
    <3> QED
      BY <1>1, <1>2, <3>1, <3>3, <3>4
  <2> QED
    BY <1>3, <2>2 DEF Fill, InferredOnce
<1>4. ASSUME UNCHANGED <<broker, previous, closures, booked, vanished>>, pc' # "book",
             pc' # "infer" => closures = Flat
      PROVE  InferredOnce'
  BY <1>4, SameHistory DEF InferredOnce
<1>5. CASE UNCHANGED broker
  <2>1. \A s \in Symbols : ClosedUnits(s)' = ClosedUnits(s)
    BY <1>5, SameHistory
  <2>2. CASE Poll \/ StopAtBoundary \/ Start \/ NoClosedTrades \/ SnapshotFails \/ Inferred \/ StepEnds
    BY <1>4, <2>2 DEF Poll, StopAtBoundary, Start, NoClosedTrades, SnapshotFails, Inferred,
                      StepEnds, InferredOnce
  <2>3. ~FetchClosedTrades /\ ~BookTrade /\ ~TradesBooked
    BY DEF FetchClosedTrades, BookTrade, TradesBooked, InferredOnce
  <2>4. CASE Shutdown \/ Crash
    <3>1. /\ \A s \in Symbols : /\ previous'[s] = 0 /\ closures'[s] = 0
                                /\ booked'[s] = booked[s] /\ vanished'[s] = vanished[s]
          /\ closures' = Flat' /\ pc' = "down"
      BY <2>4 DEF Shutdown, Crash, Ended, Flat
    <3>2. \A s \in Symbols : Missing(s)' = 0
      BY <1>1, <1>5, <3>1, MissingAfterFill
    <3>3. \A s \in Symbols : Kept(s)
      BY DEF InferredOnce
    <3>4. \A s \in Symbols : Kept(s)'
      <4> HIDE DEF Missing
      <4> QED
        BY <1>1, <1>2, <2>1, <3>1, <3>2, <3>3
    <3> QED
      BY <3>1, <3>4 DEF InferredOnce
  <2>5. CASE TakeSnapshot \/ EmptySnapshot
    <3>1. /\ \A s \in Symbols : closures[s] = 0 /\ booked'[s] = booked[s]
          /\ pc' = "infer"
      BY <2>5 DEF EmptySnapshot, TakeSnapshot, Snapshotted, InferredOnce, Flat
    <3>2. ASSUME NEW s \in Symbols
          PROVE  closures'[s] + Missing(s)' + vanished[s] = Missing(s) + vanished'[s]
      <4>1. CASE TakeSnapshot
        <5>1. previous'[s] = position[s] /\ closures'[s] = Missing(s) /\ vanished'[s] = vanished[s]
          BY <4>1 DEF TakeSnapshot, Snapshotted
        <5>2. Missing(s)' = 0
          BY <1>1, <1>5, <5>1, MissingAfterFill
        <5> HIDE DEF Missing
        <5> QED
          BY <1>1, <1>2, <5>1, <5>2
      <4>2. CASE EmptySnapshot
        <5>1. /\ previous'[s] = 0 /\ closures'[s] = ClosedBetween(previous[s], 0)
              /\ vanished'[s] = vanished[s] + StillHeld(s)
          BY <4>2 DEF EmptySnapshot, Snapshotted, Flat
        <5>2. Missing(s)' = 0
          BY <1>1, <1>5, <5>1, MissingAfterFill
        <5>3. StillHeld(s) \in Nat /\ closures'[s] = Missing(s) + StillHeld(s)
          BY <1>1, <5>1, StillHeldUnits
        <5> HIDE DEF Missing
        <5> QED
          BY <1>1, <1>2, <5>1, <5>2, <5>3
      <4> QED
        BY <2>5, <4>1, <4>2
    <3>3. \A s \in Symbols : closures'[s] \in Nat /\ Missing(s)' \in Int /\ vanished'[s] \in Nat
      <4>1. TypeOK'
        BY LoopTypeNext
      <4>2. \A s \in Symbols : previous'[s] \in Int /\ position'[s] \in Int
        BY <4>1 DEF TypeOK
      <4> QED
        BY <4>1, <4>2, MissingAfterFill DEF TypeOK
    <3>4. \A s \in Symbols : Kept(s)
      BY DEF InferredOnce
    <3>5. \A s \in Symbols : Kept(s)'
      <4> HIDE DEF Missing
      <4> QED
        BY <1>1, <1>2, <2>1, <3>1, <3>2, <3>3, <3>4
    <3> QED
      BY <3>1, <3>5 DEF InferredOnce
  <2>6. ASSUME NEW s \in Symbols, NEW pnl \in Pnls, InferClosedTrade(s, pnl) PROVE InferredOnce'
    <3>1. /\ booked'[s] = booked[s] + closures[s] /\ closures'[s] = 0
          /\ \A r \in Symbols : r # s => booked'[r] = booked[r] /\ closures'[r] = closures[r]
          /\ UNCHANGED <<pc, position, previous, vanished>> /\ pc = "infer"
      BY <2>6 DEF InferClosedTrade, RecordTradeClosed, TypeOK
    <3>2. \A r \in Symbols : Kept(r)
      BY DEF InferredOnce
    <3>3. \A r \in Symbols : Missing(r)' = Missing(r)
      BY <3>1
    <3>4. \A r \in Symbols : Kept(r)'
      <4> HIDE DEF Missing
      <4> QED
        BY <1>1, <1>2, <2>1, <3>1, <3>2, <3>3
    <3> QED
      BY <3>1, <3>4 DEF InferredOnce
  <2>7. ASSUME NEW s \in Symbols, InferFails(s) PROVE InferredOnce'
    <3>1. /\ closures'[s] = 0
          /\ \A r \in Symbols : booked'[r] = booked[r] /\ (r # s => closures'[r] = closures[r])
          /\ UNCHANGED <<pc, position, previous, vanished>> /\ pc = "infer"
      BY <2>7 DEF InferFails, TypeOK
    <3>2. \A r \in Symbols : Kept(r)
      BY DEF InferredOnce
    <3>3. \A r \in Symbols : Missing(r)' = Missing(r)
      BY <3>1
    <3>4. \A r \in Symbols : Kept(r)'
      <4> HIDE DEF Missing
      <4> QED
        BY <1>1, <1>2, <2>1, <3>1, <3>2, <3>3
    <3> QED
      BY <3>1, <3>4 DEF InferredOnce
  <2>8. CASE NothingToDo \/ ForceExit \/ SignalExit \/ EntryRefused
    BY <1>4, <2>8 DEF NothingToDo, ForceExit, SignalExit, EntryRefused, Deciding, Exiting,
                      SymbolDone, InferredOnce
  <2>9. CASE CloseFinds \/ CloseGivesUp \/ ExitSent \/ ExitNotSent \/ ExitRefused
    BY <1>4, <2>9 DEF CloseFinds, CloseGivesUp, ExitSent, ExitNotSent, ExitRefused, NotSent,
                      InferredOnce
  <2>10. ASSUME NEW d \in Directions, SignalEntry(d) PROVE InferredOnce'
    BY <1>4, <2>10 DEF SignalEntry, Deciding, SymbolDone, InferredOnce
  <2>11. ASSUME NEW pnl \in Pnls, EntryPlaced(pnl) \/ EntryAnswerLost(pnl) \/ ExitFilled(pnl)
         PROVE  InferredOnce'
    BY <1>4, <1>5, <2>11
       DEF EntryPlaced, EntryAnswerLost, ExitFilled, SymbolDone, NotSent, InferredOnce
  <2>12. CASE (\E s \in Symbols, pnl \in Pnls :
                 \E quantity \in 1..Units(position[s]) : ClosedOutside(s, quantity, pnl))
              \/ UNCHANGED vars
    BY <1>4, <1>5, <2>12 DEF ClosedOutside, InferredOnce
  <2> QED
    BY <2>2, <2>3, <2>4, <2>5, <2>6, <2>7, <2>8, <2>9, <2>10, <2>11, <2>12 DEF Next, Runner, Step
<1> QED
  BY <1>3, <1>5, BrokerSteps

\* A fill leaves the sums over the trades that were there, and can only add to the whole.
LEMMA SumsAfterFill ==
  ASSUME TypeOK, Fill
  PROVE  /\ Len(history') \in {Len(history), Len(history) + 1}
         /\ \A k \in 0..Len(history) : ReportedPnl(k)' = ReportedPnl(k)
         /\ \A s : \A k \in 0..Len(history) : UnitsOf(s, k)' = UnitsOf(s, k)
         /\ \A s \in Symbols : ClosedUnits(s)' \in Int /\ ClosedUnits(s) <= ClosedUnits(s)'
         /\ \A s : UnitsOf(s, Len(history))' = ClosedUnits(s)'
<1>1. PICK s \in Symbols, n \in Int \ {0}, pnl \in Int : Filled(s, n, pnl)
  BY DEF Fill
<1>2. \A r \in Symbols : ClosedUnits(r)' \in Int /\ ClosedUnits(r) <= ClosedUnits(r)'
  BY <1>1, ClosedByFill
<1>3. history \in Seq(Trades) /\ position[s] \in Int
  BY DEF TypeOK, Trades
<1>4. CASE SameSide(position[s], -n)
  <2> DEFINE closed == Least(Units(position[s]), Units(n))
             t == [symbol |-> s, quantity |-> closed, pnl |-> pnl]
  <2>1. closed \in Nat \ {0} /\ history' = Append(history, t)
    BY <1>1, <1>3, <1>4, FilledType DEF SameSide, Least, Units
  <2>2. t \in Trades
    BY <2>1 DEF Trades
  <2> HIDE DEF t, closed
  <2> QED
    BY <1>2, <1>3, <2>1, <2>2, OneMoreTrade
<1>5. CASE ~SameSide(position[s], -n)
  <2>1. history' = history
    BY <1>1, <1>5, FilledType
  <2>2. \A r, k : UnitsOf(r, k)' = UnitsOf(r, k) /\ ReportedPnl(k)' = ReportedPnl(k)
    BY <2>1, SumsAreFolds
  <2>3. \A r : UnitsOf(r, Len(history))' = ClosedUnits(r)'
    <3>1. SubSeq(history', 1, Len(history')) = history'
      BY <1>3, <2>1, SubSeqFull
    <3> QED
      BY <2>1, <3>1, SumsAreFolds
  <2> QED
    BY <1>2, <2>1, <2>2, <2>3
<1> QED
  BY <1>4, <1>5

LEMMA ReportedNext ==
  ASSUME ReportsClosedTrades, MaxStarts <= 1
  PROVE  TypeOK /\ Prepared /\ ReportedOnce /\ [Next]_vars => ReportedOnce'
<1> SUFFICES ASSUME TypeOK, Prepared, ReportedOnce, [Next]_vars PROVE ReportedOnce'
  OBVIOUS
<1> USE DEF vars, broker, trades, books
<1>1. /\ history \in Seq(Trades) /\ Len(history) \in Nat /\ seen \in 0..Len(history)
      /\ \A s \in Symbols : booked[s] \in Nat /\ ClosedUnits(s) \in Int
      /\ \A s \in Symbols, k \in 0..Len(history) : UnitsOf(s, k) \in Int
  BY PrefixSums DEF TypeOK, Trades
<1>2. CASE Fill
  <2>1. /\ Running' = Running /\ pc' # "infer" /\ UNCHANGED <<seen, booked, starts>>
    BY <1>2 DEF Fill, ReportedOnce, Running
  <2>2. \A s \in Symbols :
          /\ Running' => booked'[s] = UnitsOf(s, seen)'
          /\ booked'[s] <= ClosedUnits(s)'
    BY <1>1, <1>2, <2>1, SumsAfterFill DEF ReportedOnce
  <2>3. \A s \in Symbols : \A k \in 0..Len(history') : UnitsOf(s, k)' <= ClosedUnits(s)'
    <3> TAKE s \in Symbols
    <3> TAKE k \in 0..Len(history')
    <3>1. CASE k \in 0..Len(history)
      BY <1>1, <1>2, <3>1, SumsAfterFill DEF ReportedOnce
    <3>2. CASE k \notin 0..Len(history)
      <4>1. k = Len(history')
        BY <1>1, <1>2, <3>2, SumsAfterFill
      <4>2. UnitsOf(s, k)' = ClosedUnits(s)'
        BY <1>2, <4>1, SumsAfterFill
      <4> QED
        BY <1>2, <4>2, SumsAfterFill
    <3> QED
      BY <3>1, <3>2
  <2> QED
    BY <2>1, <2>2, <2>3 DEF ReportedOnce, Flat
<1>3. CASE UNCHANGED broker
  <2>1. \A s : /\ ClosedUnits(s)' = ClosedUnits(s)
               /\ \A k : UnitsOf(s, k)' = UnitsOf(s, k)
    BY <1>3, SameHistory
  <2>2. \A s \in Symbols : \A k \in 0..Len(history') : UnitsOf(s, k)' <= ClosedUnits(s)'
    BY <1>3, <2>1 DEF ReportedOnce
  <2>3. ASSUME UNCHANGED <<seen, booked, starts>>, Running' = Running, pc' # "infer"
        PROVE  ReportedOnce'
    <3>1. \A s \in Symbols : UnitsOf(s, seen)' = UnitsOf(s, seen)
      BY <1>3, <2>3, SumsAreFolds, SumsSeen
    <3> QED
      BY <2>1, <2>2, <2>3, <3>1 DEF ReportedOnce, Flat
  <2>4. CASE Start
    <3>1. starts = 0 /\ starts' = 1 /\ pc' = "boundary" /\ pc = "down"
      BY <2>4, LoopAssumption DEF Start, TypeOK
    <3>2. booked' = Flat /\ seen' = 0
      BY <2>4, <3>1 DEF Start, ReportedOnce, Running
    <3>3. \A s \in Symbols : UnitsOf(s, seen)' = 0
      BY <1>1, <1>3, <3>2, PrefixEnds, SumsAreFolds, SumsSeen
    <3>4. \A s \in Symbols : booked'[s] <= ClosedUnits(s)'
      BY <2>1, <2>4 DEF Start, ReportedOnce
    <3> QED
      BY <2>2, <3>1, <3>2, <3>3, <3>4 DEF ReportedOnce, Flat, Running
  <2>5. CASE Shutdown \/ Crash
    <3>1. seen' = 0 /\ booked' = booked /\ starts' = starts /\ ~Running' /\ pc' = "down"
      BY <2>5 DEF Shutdown, Crash, Ended, Running
    <3>2. starts' # 0
      BY <2>5, <3>1 DEF Shutdown, Crash, ReportedOnce, Running
    <3> QED
      BY <2>1, <2>2, <3>1, <3>2 DEF ReportedOnce
  <2>6. CASE BookTrade
    <3> DEFINE t == history[seen + 1]
    <3>1. /\ seen \in 0..(Len(history) - 1) /\ t \in Trades /\ seen' = seen + 1
          /\ seen + 1 \in 0..Len(history)
      <4>1. seen \in 0..(Len(history) - 1) /\ seen + 1 \in 1..Len(history)
        <5>1. fetched \in 0..Len(history)
          BY DEF TypeOK
        <5>2. seen < fetched
          BY <2>6 DEF BookTrade
        <5> QED
          BY <1>1, <5>1, <5>2
      <4> QED
        BY <1>1, <2>6, <4>1, ElementOfSeq DEF BookTrade
    <3>2. /\ RecordTradeClosed(t.symbol, t.quantity, t.pnl) /\ t.symbol \in Symbols
          /\ t.quantity \in Nat /\ t.pnl \in Int
      BY <2>6, <3>1 DEF BookTrade, Trades
    <3>3. \A s \in Symbols : booked'[s] = AddUnits(s, booked[s], t)
      BY <1>1, <3>2, RecordedType DEF AddUnits
    <3>4. \A s \in Symbols : UnitsOf(s, seen + 1) = AddUnits(s, UnitsOf(s, seen), t)
      BY <1>1, <3>1, PrefixGrows
    <3>5. \A s \in Symbols : UnitsOf(s, seen)' = UnitsOf(s, seen + 1)
      BY <1>3, <3>1, SumsAreFolds, SumsSeen
    <3>6. Running /\ Running' /\ pc' # "infer" /\ starts' = starts /\ starts # 0
      BY <2>6 DEF BookTrade, Running, ReportedOnce
    <3>7. \A s \in Symbols : booked'[s] = UnitsOf(s, seen)'
      BY <3>3, <3>4, <3>5, <3>6 DEF ReportedOnce
    <3>8. \A s \in Symbols : booked'[s] <= ClosedUnits(s)'
      BY <2>1, <3>1, <3>5, <3>7 DEF ReportedOnce
    <3> QED
      BY <2>2, <3>6, <3>7, <3>8 DEF ReportedOnce
  <2>7. CASE Poll \/ StopAtBoundary \/ FetchClosedTrades \/ NoClosedTrades \/ TradesBooked
             \/ TakeSnapshot \/ EmptySnapshot \/ SnapshotFails \/ StepEnds
    BY <2>3, <2>7 DEF Poll, StopAtBoundary, FetchClosedTrades, NoClosedTrades, TradesBooked,
         TakeSnapshot, EmptySnapshot, Snapshotted, SnapshotFails, StepEnds, Running
  <2>8. ASSUME NEW s, NEW pnl, InferClosedTrade(s, pnl) \/ InferFails(s) \/ Inferred PROVE FALSE
    BY <2>8 DEF InferClosedTrade, InferFails, Inferred, ReportedOnce
  <2>9. CASE NothingToDo \/ ForceExit \/ SignalExit \/ EntryRefused
    BY <2>3, <2>9 DEF NothingToDo, ForceExit, SignalExit, EntryRefused, Deciding, Exiting,
                      SymbolDone, Running
  <2>10. CASE CloseFinds \/ CloseGivesUp \/ ExitSent \/ ExitNotSent \/ ExitRefused
    BY <2>3, <2>10 DEF CloseFinds, CloseGivesUp, ExitSent, ExitNotSent, ExitRefused, NotSent,
                       Running
  <2>11. ASSUME NEW d \in Directions, SignalEntry(d) PROVE ReportedOnce'
    BY <2>3, <2>11 DEF SignalEntry, Deciding, SymbolDone, Running
  <2>12. ASSUME NEW pnl \in Pnls, EntryPlaced(pnl) \/ EntryAnswerLost(pnl) \/ ExitFilled(pnl)
         PROVE  ReportedOnce'
    BY <2>3, <2>12 DEF EntryPlaced, EntryAnswerLost, ExitFilled, SymbolDone, NotSent, Running
  <2>13. CASE (\E s \in Symbols, pnl \in Pnls :
                 \E quantity \in 1..Units(position[s]) : ClosedOutside(s, quantity, pnl))
              \/ UNCHANGED vars
    BY <2>3, <2>13 DEF ClosedOutside, Running, ReportedOnce
  <2> QED
    BY <2>4, <2>5, <2>6, <2>7, <2>8, <2>9, <2>10, <2>11, <2>12, <2>13 DEF Next, Runner, Step
<1> QED
  BY <1>2, <1>3, BrokerSteps

LEMMA BookedInit == Init => ReportedOnce /\ InferredOnce
<1> SUFFICES ASSUME Init PROVE ReportedOnce /\ InferredOnce
  OBVIOUS
<1>1. /\ history = <<>> /\ history \in Seq(Trades) /\ Len(history) = 0
      /\ pc = "down" /\ seen = 0 /\ booked = Flat /\ closures = Flat /\ previous = Flat
      /\ position = Flat /\ vanished = Flat
  BY DEF Init
<1>2. \A s : UnitsOf(s, 0) = 0 /\ ClosedUnits(s) = 0
  BY <1>1, PrefixEnds
<1>3. \A s \in Symbols : ClosedBetween(previous[s], position[s]) = 0
  <2>1. \A s \in Symbols : previous[s] = 0 /\ position[s] = 0
    BY <1>1 DEF Flat
  <2>2. ClosedBetween(0, 0) = 0
    BY MissingAfterFill
  <2> QED
    BY <2>1, <2>2
<1>4. InferredOnce
  BY <1>1, <1>2, <1>3 DEF InferredOnce, Flat
<1>5. ReportedOnce
  BY <1>1, <1>2 DEF ReportedOnce, Running, Flat
<1> QED
  BY <1>4, <1>5

\* No unit is booked twice, but for those still held when a failing call was read as "no
\* positions": with a broker that does not report its trades through any restarts, and
\* with one that does in the life of one process.
THEOREM BookedOnce ==
  ASSUME ReportsClosedTrades => MaxStarts <= 1
  PROVE  Spec => []NothingBookedTwice
<1>1. CASE ReportsClosedTrades
  <2>1. TypeOK /\ Prepared /\ ReportedOnce /\ [Next]_vars => ReportedOnce'
    BY <1>1, ReportedNext
  <2>2. TypeOK /\ ReportedOnce => NothingBookedTwice
    <3> SUFFICES ASSUME TypeOK, ReportedOnce, NEW s \in Symbols
                 PROVE  booked[s] <= ClosedUnits(s) + vanished[s]
      BY DEF NothingBookedTwice
    <3>1. booked[s] \in Nat /\ vanished[s] \in Nat /\ ClosedUnits(s) \in Int
      BY PrefixSums DEF TypeOK, Trades
    <3>2. booked[s] <= ClosedUnits(s)
      BY DEF ReportedOnce
    <3> QED
      BY <3>1, <3>2
  <2> QED
    BY <2>1, <2>2, BookedInit, PreparedAlways, PTL DEF Spec
<1>2. CASE ~ReportsClosedTrades
  <2>1. TypeOK /\ Prepared /\ InferredOnce /\ [Next]_vars => InferredOnce'
    BY <1>2, InferredNext
  <2>2. TypeOK /\ InferredOnce => NothingBookedTwice
    <3> SUFFICES ASSUME TypeOK, InferredOnce, NEW s \in Symbols
                 PROVE  booked[s] <= ClosedUnits(s) + vanished[s]
      BY DEF NothingBookedTwice
    <3>1. /\ position[s] \in Int /\ previous[s] \in Int /\ booked[s] \in Nat
          /\ closures[s] \in Nat /\ vanished[s] \in Nat
      BY DEF TypeOK
    <3>2. ClosedUnits(s) \in Int /\ ClosedBetween(previous[s], position[s]) \in Nat
      BY <3>1, PrefixSums, MissingAfterFill DEF TypeOK, Trades
    <3>3. booked[s] + closures[s] + ClosedBetween(previous[s], position[s])
            <= ClosedUnits(s) + vanished[s]
      BY DEF InferredOnce
    <3> QED
      BY <3>1, <3>2, <3>3
  <2> QED
    BY <2>1, <2>2, BookedInit, PreparedAlways, PTL DEF Spec
<1> QED
  BY <1>1, <1>2

-----------------------------------------------------------------------------
(* Losses *)

\* What the risk manager knows after one more trade of the day: the total, and that it
\* is halted if it was or if the total has reached the limit.
LEMMA OneMoreLoss ==
  ASSUME NEW s \in RiskStates, s.day_key = DayOf[Now], s.week_key = WeekOf[Now],
         ReferenceEquity > 0, NEW symbol \in Symbols, NEW pnl \in Int,
         NEW after, after = TradeClosed(s, Now, ReferenceEquity, symbol, pnl)
  PROVE  /\ after.day_key = DayOf[Now] /\ after.week_key = WeekOf[Now]
         /\ after.daily_pnl = s.daily_pnl + pnl
         /\ Halted(s) => Halted(after)
         /\ Reached(s.daily_pnl + pnl, MaxDailyLoss, ReferenceEquity) => Halted(after)
<1>1. /\ Roll(s, Now).halt_reason = s.halt_reason /\ Roll(s, Now).daily_pnl = s.daily_pnl
      /\ Roll(s, Now).weekly_pnl = s.weekly_pnl
  BY DEF Roll
<1>2. /\ after.day_key = DayOf[Now] /\ after.week_key = WeekOf[Now]
      /\ after.daily_pnl = s.daily_pnl + pnl
      /\ after.halt_reason
           = HaltReasonAfter(s.halt_reason, s.daily_pnl + pnl, s.weekly_pnl + pnl, ReferenceEquity)
  <2>1. Now \in Times /\ ReferenceEquity \in Int
    BY LoopAssumption
  <2> QED
    BY <1>1, <2>1, TradeClosedType
<1>3. ReferenceEquity \in Int
  BY LoopAssumption
<1> QED
  BY <1>2, <1>3 DEF HaltReasonAfter, Halted, NoHalt, DailyLossLimit, WeeklyLossLimit

LEMMA SameDayEntry ==
  ASSUME NEW s \in RiskStates, s.day_key = DayOf[Now], s.week_key = WeekOf[Now],
         NEW after, after = OrderSubmitted(s, Now)
  PROVE  /\ after.day_key = s.day_key /\ after.week_key = s.week_key
         /\ after.daily_pnl = s.daily_pnl
         /\ Halted(after) <=> Halted(s)
BY DEF OrderSubmitted, Roll, Halted, RiskStates

LEMMA LossesInit == Init => LossesKnown
<1> SUFFICES ASSUME Init PROVE LossesKnown
  OBVIOUS
<1>1. /\ risk.day_key = DayOf[Now] /\ risk.week_key = WeekOf[Now] /\ risk.daily_pnl = 0
      /\ saved = risk
  BY DEF Init, Roll, RiskStateDefault
<1> QED
  BY <1>1 DEF Init, LossesKnown, Running

LEMMA LossesNext ==
  ASSUME MaxStarts <= 1, ReferenceEquity > 0
  PROVE  TypeOK /\ Prepared /\ LossesKnown /\ [Next]_vars => LossesKnown'
<1> SUFFICES ASSUME TypeOK, Prepared, LossesKnown, [Next]_vars PROVE LossesKnown'
  OBVIOUS
<1> USE DEF vars, broker, trades, books
<1> DEFINE Remembered(s, n) ==
             /\ s.daily_pnl = ReportedPnl(n)
             /\ \A k \in 1..n :
                  Reached(ReportedPnl(k), MaxDailyLoss, ReferenceEquity) => Halted(s)
<1>1. /\ history \in Seq(Trades) /\ Len(history) \in Nat
      /\ seen \in 0..Len(history) /\ fetched \in 0..Len(history)
      /\ risk \in RiskStates /\ saved \in RiskStates
  BY DEF TypeOK, Trades
<1>2. CASE Fill
  <2>1. /\ Running' = Running /\ UNCHANGED <<fetched, seen, saved, starts>>
        /\ pc' # "book" => pc # "book"
        /\ pc' = "infer" => pc = "infer"
    BY <1>2 DEF Fill, Running
  <2>2. /\ risk'.day_key = risk.day_key /\ risk'.week_key = risk.week_key
        /\ risk'.daily_pnl = risk.daily_pnl /\ (Halted(risk') <=> Halted(risk))
    BY <1>1, <1>2, SameDayEntry DEF Fill, LossesKnown
  <2>3. ReportedPnl(seen)' = ReportedPnl(seen)
    BY <1>1, <1>2, <2>1, SumsAfterFill, SumsAreFolds, SumsSeen
  <2>4. \A k \in 1..seen : ReportedPnl(k)' = ReportedPnl(k)
    BY <1>1, <1>2, SumsAfterFill
  <2> QED
    BY <2>1, <2>2, <2>3, <2>4 DEF LossesKnown
<1>3. CASE UNCHANGED broker
  <2>1. \A k : ReportedPnl(k)' = ReportedPnl(k)
    BY <1>3, SameHistory
  <2>2. ReportedPnl(seen)' = ReportedPnl(seen')
    BY <1>3, SumsAreFolds, SumsSeen
  <2>3. ASSUME UNCHANGED <<fetched, seen, risk, saved, starts>>, Running' = Running,
               pc' # "book" => pc # "book" \/ seen >= fetched,
               pc' = "infer" => pc = "infer" \/ ~ReportsClosedTrades
        PROVE  LossesKnown'
    BY <1>1, <2>1, <2>2, <2>3 DEF LossesKnown
  <2>4. CASE Start
    <3>1. starts = 0 /\ starts' = 1 /\ pc' = "boundary" /\ pc = "down"
      BY <2>4, LoopAssumption DEF Start, TypeOK
    <3>2. /\ seen' = 0 /\ fetched' = 0 /\ UNCHANGED <<risk, saved>> /\ risk.daily_pnl = 0
      BY <2>4, <3>1 DEF Start, LossesKnown, Running
    <3>3. ReportedPnl(0) = 0
      BY <1>1, PrefixEnds
    <3> QED
      BY <2>1, <2>2, <3>1, <3>2, <3>3 DEF LossesKnown, Running
  <2>5. CASE Shutdown \/ Crash
    <3>1. /\ seen' = 0 /\ fetched' = 0 /\ starts' = starts /\ pc' = "down" /\ starts # 0
          /\ risk' \in {risk, saved} /\ saved' \in {risk, saved}
      BY <2>5 DEF Shutdown, Crash, Ended, Running, LossesKnown
    <3> QED
      BY <3>1 DEF LossesKnown, Running
  <2>6. CASE FetchClosedTrades
    BY <1>1, <2>1, <2>2, <2>6 DEF FetchClosedTrades, LossesKnown, Running
  <2>7. CASE BookTrade
    <3> DEFINE t == history[seen + 1]
    <3>1. /\ seen \in 0..(Len(history) - 1) /\ t \in Trades /\ seen' = seen + 1
          /\ seen + 1 \in 1..Len(history) /\ seen + 1 <= fetched
      <4>1. seen \in 0..(Len(history) - 1) /\ seen + 1 \in 1..Len(history)
        BY <1>1, <2>7 DEF BookTrade
      <4> QED
        BY <1>1, <2>7, <4>1, ElementOfSeq DEF BookTrade
    <3>2. /\ t.symbol \in Symbols /\ t.pnl \in Int
          /\ risk' = TradeClosed(risk, Now, ReferenceEquity, t.symbol, t.pnl) /\ saved' = risk'
      BY <2>7, <3>1 DEF BookTrade, RecordTradeClosed, Trades
    <3>3. /\ risk'.day_key = DayOf[Now] /\ risk'.week_key = WeekOf[Now]
          /\ risk'.daily_pnl = risk.daily_pnl + t.pnl
          /\ Halted(risk) => Halted(risk')
          /\ Reached(risk.daily_pnl + t.pnl, MaxDailyLoss, ReferenceEquity) => Halted(risk')
      BY <1>1, <3>2, OneMoreLoss DEF LossesKnown
    <3>4. ReportedPnl(seen + 1) = ReportedPnl(seen) + t.pnl
      BY <1>1, <3>1, PrefixGrows
    <3>5. /\ UNCHANGED <<fetched, starts, pc>> /\ pc = "book" /\ Running /\ starts # 0
      BY <2>7 DEF BookTrade, Running, LossesKnown
    <3>6. fetched # 0 /\ ReportsClosedTrades
      BY <1>1, <3>1 DEF LossesKnown
    <3>7. risk.daily_pnl = ReportedPnl(seen)
      BY <3>5, <3>6 DEF LossesKnown
    <3>8. risk'.daily_pnl = ReportedPnl(seen')
      BY <3>1, <3>3, <3>4, <3>7
    <3>9. \A k \in 1..seen' :
            Reached(ReportedPnl(k), MaxDailyLoss, ReferenceEquity) => Halted(risk')
      <4> TAKE k \in 1..seen'
      <4>1. CASE k \in 1..seen
        BY <3>3, <3>5, <3>6, <4>1 DEF LossesKnown
      <4>2. CASE k = seen + 1
        BY <3>3, <3>4, <3>7, <4>2
      <4> QED
        BY <1>1, <3>1, <4>1, <4>2
    <3> QED
      BY <2>1, <2>2, <3>1, <3>2, <3>3, <3>5, <3>6, <3>8, <3>9 DEF LossesKnown, Running
  <2>8. ASSUME NEW s \in Symbols, NEW pnl \in Pnls, InferClosedTrade(s, pnl)
        PROVE  LossesKnown'
    <3>1. /\ s \in Symbols /\ pnl \in Int
          /\ risk' = TradeClosed(risk, Now, ReferenceEquity, s, pnl) /\ saved' = risk'
          /\ UNCHANGED <<pc, fetched, seen, starts>> /\ pc = "infer"
      BY <2>8, LoopAssumption DEF InferClosedTrade, RecordTradeClosed
    <3>2. /\ risk'.day_key = DayOf[Now] /\ risk'.week_key = WeekOf[Now]
      BY <1>1, <3>1, OneMoreLoss DEF LossesKnown
    <3> QED
      BY <3>1, <3>2 DEF LossesKnown, Running
  <2>9. CASE Poll \/ StopAtBoundary \/ NoClosedTrades \/ TradesBooked
             \/ TakeSnapshot \/ EmptySnapshot \/ SnapshotFails \/ Inferred \/ StepEnds
    BY <2>3, <2>9 DEF Poll, StopAtBoundary, NoClosedTrades, TradesBooked,
         TakeSnapshot, EmptySnapshot, Snapshotted, SnapshotFails, Inferred, StepEnds, Running
  <2>10. ASSUME NEW s, InferFails(s) PROVE LossesKnown'
    BY <2>3, <2>10 DEF InferFails, Running
  <2>11. CASE NothingToDo \/ ForceExit \/ SignalExit \/ EntryRefused
    BY <2>3, <2>11 DEF NothingToDo, ForceExit, SignalExit, EntryRefused, Deciding, Exiting,
                      SymbolDone, Running
  <2>12. CASE CloseFinds \/ CloseGivesUp \/ ExitSent \/ ExitNotSent \/ ExitRefused
    BY <2>3, <2>12 DEF CloseFinds, CloseGivesUp, ExitSent, ExitNotSent, ExitRefused, NotSent,
                       Running
  <2>13. ASSUME NEW d \in Directions, SignalEntry(d) PROVE LossesKnown'
    BY <2>3, <2>13 DEF SignalEntry, Deciding, SymbolDone, Running
  <2>14. ASSUME NEW pnl \in Pnls, EntryPlaced(pnl) PROVE LossesKnown'
    <3>1. /\ UNCHANGED <<fetched, seen, saved, starts>> /\ pc = "entry" /\ pc' = "symbol"
          /\ risk' = OrderSubmitted(risk, Now)
      BY <2>14 DEF EntryPlaced, SymbolDone
    <3>2. /\ risk'.day_key = risk.day_key /\ risk'.week_key = risk.week_key
          /\ risk'.daily_pnl = risk.daily_pnl /\ (Halted(risk') <=> Halted(risk))
      BY <1>1, <3>1, SameDayEntry DEF LossesKnown
    <3> QED
      BY <1>1, <2>1, <2>2, <3>1, <3>2 DEF LossesKnown, Running
  <2>15. ASSUME NEW pnl \in Pnls, EntryAnswerLost(pnl) \/ ExitFilled(pnl) PROVE LossesKnown'
    BY <2>3, <2>15 DEF EntryAnswerLost, ExitFilled, SymbolDone, NotSent, Running
  <2>16. CASE (\E s \in Symbols, pnl \in Pnls :
                 \E quantity \in 1..Units(position[s]) : ClosedOutside(s, quantity, pnl))
              \/ UNCHANGED vars
    BY <2>3, <2>16 DEF ClosedOutside, Running, LossesKnown
  <2> QED
    BY <2>4, <2>5, <2>6, <2>7, <2>8, <2>9, <2>10, <2>11, <2>12, <2>13, <2>14, <2>15, <2>16
       DEF Next, Runner, Step
<1> QED
  BY <1>2, <1>3, BrokerSteps

\* No entry is approved once the trades that were fetched have added up to the limit.
THEOREM LossesStop ==
  ASSUME MaxStarts <= 1, ReferenceEquity > 0
  PROVE  Spec => LossesStopEntries
<1>1. ASSUME TypeOK, LossesKnown, [Next]_vars, Entering, NEW k \in 1..fetched
      PROVE  ~Reached(ReportedPnl(k), MaxDailyLoss, ReferenceEquity)
  <2>1. PICK d \in Directions : SignalEntry(d)
    <3>1. ~UNCHANGED vars
      BY <1>1 DEF Entering, vars
    <3> QED
      BY <1>1, <3>1 DEF Entering, Next, Runner, Step, Poll, Shutdown, Start, StopAtBoundary, Crash,
           Ended, FetchClosedTrades, NoClosedTrades, BookTrade, TradesBooked, TakeSnapshot,
           EmptySnapshot, Snapshotted, SnapshotFails, InferClosedTrade, InferFails, Inferred,
           NothingToDo, ForceExit, SignalExit, Exiting, StepEnds, EntryPlaced, EntryAnswerLost,
           ExitFilled, EntryRefused, CloseFinds, CloseGivesUp, ExitSent, ExitNotSent,
           ExitRefused, SymbolDone, NotSent, ClosedOutside
  <2>2. pc \in {"symbol", "signal"} /\ Approves(risk, Now, Request(d))
    BY <1>1, <2>1 DEF SignalEntry, Deciding, Entering, SymbolDone
  <2>3. ~Halted(risk)
    BY <2>2, SizedType DEF Approves
  <2>4. seen = fetched /\ Running
    BY <2>2 , <1>1 DEF LossesKnown, Running
  <2>5. fetched \in Nat /\ ReportsClosedTrades
    BY <1>1 DEF TypeOK, LossesKnown
  <2> QED
    BY <1>1, <2>3, <2>4, <2>5 DEF LossesKnown
<1>2. TypeOK /\ LossesKnown /\ [Next]_vars
        => [Entering => \A k \in 1..fetched :
              ~Reached(ReportedPnl(k), MaxDailyLoss, ReferenceEquity)]_vars
  BY <1>1
<1>3. TypeOK /\ Prepared /\ LossesKnown /\ [Next]_vars => LossesKnown'
  BY LossesNext
<1> QED
  BY <1>2, <1>3, LossesInit, PreparedAlways, PTL DEF Spec, LossesStopEntries
=============================================================================
