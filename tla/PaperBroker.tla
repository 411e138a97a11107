----------------------------- MODULE PaperBroker -----------------------------
(***************************************************************************)
(* brokers/paper.py: the account that backtests and paper trading run on,    *)
(* with the excursions it measures (core/excursion.py).  Bar number i of     *)
(* every symbol carries the timestamp i.  Times, money and prices are        *)
(* integers; a cfg takes prices that make every average entry whole.         *)
(***************************************************************************)
EXTENDS Quotes, Sequences, SequencesExt, FiniteSetsExt

CONSTANTS
  Symbols,
  Bars,            \* [low, high, close] of a candle
  Requests,        \* the order requests, see RequestsAssumption
  StopPrices,      \* stops asked of update_position_stop
  HalfSpread, Slippage, ContractSize, Leverage, InitialBalance,
  Warmup,          \* _cursor at the start: bars already visible
  MaxBars,         \* bound: candles of each symbol's series
  MaxOrders,       \* bound: orders placed
  NoExcursion

OrderTypes == {"market", "limit", "stop"}
Terminal == {"filled", "cancelled", "rejected"}   \* OrderStatus.is_terminal

Prices  == Int \union {NoPrice}
Reasons == {"stop_loss", "take_profit", "exit", "signal"}

Positions ==
  [side : {1, -1}, quantity : Nat \ {0}, entry : Int, stop : Prices, target : Prices,
   opened_at : Nat, id : Nat, first : Nat, initial : Prices, resized : BOOLEAN,
   unchecked : BOOLEAN]

Orders ==
  {o \in [symbol : Symbols, side : {1, -1}, quantity : Nat \ {0}, type : OrderTypes,
          trigger : Prices, stop : Prices, target : Prices, reduce_only : BOOLEAN, id : Nat,
          status : Terminal \union {"pending", "open"}, filled : Nat, average : Prices] :
     o.type = "market" <=> o.trigger = NoPrice}

Excursions == [favorable : Int, adverse : Int, opened_at : Nat]

Trades ==
  [symbol : Symbols, side : {1, -1}, quantity : Nat \ {0}, entry : Int, exit : Int, pnl : Int,
   id : Nat, opened_at : Nat, closed_at : Nat, reason : Reasons,
   excursion : Excursions \union {NoExcursion}, first : Nat, last : Nat, stop : Prices,
   initial : Prices, resized : BOOLEAN, unchecked : BOOLEAN]

\* What OrderRequest accepts.
Proper(r) ==
  /\ r.type \in OrderTypes /\ r.side \in {1, -1} /\ r.quantity \in Nat \ {0}
  /\ r.trigger \in Prices /\ (r.type = "market" <=> r.trigger = NoPrice)
  /\ {r.stop, r.target} \subseteq Prices /\ r.reduce_only \in BOOLEAN

ASSUME RequestsAssumption == \A r \in Requests : Proper(r)

ASSUME AccountAssumption ==
  /\ \A bar \in Bars : {bar.low, bar.high, bar.close} \subseteq Nat
                       /\ bar.low <= bar.close /\ bar.close <= bar.high
  /\ {HalfSpread, Slippage, InitialBalance, MaxBars, MaxOrders} \subseteq Nat
  /\ {ContractSize, Leverage, Warmup} \subseteq Nat \ {0} /\ StopPrices \subseteq Int
  /\ IsFiniteSet(Symbols) /\ NoPosition \notin Positions /\ NoExcursion \notin Excursions

VARIABLES
  connected,
  bars,        \* the series up to _cursor; the rest of it is not known yet
  positions,   \* _positions
  orders,      \* _orders, in the order of their insertion
  cash,        \* _cash
  closed,      \* _closed_trades
  excursions,  \* _excursions: favorable, adverse and opened_at of each symbol
  last_id      \* _id_counter

account == <<bars, positions, orders, cash, closed, excursions>>
vars    == <<connected, account, last_id>>

\* What one call works on; raised says that it ends in an exception.
Account ==
  [bars |-> bars, positions |-> positions, orders |-> orders, cash |-> cash,
   closed |-> closed, excursions |-> excursions, last_id |-> last_id, raised |-> FALSE]

Becomes(a) ==
  /\ bars' = a.bars /\ positions' = a.positions /\ orders' = a.orders
  /\ cash' = a.cash /\ closed' = a.closed /\ excursions' = a.excursions
  /\ last_id' = a.last_id

\* __init__, with the first n bars already visible
InitWith(n) ==
  /\ connected = FALSE
  /\ bars \in [Symbols -> [1..n -> Bars]]
  /\ positions = [s \in Symbols |-> NoPosition]
  /\ orders = <<>> /\ closed = <<>>
  /\ cash = InitialBalance /\ last_id = 0
  /\ excursions = [s \in Symbols |-> NoExcursion]

Init == InitWith(Warmup)

-----------------------------------------------------------------------------
(* The market as the account sees it *)

\* simulated_time: the newest candle any symbol shows.
Now(a) == Max({Len(a.bars[s]) : s \in Symbols})

Close(a, s) == Last(a.bars[s]).close

\* get_ticker, and Ticker.price_for
Quote(a, s, side) == Close(a, s) + HalfSpread * side

Lesser(m, n) == IF m <= n THEN m ELSE n
Greater(m, n) == IF m >= n THEN m ELSE n

PnlAt(p, price) == (price - p.entry) * p.side * p.quantity * ContractSize

Held(a) == {s \in Symbols : a.positions[s] # NoPosition}

\* What the open positions have gained at the last close.
Worth(a) == MapThenSumSet(LAMBDA s : PnlAt(a.positions[s], Close(a, s)), Held(a))

Equity(a) == a.cash + Worth(a)

\* _margin_for and _available_margin, times the leverage
UsedNotional(a) ==
  MapThenSumSet(LAMBDA s : Close(a, s) * a.positions[s].quantity * ContractSize, Held(a))

AvailableNotional(a) == Greater(0, Equity(a) * Leverage - UsedNotional(a))

-----------------------------------------------------------------------------
(* Excursions (core/excursion.py) *)

\* Mutant: the last observation replaces the best one.
ExtendedByTheLast(x, favorable, adverse) ==
  [x EXCEPT !.favorable = favorable, !.adverse = Lesser(@, adverse)]

Extended(x, favorable, adverse) ==
  [x EXCEPT !.favorable = Greater(@, favorable), !.adverse = Lesser(@, adverse)]

\* _ensure: a position is known by its opened_at.
Watched(x, p) ==
  IF x # NoExcursion /\ x.opened_at = p.opened_at THEN x
  ELSE [favorable |-> 0, adverse |-> 0, opened_at |-> p.opened_at]

\* observe_range
Observed(x, p, bar) ==
  LET best  == IF p.side = 1 THEN bar.high ELSE bar.low
      worst == IF p.side = 1 THEN bar.low ELSE bar.high
  IN  Extended(Watched(x, p), PnlAt(p, best), PnlAt(p, worst))

\* snapshot, of the share that is closed
Snapshot(x, quantity, whole) ==
  IF x = NoExcursion THEN x
  ELSE [x EXCEPT !.favorable = (@ * quantity) \div whole, !.adverse = (@ * quantity) \div whole]

\* _track_excursion
TrackExcursion(a, s) ==
  IF a.positions[s] = NoPosition THEN a
  ELSE [a EXCEPT !.excursions[s] = Observed(@, a.positions[s], Last(a.bars[s]))]

-----------------------------------------------------------------------------
(* Fills.  The fields first, initial, resized and unchecked of a position     *)
(* are history, and so are last and stop of a closed trade: the first bar it  *)
(* met and its stop then, whether its quantity ever changed, whether a bar    *)
(* went by unchecked, and the last bar it met and its stop then.              *)

\* The trade that closing some of a position at a price makes, and its excursion.
Trade(a, s, quantity, price, reason, last) ==
  LET held == a.positions[s]
      pnl  == (price - held.entry) * held.side * quantity * ContractSize
      x    == Snapshot(a.excursions[s], quantity, held.quantity)
  IN  [symbol |-> s, side |-> held.side, quantity |-> quantity, entry |-> held.entry,
       exit |-> price, pnl |-> pnl, id |-> held.id, opened_at |-> held.opened_at,
       closed_at |-> Now(a), reason |-> reason,
       excursion |-> IF x = NoExcursion THEN x ELSE Extended(x, pnl, pnl),
       first |-> held.first, last |-> last, stop |-> held.stop, initial |-> held.initial,
       resized |-> held.resized, unchecked |-> held.unchecked]

\* What is left of a position.
Rest(held, quantity) ==
  IF quantity >= held.quantity THEN NoPosition
  ELSE [held EXCEPT !.quantity = @ - quantity, !.resized = TRUE]

\* Mutant: the excursion of a closed position is kept.
ReduceRemembering(a, s, quantity, price, reason, last) ==
  LET trade == Trade(a, s, quantity, price, reason, last)
  IN  [a EXCEPT !.cash = @ + trade.pnl, !.closed = Append(@, trade),
                !.positions[s] = Rest(@, quantity)]

\* _reduce_position: the caller never asks for more than there is.
Reduce(a, s, quantity, price, reason, last) ==
  LET trade == Trade(a, s, quantity, price, reason, last)
  IN  [a EXCEPT !.cash = @ + trade.pnl, !.closed = Append(@, trade),
                !.positions[s] = Rest(@, quantity),
                !.excursions[s] = IF quantity >= a.positions[s].quantity THEN NoExcursion ELSE @]

Or(price, otherwise) == IF price = NoPrice THEN otherwise ELSE price

\* The bars an order meets the account after: a pending one is filled before the bar that
\* fills it is observed.
BarsMet(a, o) == Len(a.bars[o.symbol]) - (IF o.type = "market" THEN 0 ELSE 1)

\* A new position of an order.
Opened(a, o, quantity, price) ==
  [side |-> o.side, quantity |-> quantity, entry |-> price, stop |-> o.stop, target |-> o.target,
   opened_at |-> Now(a), id |-> o.id, first |-> BarsMet(a, o) + 1, initial |-> o.stop,
   resized |-> FALSE, unchecked |-> FALSE]

\* More of a position, at the average entry; the stop and the target of the order replace
\* those there were.
Enlarged(held, o, quantity, price) ==
  LET total == held.quantity + quantity
  IN  [held EXCEPT !.quantity = total, !.entry = (@ * held.quantity + price * quantity) \div total,
                   !.stop = Or(o.stop, @), !.target = Or(o.target, @), !.resized = TRUE]

\* _open_position
OpenPosition(a, o, quantity, price) ==
  [a EXCEPT !.positions[o.symbol] =
     IF @ = NoPosition THEN Opened(a, o, quantity, price) ELSE Enlarged(@, o, quantity, price)]

Rejected(a, i) == [a EXCEPT !.orders[i].status = "rejected", !.raised = TRUE]

Filled(a, i, quantity, price) ==
  [a EXCEPT !.orders[i].status = "filled", !.orders[i].filled = quantity, !.orders[i].average = price]

NothingToReduce(o, held) == o.reduce_only /\ (held = NoPosition \/ held.side = o.side)

\* An order against the position closes it as far as it goes.
Against(a, o, price, reason) ==
  Reduce(a, o.symbol, Lesser(a.positions[o.symbol].quantity, o.quantity), price, reason,
         BarsMet(a, o))

\* Mutant: what is left of an order that turned the position around is forgotten.
TurnForgettingTheRest(a, o, price, reason) == Against(a, o, price, reason)

\* What is left of it opens a position on its own side; that part needs no margin.
Turn(a, o, price, reason) ==
  LET rest    == o.quantity - a.positions[o.symbol].quantity
      reduced == Against(a, o, price, reason)
  IN  IF rest > 0 THEN OpenPosition(reduced, o, rest, price) ELSE reduced

\* Mutant: a reduce-only order is filled like any other.
FillIgnoringReduceOnly(a, i, price, reason) ==
  LET o    == a.orders[i]
      held == a.positions[o.symbol]
  IN  Filled(IF held # NoPosition /\ held.side # o.side THEN Turn(a, o, price, reason)
             ELSE OpenPosition(a, o, o.quantity, price), i, o.quantity, price)

\* _fill
Fill(a, i, price, reason) ==
  LET o    == a.orders[i]
      held == a.positions[o.symbol]
  IN  CASE NothingToReduce(o, held) -> Rejected(a, i)
        [] o.reduce_only /\ ~NothingToReduce(o, held) ->
             Filled(Against(a, o, price, reason), i, Lesser(held.quantity, o.quantity), price)
        [] ~o.reduce_only /\ held # NoPosition /\ held.side # o.side ->
             Filled(Turn(a, o, price, reason), i, o.quantity, price)
        [] OTHER ->
             IF price * o.quantity * ContractSize > AvailableNotional(a) THEN Rejected(a, i)
             ELSE Filled(OpenPosition(a, o, o.quantity, price), i, o.quantity, price)

-----------------------------------------------------------------------------
(* One bar *)

Reaches(bar, price, side) == IF side = 1 THEN bar.high >= price ELSE bar.low <= price

StopHit(p, bar) == p.stop # NoPrice /\ Reaches(bar, p.stop, -p.side)
TargetHit(p, bar) == p.target # NoPrice /\ Reaches(bar, p.target, p.side)

\* A limit fills where the market comes to it, a stop order where it runs away.
Triggered(o, bar) ==
  IF o.type = "limit" THEN Reaches(bar, o.trigger, -o.side) ELSE Reaches(bar, o.trigger, o.side)

Pending(a, i, s) ==
  a.orders[i].symbol = s /\ a.orders[i].status \notin Terminal /\ a.orders[i].type # "market"

\* _process_pending_orders: a fill that raises leaves the loop, and the call.
ProcessPendingOrders(a, s) ==
  LET step(b, i) ==
        IF ~b.raised /\ Pending(b, i, s) /\ Triggered(b.orders[i], Last(b.bars[s]))
        THEN Fill(b, i, b.orders[i].trigger, "signal") ELSE b
  IN  FoldLeft(step, a, [i \in DOMAIN a.orders |-> i])

\* _close_position, by the bar just met
Closed(a, s, price, reason) ==
  Reduce(a, s, a.positions[s].quantity, price, reason, Len(a.bars[s]))

\* Mutant: where a bar touches both, the target is taken.
ProcessExitsTargetFirst(a, s) ==
  LET p   == a.positions[s]
      bar == Last(a.bars[s])
  IN  CASE p # NoPosition /\ TargetHit(p, bar) -> Closed(a, s, p.target, "take_profit")
        [] p # NoPosition /\ ~TargetHit(p, bar) /\ StopHit(p, bar) ->
             Closed(a, s, p.stop, "stop_loss")
        [] OTHER -> a

\* _process_exits
ProcessExits(a, s) ==
  LET p   == a.positions[s]
      bar == Last(a.bars[s])
  IN  CASE p # NoPosition /\ StopHit(p, bar) -> Closed(a, s, p.stop, "stop_loss")
        [] p # NoPosition /\ ~StopHit(p, bar) /\ TargetHit(p, bar) ->
             Closed(a, s, p.target, "take_profit")
        [] OTHER -> a

Unchecked(a, s) == IF a.positions[s] = NoPosition THEN a ELSE [a EXCEPT !.positions[s].unchecked = TRUE]

\* _advance, where the series goes on with bar
Advance(a, s, bar) ==
  LET shown   == [a EXCEPT !.bars[s] = Append(@, bar)]
      pending == ProcessPendingOrders(shown, s)
  IN  IF pending.raised THEN Unchecked(pending, s)
      ELSE ProcessExits(TrackExcursion(pending, s), s)

-----------------------------------------------------------------------------
(* Operations *)

Connect ==
  /\ ~connected /\ connected' = TRUE
  /\ UNCHANGED <<account, last_id>>

Disconnect ==
  /\ connected /\ connected' = FALSE
  /\ UNCHANGED <<account, last_id>>

\* get_ohlcv moves the clock; at the end of the series it stays where it is.
GetOhlcv(s, bar) ==
  /\ connected /\ Len(bars[s]) < MaxBars
  /\ Becomes(Advance(Account, s, bar))
  /\ UNCHANGED connected

Order(a, s, r) ==
  [symbol |-> s, side |-> r.side, quantity |-> r.quantity, type |-> r.type, trigger |-> r.trigger,
   stop |-> r.stop, target |-> r.target, reduce_only |-> r.reduce_only, id |-> a.last_id + 1,
   status |-> IF r.type = "market" THEN "pending" ELSE "open", filled |-> 0, average |-> NoPrice]

\* RiskManager lets an entry through when its stop is on the losing side of its price.
StopRuleHolds(r, price) == r.stop # NoPrice => r.stop * r.side < price * r.side

\* place_order of a market order: filled at once, or refused and not kept.
Market(a, s, r) ==
  LET price == Quote(a, s, r.side) + Slippage * r.side
      after == Fill([a EXCEPT !.orders = Append(@, Order(a, s, r)), !.last_id = @ + 1],
                    Len(a.orders) + 1, price, IF r.reduce_only THEN "exit" ELSE "signal")
  IN  IF after.raised THEN [a EXCEPT !.last_id = @ + 1] ELSE after

PlaceMarket(s, r) ==
  /\ connected /\ last_id < MaxOrders /\ r.type = "market"
  /\ StopRuleHolds(r, Quote(Account, s, r.side))
  /\ Becomes(Market(Account, s, r))
  /\ UNCHANGED connected

\* place_order of a limit or a stop order
PlacePending(s, r) ==
  /\ connected /\ last_id < MaxOrders /\ r.type # "market"
  /\ StopRuleHolds(r, r.trigger)
  /\ last_id' = last_id + 1
  /\ orders' = Append(orders, Order(Account, s, r))
  /\ UNCHANGED <<connected, bars, positions, cash, closed, excursions>>

CancelOrder(i) ==
  /\ connected /\ orders[i].status \notin Terminal
  /\ orders' = [orders EXCEPT ![i].status = "cancelled"]
  /\ UNCHANGED <<connected, bars, positions, cash, closed, excursions, last_id>>

Worsens(p, stop) == p.stop # NoPrice /\ stop * p.side < p.stop * p.side

\* Mutant: the stop is set whatever it was.
StopMovedFreely(a, s, stop) ==
  IF a.positions[s] = NoPosition THEN a ELSE [a EXCEPT !.positions[s].stop = stop]

\* update_position_stop compares with the stop there is, and not with the market: a
\* trailing stop can be asked for on the winning side of the close.
StopMoved(a, s, stop) ==
  IF a.positions[s] = NoPosition \/ Worsens(a.positions[s], stop) THEN a
  ELSE [a EXCEPT !.positions[s].stop = stop]

UpdatePositionStop(s, stop) ==
  /\ connected /\ Becomes(StopMoved(Account, s, stop))
  /\ UNCHANGED connected

Next ==
  \/ Connect \/ Disconnect
  \/ \E i \in DOMAIN orders : CancelOrder(i)
  \/ \E s \in Symbols :
       \/ \E bar \in Bars : GetOhlcv(s, bar)
       \/ \E r \in Requests : PlaceMarket(s, r) \/ PlacePending(s, r)
       \/ \E stop \in StopPrices : UpdatePositionStop(s, stop)

Spec == Init /\ [][Next]_vars

-----------------------------------------------------------------------------
(* Properties *)

TypeOK ==
  /\ connected \in BOOLEAN
  /\ bars \in [Symbols -> Seq(Bars)]
  /\ positions \in [Symbols -> Positions \union {NoPosition}]
  /\ orders \in Seq(Orders) /\ \A i \in DOMAIN orders : orders[i].status # "pending"
  /\ cash \in Int /\ last_id \in 0..MaxOrders /\ closed \in Seq(Trades)
  /\ excursions \in [Symbols -> Excursions \union {NoExcursion}]
  /\ \A s \in Symbols : excursions[s] # NoExcursion =>
       excursions[s].favorable >= 0 /\ excursions[s].adverse <= 0

Sum(s, Of(_)) == FoldLeft(LAMBDA sum, x : sum + Of(x), 0, s)

FilledIn(o, s) == o.symbol = s /\ o.status = "filled"
StoppedIn(t, s) == t.symbol = s /\ t.reason \in {"stop_loss", "take_profit"}

\* What the orders and the exits of a symbol moved: units, and the money paid for them.
NetUnits(s) ==
  Sum(orders, LAMBDA o : IF FilledIn(o, s) THEN o.side * o.filled ELSE 0)
    - Sum(closed, LAMBDA t : IF StoppedIn(t, s) THEN t.side * t.quantity ELSE 0)

NetPaid(s) ==
  Sum(orders, LAMBDA o : IF FilledIn(o, s) THEN o.side * o.filled * o.average ELSE 0)
    - Sum(closed, LAMBDA t : IF StoppedIn(t, s) THEN t.side * t.quantity * t.exit ELSE 0)

Profit(s) == Sum(closed, LAMBDA t : IF t.symbol = s THEN t.pnl ELSE 0)

SignedUnits(s) == IF positions[s] = NoPosition THEN 0 ELSE positions[s].side * positions[s].quantity
Cost(s) == IF positions[s] = NoPosition THEN 0 ELSE SignedUnits(s) * positions[s].entry

\* What get_order reports as filled, and the exits the bars caused, explain the positions
\* get_positions shows to the last unit, and the closed trades the balance.
UnitsAndCashBalance ==
  /\ \A s \in Symbols : SignedUnits(s) = NetUnits(s)
  /\ cash = InitialBalance + Sum(closed, LAMBDA t : t.pnl)

\* Double entry: besides, the trades of each symbol have made what was paid and received
\* for its units, through partial closes, reversals, averaged entries and clipped exits.
BooksBalance ==
  /\ UnitsAndCashBalance
  /\ \A s \in Symbols : Profit(s) = ContractSize * (Cost(s) - NetPaid(s))

\* No position was opened by a reduce-only order, however late after its position had
\* gone, or turned around, the order was filled (paper.py:387-389).
ReduceOnlyNeverOpens ==
  \A s \in Symbols, i \in DOMAIN orders :
    positions[s] # NoPosition /\ orders[i].reduce_only => positions[s].id # orders[i].id

ExtremeOf(t, values) ==
  LET met == {(v - t.entry) * t.side * t.quantity * ContractSize : v \in values}
  IN  [favorable |-> Max(met \union {0}), adverse |-> Min(met \union {0})]

\* The excursion of a closed trade is that of the bars its position lived through, no
\* bar of an earlier position of the symbol and none left out, and of its exit; a trade
\* of a position that met no bar has none.  Not claimed once a position was resized.
ExcursionsAreTheTrades ==
  \A t \in Range(closed) : ~t.resized /\ ~t.unchecked =>
    LET met == {bars[t.symbol][i] : i \in t.first..t.last}
        e   == ExtremeOf(t, {b.low : b \in met} \union {b.high : b \in met} \union {t.exit})
    IN  IF met = {} THEN t.excursion = NoExcursion
        ELSE t.excursion.favorable = e.favorable /\ t.excursion.adverse = e.adverse

\* A position that saw all its bars and was not resized, and that a stop or an exit order
\* closes, loses no more than to the stop it was opened with, but for the spread and the
\* slippage of an exit, wherever that stop was moved; and a target is taken only in a bar that
\* does not touch the stop.  Not claimed of a position that a pending fill reverses in a bar
\* before its exits are looked at (paper.py:330-333).
StopsBoundLosses ==
  \A t \in Range(closed) : ~t.unchecked /\ ~t.resized =>
    /\ t.initial # NoPrice /\ t.reason \in {"stop_loss", "exit"} =>
         t.exit * t.side >= t.initial * t.side - 2 * HalfSpread - Slippage
    /\ t.reason = "take_profit" /\ t.stop # NoPrice =>
         ~Reaches(bars[t.symbol][t.last], t.stop, -t.side)

AddsTo(p, i) ==
  /\ orders'[i].side = p.side /\ orders'[i].status = "filled"
  /\ i \in DOMAIN orders => orders[i].status # "filled"

\* The stop of a position moves to the worse only in a step in which an order adds to it,
\* and an order that is filled, cancelled or rejected stays so.
StopsAndOrdersMoveOneWay ==
  [][/\ \A s \in Symbols :
          LET p == positions[s]
              q == positions'[s]
          IN  /\ p # NoPosition /\ q # NoPosition /\ p.id = q.id
              /\ p.stop # NoPrice /\ (q.stop = NoPrice \/ Worsens(p, q.stop))
              => \E i \in DOMAIN orders' : AddsTo(p, i)
     /\ \A i \in DOMAIN orders : orders[i].status \in Terminal => orders'[i] = orders[i]]_vars

\* paper.py:248-249: whatever a bar hits is executed before get_ohlcv returns.  Refuted: a
\* pending order that is refused ends the call before the exits are looked at.
EveryBarIsExecuted ==
  \A s \in Symbols : positions[s] # NoPosition => ~positions[s].unchecked
=============================================================================
