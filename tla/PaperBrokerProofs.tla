--------------------------- MODULE PaperBrokerProofs ---------------------------
(***************************************************************************)
(* Safety proofs for PaperBroker: for any symbols, bars, requests and        *)
(* prices, and any sequence of calls; and for Backtest, which is that account *)
(* driven by a strategy: for any strategy, calendar, series and sizes.        *)
(***************************************************************************)
EXTENDS Backtest, SequenceTheorems, FiniteSetTheorems, TLAPS

-----------------------------------------------------------------------------
(* The inductive invariants, of an account between two calls or within one *)

Accounts ==
  [bars : [Symbols -> Seq(Bars)], positions : [Symbols -> Positions \union {NoPosition}],
   orders : Seq(Orders), cash : Int, closed : Seq(Trades),
   excursions : [Symbols -> Excursions \union {NoExcursion}], last_id : Nat, raised : BOOLEAN]

\* Every symbol shows a bar, and excursions have their signs.
Displays(a) == \A s \in Symbols : Len(a.bars[s]) >= 1

Signed(a) ==
  \A s \in Symbols : a.excursions[s] # NoExcursion =>
    a.excursions[s].favorable >= 0 /\ a.excursions[s].adverse <= 0

\* Ids are given once, and a position carries that of the order that opened it.
Numbered(a) ==
  \A i \in DOMAIN a.orders :
    /\ a.orders[i].id <= a.last_id
    /\ \A j \in DOMAIN a.orders : a.orders[i].id = a.orders[j].id => i = j

OpenedBy(a, s, i) ==
  /\ a.orders[i].id = a.positions[s].id
  /\ a.orders[i].status = "filled" /\ ~a.orders[i].reduce_only

Named(a) ==
  \A s \in Symbols : a.positions[s] # NoPosition => \E i \in DOMAIN a.orders : OpenedBy(a, s, i)

\* What a position, or a trade of it, has gained at a price, for each unit.
Gain(p, price) == (price - p.entry) * p.side * ContractSize

Gains(p, series, from, to) ==
  {0} \union {Gain(p, series[i].low) : i \in from..to} \union {Gain(p, series[i].high) : i \in from..to}

\* x is the best and the worst of what a quantity has gained.
Spans(x, gains, quantity) ==
  \E best, worst \in gains :
    /\ \A gain \in gains : worst <= gain /\ gain <= best
    /\ x.favorable = best * quantity /\ x.adverse = worst * quantity

\* A position whose excursion and stop are those the properties speak of.
Whole(p) == ~p.resized /\ ~p.unchecked

\* The excursion of a position is that of the bars it has met, up to bar n.
Measured(a, s, n) ==
  LET p == a.positions[s]
      x == a.excursions[s]
  IN  /\ p = NoPosition => x = NoExcursion
      /\ p # NoPosition /\ Whole(p) =>
           /\ 1 <= p.first /\ p.first <= n + 1
           /\ p.first = n + 1 => x = NoExcursion
           /\ p.first <= n => /\ x # NoExcursion /\ x.opened_at = p.opened_at
                              /\ Spans(x, Gains(p, a.bars[s], p.first, n), p.quantity)

\* The stop never was worse than the first, and the last close is not beyond the first by
\* more than half the spread.
StopKept(a, s) ==
  LET p == a.positions[s]
  IN  p # NoPosition /\ Whole(p) /\ p.initial # NoPrice =>
        p.stop # NoPrice /\ p.initial * p.side <= p.stop * p.side

CloseKept(a, s) ==
  LET p == a.positions[s]
  IN  p # NoPosition /\ Whole(p) /\ p.initial # NoPrice =>
        p.initial * p.side - HalfSpread <= Close(a, s) * p.side

\* What is claimed of a closed trade.
Bounded(t, series) ==
  /\ t.initial # NoPrice /\ t.reason \in {"stop_loss", "exit"} =>
       t.exit * t.side >= t.initial * t.side - 2 * HalfSpread - Slippage
  /\ t.reason = "take_profit" /\ t.stop # NoPrice =>
       1 <= t.last /\ ~Reaches(series[t.last], t.stop, -t.side)

Valued(t, series) ==
  /\ 1 <= t.first /\ t.first <= t.last + 1
  /\ t.first = t.last + 1 => t.excursion = NoExcursion
  /\ t.first <= t.last =>
       /\ t.excursion # NoExcursion
       /\ Spans(t.excursion, Gains(t, series, t.first, t.last) \union {Gain(t, t.exit)}, t.quantity)

TradeKept(t, bs) ==
  /\ t.last <= Len(bs[t.symbol])
  /\ Whole(t) => Bounded(t, bs[t.symbol]) /\ Valued(t, bs[t.symbol])

TradesKept(a) == \A i \in DOMAIN a.closed : TradeKept(a.closed[i], a.bars)

\* Between two calls.
Rested(a) ==
  /\ Displays(a) /\ Signed(a) /\ Numbered(a) /\ Named(a) /\ TradesKept(a)
  /\ \A s \in Symbols : Measured(a, s, Len(a.bars[s])) /\ StopKept(a, s) /\ CloseKept(a, s)

IInv == Rested(Account)

-----------------------------------------------------------------------------
(* Gains and excursions *)

LEMMA ProductMonotone ==
  ASSUME NEW x \in Int, NEW y \in Int, NEW k \in Nat, x <= y
  PROVE  x * k <= y * k
BY Z3

\* A share of a multiple of the whole is exact.
LEMMA ExactShare ==
  ASSUME NEW x \in Int, NEW whole \in Nat \ {0}, NEW part \in Int
  PROVE  ((x * whole) * part) \div whole = x * part
<1> DEFINE y == x * part
<1>1. y \in Int /\ (x * whole) * part = y * whole
  BY Z3
<1> HIDE DEF y
<1>2. (y * whole) \div whole = y
  <2> DEFINE n == y * whole
             q == n \div whole
  <2>1. n \in Int
    BY <1>1
  <2>2. q \in Int /\ q * whole <= n /\ n < (q + 1) * whole
    <3> HIDE DEF n
    <3> QED
      BY <2>1
  <2> HIDE DEF q
  <2>3. ~(q < y)
    <3> SUFFICES ASSUME q + 1 <= y PROVE FALSE
      BY <1>1, <2>2
    <3>1. (q + 1) * whole <= y * whole
      BY <1>1, <2>2, ProductMonotone
    <3> QED
      BY <2>1, <2>2, <3>1
  <2>4. ~(y < q)
    <3> SUFFICES ASSUME y + 1 <= q PROVE FALSE
      BY <1>1, <2>2
    <3>1. (y + 1) * whole <= q * whole
      BY <1>1, <2>2, ProductMonotone
    <3>2. (y + 1) * whole = y * whole + whole
      BY <1>1
    <3> QED
      BY <2>1, <2>2, <3>1, <3>2
  <2> QED
    BY <1>1, <2>2, <2>3, <2>4 DEF q
<1> QED
  BY <1>1, <1>2 DEF y

\* What of a position or a trade its gain depends on.
Dealt(p) == p.entry \in Int /\ p.side \in {1, -1}

LEMMA GainType ==
  ASSUME NEW p, Dealt(p), NEW price \in Int
  PROVE  Gain(p, price) \in Int
BY AccountAssumption DEF Gain, Dealt

LEMMA PnlOfDeal ==
  ASSUME NEW p, Dealt(p), NEW price \in Int, NEW n \in Nat
  PROVE  (price - p.entry) * p.side * n * ContractSize = Gain(p, price) * n
<1>1. \A d \in Int, c \in Nat, k \in Nat : d * k * c = (d * c) * k
  BY Z3
<1>2. (price - p.entry) * p.side \in Int /\ ContractSize \in Nat
  BY AccountAssumption DEF Dealt
<1> QED
  BY <1>1, <1>2 DEF Gain

LEMMA PnlOfGain ==
  ASSUME NEW p \in Positions, NEW price \in Int
  PROVE  /\ Dealt(p)
         /\ PnlAt(p, price) = Gain(p, price) * p.quantity
         /\ \A n \in Nat : (price - p.entry) * p.side * n * ContractSize = Gain(p, price) * n
<1>1. Dealt(p) /\ p.quantity \in Nat
  BY DEF Positions, Dealt
<1> QED
  BY <1>1, PnlOfDeal DEF PnlAt

\* The better price gains more.
LEMMA GainOrder ==
  ASSUME NEW p, Dealt(p), NEW low \in Int, NEW high \in Int, low <= high
  PROVE  IF p.side = 1 THEN Gain(p, low) <= Gain(p, high) ELSE Gain(p, high) <= Gain(p, low)
<1>1. ContractSize \in Nat
  BY AccountAssumption
<1>2. CASE p.side = 1
  <2>1. (low - p.entry) * p.side <= (high - p.entry) * p.side
    BY <1>2 DEF Dealt
  <2> QED
    BY <1>1, <1>2, <2>1, ProductMonotone DEF Gain, Dealt
<1>3. CASE p.side = -1
  <2>1. (high - p.entry) * p.side <= (low - p.entry) * p.side
    BY <1>3 DEF Dealt
  <2> QED
    BY <1>1, <1>3, <2>1, ProductMonotone DEF Gain, Dealt
<1> QED
  BY <1>2, <1>3 DEF Dealt

LEMMA ExtendedType ==
  ASSUME NEW x \in Excursions, NEW favorable \in Int, NEW adverse \in Int
  PROVE  LET y == Extended(x, favorable, adverse)
         IN  /\ y \in Excursions /\ y.opened_at = x.opened_at
             /\ y.favorable = Greater(x.favorable, favorable)
             /\ y.adverse = Lesser(x.adverse, adverse)
             /\ y.favorable >= x.favorable /\ y.adverse <= x.adverse
<1>1. /\ x.favorable \in Int /\ x.adverse \in Int
      /\ Greater(x.favorable, favorable) \in Int /\ Lesser(x.adverse, adverse) \in Int
      /\ Greater(x.favorable, favorable) >= x.favorable /\ Lesser(x.adverse, adverse) <= x.adverse
  BY DEF Excursions, Greater, Lesser
<1> QED
  BY <1>1 DEF Extended, Excursions

\* Two more gains, the one not below the other.
LEMMA SpansExtended ==
  ASSUME NEW gains, gains \subseteq Int, NEW high \in Int, NEW low \in Int, low <= high,
         NEW quantity \in Nat, NEW x \in Excursions, Spans(x, gains, quantity)
  PROVE  Spans(Extended(x, high * quantity, low * quantity), gains \union {low, high}, quantity)
<1> DEFINE y == Extended(x, high * quantity, low * quantity)
<1>1. PICK best \in gains, worst \in gains :
        /\ \A gain \in gains : worst <= gain /\ gain <= best
        /\ x.favorable = best * quantity /\ x.adverse = worst * quantity
  BY DEF Spans
<1>2. high * quantity \in Int /\ low * quantity \in Int /\ best * quantity \in Int
      /\ worst * quantity \in Int /\ best \in Int /\ worst \in Int
  OBVIOUS
<1>3. /\ y.favorable = Greater(x.favorable, high * quantity)
      /\ y.adverse = Lesser(x.adverse, low * quantity)
  BY <1>2, ExtendedType
<1> HIDE DEF y
<1>4. y.favorable = Greater(best, high) * quantity
  <2>1. CASE best <= high
    <3>1. best * quantity <= high * quantity
      BY <1>2, <2>1, ProductMonotone
    <3> QED
      BY <1>1, <1>2, <1>3, <2>1, <3>1 DEF Greater
  <2>2. CASE high <= best
    <3>1. high * quantity <= best * quantity
      BY <1>2, <2>2, ProductMonotone
    <3> QED
      BY <1>1, <1>2, <1>3, <2>2, <3>1 DEF Greater
  <2> QED
    BY <1>2, <2>1, <2>2
<1>5. y.adverse = Lesser(worst, low) * quantity
  <2>1. CASE worst <= low
    <3>1. worst * quantity <= low * quantity
      BY <1>2, <2>1, ProductMonotone
    <3> QED
      BY <1>1, <1>2, <1>3, <2>1, <3>1 DEF Lesser
  <2>2. CASE low <= worst
    <3>1. low * quantity <= worst * quantity
      BY <1>2, <2>2, ProductMonotone
    <3> QED
      BY <1>1, <1>2, <1>3, <2>2, <3>1 DEF Lesser
  <2> QED
    BY <1>2, <2>1, <2>2
<1>6. /\ Greater(best, high) \in gains \union {low, high}
      /\ Lesser(worst, low) \in gains \union {low, high}
      /\ \A gain \in gains \union {low, high} :
           Lesser(worst, low) <= gain /\ gain <= Greater(best, high)
  BY <1>1, <1>2 DEF Greater, Lesser
<1> QED
  BY <1>4, <1>5, <1>6 DEF Spans, y

LEMMA SpansOfNothing ==
  ASSUME NEW x, x.favorable = 0, x.adverse = 0, NEW quantity \in Nat
  PROVE  Spans(x, {0}, quantity)
BY DEF Spans

LEMMA SnapshotType ==
  ASSUME NEW x \in Excursions, NEW part \in Nat, NEW whole \in Nat \ {0}
  PROVE  LET y == Snapshot(x, part, whole)
         IN  /\ y \in Excursions
             /\ y.favorable = (x.favorable * part) \div whole
             /\ y.adverse = (x.adverse * part) \div whole
<1>1. /\ x.favorable * part \in Int /\ x.adverse * part \in Int
      /\ x # NoExcursion
  BY AccountAssumption DEF Excursions
<1>2. \A n \in Int : n \div whole \in Int
  OBVIOUS
<1>3. (x.favorable * part) \div whole \in Int /\ (x.adverse * part) \div whole \in Int
  BY <1>1, <1>2
<1> QED
  BY <1>1, <1>3 DEF Snapshot, Excursions

\* The excursion of a share of the quantity.
LEMMA SpansOfShare ==
  ASSUME NEW gains, gains \subseteq Int, NEW whole \in Nat \ {0}, NEW part \in Nat,
         NEW x \in Excursions, Spans(x, gains, whole)
  PROVE  Spans(Snapshot(x, part, whole), gains, part)
<1> DEFINE y == Snapshot(x, part, whole)
<1>1. PICK best \in gains, worst \in gains :
        /\ \A gain \in gains : worst <= gain /\ gain <= best
        /\ x.favorable = best * whole /\ x.adverse = worst * whole
  BY DEF Spans
<1>2. /\ y.favorable = ((best * whole) * part) \div whole
      /\ y.adverse = ((worst * whole) * part) \div whole
  BY <1>1, SnapshotType, ZenonT(60)
<1>3. y.favorable = best * part /\ y.adverse = worst * part
  BY <1>1, <1>2, ExactShare
<1> HIDE DEF y
<1> QED
  BY <1>1, <1>3 DEF Spans, y

-----------------------------------------------------------------------------
(* What the steps of a call keep *)

\* An order that is done stays as it is, and no order changes its side.
OrdersGoOn(o, a) ==
  \A i \in DOMAIN o.orders :
    /\ i \in DOMAIN a.orders /\ a.orders[i].side = o.orders[i].side
    /\ o.orders[i].status \in Terminal => a.orders[i] = o.orders[i]

\* Since o an order has added to p.
Added(o, a, p) ==
  \E i \in DOMAIN a.orders :
    /\ a.orders[i].side = p.side /\ a.orders[i].status = "filled"
    /\ i \in DOMAIN o.orders => o.orders[i].status # "filled"

Weaker(p, q) == p.stop # NoPrice /\ (q.stop = NoPrice \/ Worsens(p, q.stop))

Same(p, q) == p # NoPosition /\ q # NoPosition /\ p.id = q.id

\* The stop of a position is not worse than it was, unless an order added to the position.
StopsGoOn(o, a) ==
  \A s \in Symbols : Same(o.positions[s], a.positions[s]) =>
    /\ o.positions[s].side = a.positions[s].side
    /\ Weaker(o.positions[s], a.positions[s]) => Added(o, a, o.positions[s])

\* A position that was not there is that of an order that was not done.
NewIsNew(o, a) ==
  \A s \in Symbols : a.positions[s] # NoPosition /\ ~Same(o.positions[s], a.positions[s]) =>
    \E i \in DOMAIN a.orders :
      OpenedBy(a, s, i) /\ (i \in DOMAIN o.orders => o.orders[i].status \notin Terminal)

Continues(o, a) == OrdersGoOn(o, a) /\ StopsGoOn(o, a) /\ NewIsNew(o, a)

OthersKept(s, o, a) ==
  \A r \in Symbols : r # s =>
    a.positions[r] = o.positions[r] /\ a.excursions[r] = o.excursions[r]

Settled(a) == \A i \in DOMAIN a.orders : a.orders[i].status # "pending"

\* An account within a call that has met n bars of s.
Standing(a, s, n) ==
  /\ a \in Accounts /\ Displays(a) /\ Signed(a) /\ Numbered(a) /\ Named(a) /\ TradesKept(a)
  /\ Measured(a, s, n) /\ StopKept(a, s)

\* Where the loop over the orders can be, for a symbol s whose bar has just been shown to
\* the account o.
Within(s, o) ==
  {a \in Accounts :
     /\ Standing(a, s, Len(a.bars[s]) - 1) /\ Settled(a)
     /\ a.bars = o.bars /\ a.last_id = o.last_id /\ DOMAIN a.orders = DOMAIN o.orders
     /\ OthersKept(s, o, a) /\ Continues(o, a)}

PendingStep(s, a, i) ==
  IF ~a.raised /\ Pending(a, i, s) /\ Triggered(a.orders[i], Last(a.bars[s]))
  THEN Fill(a, i, a.orders[i].trigger, "signal") ELSE a

Loop == INSTANCE FoldProofs WITH Step <- PendingStep

-----------------------------------------------------------------------------
(* Types of what a fill makes *)

LEMMA NowType ==
  ASSUME NEW a \in Accounts, NEW s \in Symbols
  PROVE  Now(a) \in Nat
<1> DEFINE T == {Len(a.bars[r]) : r \in Symbols}
<1>1. \A r \in Symbols : Len(a.bars[r]) \in Nat
  BY DEF Accounts
<1>2. T \subseteq Nat /\ T # {}
  BY <1>1
<1>3. IsFiniteSet(T)
  <2>1. IsFiniteSet(Symbols)
    BY AccountAssumption
  <2> QED
    <3> DEFINE f == [r \in Symbols |-> Len(a.bars[r])]
    <3>1. f \in Surjection(Symbols, T)
      BY DEF Surjection
    <3> QED
      BY <2>1, <3>1, FS_Surjection
<1> HIDE DEF T
<1>4. Loop!Max(T) \in T
  <2>1. Loop!IsFiniteSet(T)
    BY <1>3 DEF IsFiniteSet, Loop!IsFiniteSet
  <2> QED
    BY <1>2, <2>1, Loop!MaxOfFinite
<1> QED
  BY <1>2, <1>4 DEF Now, Max, Loop!Max, T

LEMMA TradeType ==
  ASSUME NEW a \in Accounts, NEW s \in Symbols, a.positions[s] # NoPosition,
         NEW quantity \in Nat \ {0}, NEW price \in Int, NEW reason \in Reasons, NEW last \in Nat
  PROVE  LET t == Trade(a, s, quantity, price, reason, last)
             held == a.positions[s]
             x == a.excursions[s]
             gain == Gain(held, price) * quantity
         IN  /\ t \in Trades
             /\ t.symbol = s /\ t.side = held.side /\ t.quantity = quantity
             /\ t.entry = held.entry /\ t.exit = price /\ t.reason = reason
             /\ t.excursion = IF x = NoExcursion THEN NoExcursion
                              ELSE Extended(Snapshot(x, quantity, held.quantity), gain, gain)
             /\ t.first = held.first /\ t.last = last /\ t.stop = held.stop
             /\ t.initial = held.initial /\ t.resized = held.resized
             /\ t.unchecked = held.unchecked
             /\ t.id = held.id /\ t.closed_at = Now(a)
<1> DEFINE held == a.positions[s]
           x == a.excursions[s]
           gain == Gain(held, price) * quantity
           seen == IF x = NoExcursion THEN NoExcursion
                   ELSE Extended(Snapshot(x, quantity, held.quantity), gain, gain)
<1>1. held \in Positions /\ x \in Excursions \union {NoExcursion} /\ NoExcursion \notin Excursions
  BY AccountAssumption DEF Accounts
<1>2. Now(a) \in Nat
  BY NowType
<1>3. (price - held.entry) * held.side * quantity * ContractSize = gain /\ gain \in Int
  BY <1>1, PnlOfGain, GainType
<1> HIDE DEF gain, held, x
<1>4. x # NoExcursion => Snapshot(x, quantity, held.quantity) \in Excursions
  BY <1>1, SnapshotType DEF Positions
<1>5. seen \in Excursions \union {NoExcursion}
  BY <1>1, <1>3, <1>4, ExtendedType
<1>6. Trade(a, s, quantity, price, reason, last) =
        [symbol |-> s, side |-> held.side, quantity |-> quantity, entry |-> held.entry,
         exit |-> price, pnl |-> gain, id |-> held.id, opened_at |-> held.opened_at,
         closed_at |-> Now(a), reason |-> reason, excursion |-> seen,
         first |-> held.first, last |-> last, stop |-> held.stop, initial |-> held.initial,
         resized |-> held.resized, unchecked |-> held.unchecked]
  <2>1. x = NoExcursion => Snapshot(x, quantity, held.quantity) = NoExcursion
    BY DEF Snapshot
  <2>2. x # NoExcursion => Snapshot(x, quantity, held.quantity) # NoExcursion
    BY <1>1, <1>4
  <2> QED
    BY <1>3, <2>1, <2>2 DEF Trade, held, x
<1> HIDE DEF seen
<1>7. Trade(a, s, quantity, price, reason, last) \in Trades
  BY <1>1, <1>2, <1>3, <1>5, <1>6 DEF Trades, Positions
<1> QED
  BY <1>6, <1>7 DEF seen, held, x, gain

LEMMA RestType ==
  ASSUME NEW held \in Positions, NEW quantity \in Nat \ {0}
  PROVE  /\ quantity >= held.quantity => Rest(held, quantity) = NoPosition
         /\ quantity < held.quantity =>
              /\ Rest(held, quantity) \in Positions /\ Rest(held, quantity).resized
              /\ Rest(held, quantity).id = held.id /\ Rest(held, quantity).side = held.side
              /\ Rest(held, quantity).stop = held.stop
              /\ Rest(held, quantity).unchecked = held.unchecked
<1>1. CASE quantity >= held.quantity
  BY <1>1 DEF Rest, Positions
<1>2. CASE quantity < held.quantity
  <2>1. held.quantity - quantity \in Nat \ {0}
    BY <1>2 DEF Positions
  <2>2. Rest(held, quantity)
          = [held EXCEPT !.quantity = held.quantity - quantity, !.resized = TRUE]
    BY <1>2 DEF Rest, Positions
  <2> DEFINE left == held.quantity - quantity
             p == Rest(held, quantity)
  <2> HIDE DEF left
  <2>3. /\ p \in Positions /\ p.id = held.id /\ p.side = held.side
        /\ p.stop = held.stop /\ p.unchecked = held.unchecked
    BY <2>1, <2>2 DEF Positions, left
  <2>4. p.resized = TRUE
    BY <2>2 DEF Positions
  <2> QED
    BY <1>2, <2>3, <2>4 DEF Positions
<1>3. held.quantity \in Int
  BY DEF Positions
<1> QED
  BY <1>1, <1>2, <1>3

LEMMA OpenedType ==
  ASSUME NEW a \in Accounts, NEW o \in Orders, NEW quantity \in Nat \ {0}, NEW price \in Int,
         Len(a.bars[o.symbol]) >= 1
  PROVE  LET p == Opened(a, o, quantity, price)
         IN  /\ BarsMet(a, o) \in Nat
             /\ p \in Positions
             /\ p.side = o.side /\ p.stop = o.stop /\ p.initial = o.stop /\ p.id = o.id
             /\ p.first = BarsMet(a, o) + 1 /\ Whole(p)
<1>1. o.symbol \in Symbols
  BY DEF Orders
<1>2. Now(a) \in Nat /\ Len(a.bars[o.symbol]) \in Nat
  <2>1. a.bars[o.symbol] \in Seq(Bars)
    BY <1>1 DEF Accounts
  <2> QED
    BY <1>1, <2>1, NowType
<1>3. BarsMet(a, o) \in Nat
  BY <1>2 DEF BarsMet
<1>4. Opened(a, o, quantity, price) \in Positions
  BY <1>2, <1>3 DEF Opened, Positions, Orders
<1> QED
  BY <1>3, <1>4 DEF Opened, Whole

LEMMA EnlargedType ==
  ASSUME NEW held \in Positions, NEW o \in Orders, NEW quantity \in Nat \ {0}, NEW price \in Int
  PROVE  LET p == Enlarged(held, o, quantity, price)
         IN  /\ p \in Positions /\ p.resized
             /\ p.side = held.side /\ p.id = held.id /\ p.unchecked = held.unchecked
<1> DEFINE total == held.quantity + quantity
           paid  == held.entry * held.quantity + price * quantity
<1>1. total \in Nat \ {0} /\ held.entry \in Int /\ held.quantity \in Int
  BY DEF Positions
<1>2. paid \in Int
  BY <1>1
<1>3. paid \div total \in Int
  <2> HIDE DEF paid, total
  <2> QED
    BY <1>1, <1>2
<1>4. Or(o.stop, held.stop) \in Prices /\ Or(o.target, held.target) \in Prices
  BY DEF Or, Orders, Positions
<1> QED
  BY <1>1, <1>3, <1>4 DEF Enlarged, Positions

-----------------------------------------------------------------------------
(* What the parts of a fill change *)

Reduces(a, b, s, quantity, price, reason, last) ==
  /\ b \in Accounts
  /\ b.bars = a.bars /\ b.orders = a.orders /\ b.last_id = a.last_id /\ b.raised = a.raised
  /\ b.closed = Append(a.closed, Trade(a, s, quantity, price, reason, last))
  /\ b.cash = a.cash + Trade(a, s, quantity, price, reason, last).pnl
  /\ OthersKept(s, a, b)
  /\ b.positions[s] = Rest(a.positions[s], quantity)
  /\ b.excursions[s] = IF quantity >= a.positions[s].quantity THEN NoExcursion ELSE a.excursions[s]

Increases(a, b, o, quantity, price) ==
  /\ b \in Accounts
  /\ b.bars = a.bars /\ b.orders = a.orders /\ b.last_id = a.last_id
  /\ b.raised = a.raised /\ b.closed = a.closed /\ b.cash = a.cash
  /\ OthersKept(o.symbol, a, b)
  /\ b.positions[o.symbol] = IF a.positions[o.symbol] = NoPosition THEN Opened(a, o, quantity, price)
                             ELSE Enlarged(a.positions[o.symbol], o, quantity, price)
  /\ b.excursions[o.symbol] = a.excursions[o.symbol]

Marks(a, b, i, status) ==
  /\ b \in Accounts
  /\ b.bars = a.bars /\ b.last_id = a.last_id /\ b.closed = a.closed /\ b.cash = a.cash
  /\ b.positions = a.positions /\ b.excursions = a.excursions
  /\ DOMAIN b.orders = DOMAIN a.orders
  /\ \A j \in DOMAIN a.orders : j # i => b.orders[j] = a.orders[j]
  /\ b.orders[i].id = a.orders[i].id /\ b.orders[i].side = a.orders[i].side
  /\ b.orders[i].type = a.orders[i].type
  /\ b.orders[i].reduce_only = a.orders[i].reduce_only
  /\ b.orders[i].status = status

LEMMA ReduceChanges ==
  ASSUME NEW a \in Accounts, NEW s \in Symbols, a.positions[s] # NoPosition,
         NEW quantity \in Nat \ {0}, NEW price \in Int, NEW reason \in Reasons, NEW last \in Nat
  PROVE  Reduces(a, Reduce(a, s, quantity, price, reason, last), s, quantity, price, reason, last)
<1> DEFINE t == Trade(a, s, quantity, price, reason, last)
           rest == Rest(a.positions[s], quantity)
           x == IF quantity >= a.positions[s].quantity THEN NoExcursion ELSE a.excursions[s]
<1>1. t \in Trades /\ t.pnl \in Int
  BY TradeType DEF Trades
<1>2. rest \in Positions \union {NoPosition}
  <2>1. a.positions[s] \in Positions
    BY DEF Accounts
  <2>2. quantity >= a.positions[s].quantity \/ quantity < a.positions[s].quantity
    BY <2>1 DEF Positions
  <2> QED
    BY <2>1, <2>2, RestType
<1>3. x \in Excursions \union {NoExcursion}
  BY DEF Accounts
<1>4. Reduce(a, s, quantity, price, reason, last)
        = [a EXCEPT !.cash = a.cash + t.pnl, !.closed = Append(a.closed, t),
                    !.positions = [a.positions EXCEPT ![s] = rest],
                    !.excursions = [a.excursions EXCEPT ![s] = x]]
  BY DEF Reduce, Accounts
<1> HIDE DEF t, rest, x
<1>5. /\ a.cash + t.pnl \in Int /\ Append(a.closed, t) \in Seq(Trades)
      /\ [a.positions EXCEPT ![s] = rest] \in [Symbols -> Positions \union {NoPosition}]
      /\ [a.excursions EXCEPT ![s] = x] \in [Symbols -> Excursions \union {NoExcursion}]
  BY <1>1, <1>2, <1>3, AppendProperties DEF Accounts
<1> QED
  BY ZenonT(60), <1>4, <1>5 DEF Reduces, Accounts, OthersKept, t, rest, x

LEMMA OpenChanges ==
  ASSUME NEW a \in Accounts, NEW o \in Orders, NEW quantity \in Nat \ {0}, NEW price \in Int,
         Len(a.bars[o.symbol]) >= 1
  PROVE  Increases(a, OpenPosition(a, o, quantity, price), o, quantity, price)
<1> DEFINE s == o.symbol
           p == IF a.positions[s] = NoPosition THEN Opened(a, o, quantity, price)
                ELSE Enlarged(a.positions[s], o, quantity, price)
<1>1. s \in Symbols
  BY DEF Orders
<1>2. p \in Positions
  <2>1. CASE a.positions[s] = NoPosition
    BY <2>1, OpenedType
  <2>2. CASE a.positions[s] # NoPosition
    <3>1. a.positions[s] \in Positions
      BY <1>1, <2>2 DEF Accounts
    <3> QED
      BY <2>2, <3>1, EnlargedType
  <2> QED
    BY <2>1, <2>2
<1>3. OpenPosition(a, o, quantity, price)
        = [a EXCEPT !.positions = [a.positions EXCEPT ![s] = p]]
  BY <1>1 DEF OpenPosition, Accounts
<1> HIDE DEF p
<1>4. [a.positions EXCEPT ![s] = p] \in [Symbols -> Positions \union {NoPosition}]
  BY <1>1, <1>2 DEF Accounts
<1> QED
  BY ZenonT(60), <1>1, <1>3, <1>4 DEF Increases, Accounts, OthersKept, p

\* An order that is filled or rejected.
LEMMA StatusChanges ==
  ASSUME NEW a \in Accounts, NEW i \in DOMAIN a.orders, NEW quantity \in Nat, NEW price \in Int
  PROVE  /\ Marks(a, Filled(a, i, quantity, price), i, "filled")
         /\ Filled(a, i, quantity, price).raised = a.raised
         /\ Marks(a, Rejected(a, i), i, "rejected") /\ Rejected(a, i).raised
<1> DEFINE o == a.orders[i]
<1>1. o \in Orders /\ a.orders \in Seq(Orders)
  BY ElementOfSeq DEF Accounts
<1>2. ASSUME NEW p \in Orders
      PROVE  /\ [a.orders EXCEPT ![i] = p] \in Seq(Orders)
             /\ DOMAIN [a.orders EXCEPT ![i] = p] = DOMAIN a.orders
             /\ [a.orders EXCEPT ![i] = p][i] = p
             /\ \A j \in DOMAIN a.orders : j # i => [a.orders EXCEPT ![i] = p][j] = a.orders[j]
  BY <1>1, ExceptSeq
<1>3. Marks(a, Filled(a, i, quantity, price), i, "filled")
      /\ Filled(a, i, quantity, price).raised = a.raised
  <2> DEFINE p == [o EXCEPT !.status = "filled", !.filled = quantity, !.average = price]
             b == Filled(a, i, quantity, price)
  <2>1. /\ p \in Orders /\ p.status = "filled" /\ p.id = o.id /\ p.side = o.side /\ p.type = o.type
        /\ p.reduce_only = o.reduce_only
    BY <1>1 DEF Orders, Prices, Terminal
  <2>2. b = [a EXCEPT !.orders = [a.orders EXCEPT ![i] = p]]
    BY <1>1 DEF Filled, Accounts
  <2> HIDE DEF p, b
  <2>3. Marks(a, b, i, "filled") /\ b.raised = a.raised
    BY <1>2, <2>1, <2>2 DEF Accounts, Marks
  <2> QED
    BY <2>3 DEF b
<1>4. Marks(a, Rejected(a, i), i, "rejected") /\ Rejected(a, i).raised
  <2> DEFINE p == [o EXCEPT !.status = "rejected"]
             b == Rejected(a, i)
  <2>1. /\ p \in Orders /\ p.status = "rejected" /\ p.id = o.id /\ p.side = o.side /\ p.type = o.type
        /\ p.reduce_only = o.reduce_only
    BY <1>1 DEF Orders, Terminal
  <2>2. b = [a EXCEPT !.orders = [a.orders EXCEPT ![i] = p], !.raised = TRUE]
    BY <1>1 DEF Rejected, Accounts
  <2> HIDE DEF p, b
  <2>3. Marks(a, b, i, "rejected") /\ b.raised
    BY <1>2, <2>1, <2>2 DEF Accounts, Marks
  <2> QED
    BY <2>3 DEF b
<1> QED
  BY <1>3, <1>4

-----------------------------------------------------------------------------
(* What a fill of order i of account a, that makes it account b, can be *)

ClosesSome(a, b, i, price, reason) ==
  LET o == a.orders[i]
      s == o.symbol
      held == a.positions[s]
  IN  /\ held # NoPosition /\ held.side # o.side
      /\ \E quantity \in 1..held.quantity :
           /\ b.closed = Append(a.closed, Trade(a, s, quantity, price, reason, BarsMet(a, o)))
           /\ \/ /\ b.positions[s] = Rest(held, quantity)
                 /\ b.excursions[s] = IF quantity >= held.quantity THEN NoExcursion
                                      ELSE a.excursions[s]
              \/ /\ ~o.reduce_only /\ b.excursions[s] = NoExcursion
                 /\ \E rest \in Nat \ {0} : b.positions[s] = Opened(a, o, rest, price)

Opens(a, b, i, price) ==
  LET o == a.orders[i]
      s == o.symbol
  IN  /\ a.positions[s] = NoPosition /\ ~o.reduce_only
      /\ b.positions[s] = Opened(a, o, o.quantity, price)
      /\ b.closed = a.closed /\ b.excursions[s] = a.excursions[s]

Adds(a, b, i, price) ==
  LET o == a.orders[i]
      s == o.symbol
  IN  /\ a.positions[s] # NoPosition /\ a.positions[s].side = o.side /\ ~o.reduce_only
      /\ b.positions[s] = Enlarged(a.positions[s], o, o.quantity, price)
      /\ b.closed = a.closed /\ b.excursions[s] = a.excursions[s]

\* Nothing but the order, and its symbol's position and excursion, and the trades.
Touches(a, b, i) ==
  /\ b.bars = a.bars /\ b.last_id = a.last_id
  /\ DOMAIN b.orders = DOMAIN a.orders
  /\ \A j \in DOMAIN a.orders : j # i => b.orders[j] = a.orders[j]
  /\ b.orders[i].id = a.orders[i].id /\ b.orders[i].side = a.orders[i].side
  /\ b.orders[i].reduce_only = a.orders[i].reduce_only
  /\ OthersKept(a.orders[i].symbol, a, b)

Refuses(a, b, i) ==
  /\ b.raised /\ b.orders[i].status = "rejected"
  /\ b.positions = a.positions /\ b.excursions = a.excursions /\ b.closed = a.closed

\* An order against the position.
LEMMA AgainstChanges ==
  ASSUME NEW a \in Accounts, NEW o \in Orders, NEW price \in Int, NEW reason \in Reasons,
         Len(a.bars[o.symbol]) >= 1, a.positions[o.symbol] # NoPosition
  PROVE  \E quantity \in Nat \ {0} :
           /\ quantity = Lesser(a.positions[o.symbol].quantity, o.quantity)
           /\ quantity \in 1..a.positions[o.symbol].quantity
           /\ Reduces(a, Against(a, o, price, reason), o.symbol, quantity, price, reason,
                      BarsMet(a, o))
<1> DEFINE s == o.symbol
           held == a.positions[s]
           quantity == Lesser(held.quantity, o.quantity)
<1>1. s \in Symbols /\ held \in Positions
  BY DEF Accounts, Orders
<1>2. quantity \in 1..held.quantity /\ quantity \in Nat \ {0}
  BY <1>1 DEF Positions, Orders, Lesser
<1>3. BarsMet(a, o) \in Nat
  BY OpenedType
<1>4. Against(a, o, price, reason) = Reduce(a, s, quantity, price, reason, BarsMet(a, o))
  BY DEF Against
<1>5. Reduces(a, Reduce(a, s, quantity, price, reason, BarsMet(a, o)), s, quantity, price, reason,
              BarsMet(a, o))
  <2> HIDE DEF quantity, s
  <2> QED
    BY <1>1, <1>2, <1>3, ReduceChanges DEF s
<1> HIDE DEF quantity
<1> QED
  BY <1>2, <1>4, <1>5 DEF quantity

\* An order that turns a position around.
LEMMA TurnChanges ==
  ASSUME NEW a \in Accounts, NEW i \in DOMAIN a.orders, NEW price \in Int, NEW reason \in Reasons,
         Len(a.bars[a.orders[i].symbol]) >= 1, ~a.orders[i].reduce_only,
         a.positions[a.orders[i].symbol] # NoPosition,
         a.positions[a.orders[i].symbol].side # a.orders[i].side
  PROVE  LET b == Turn(a, a.orders[i], price, reason)
         IN  /\ b \in Accounts
             /\ b.bars = a.bars /\ b.orders = a.orders /\ b.last_id = a.last_id
             /\ b.raised = a.raised
             /\ OthersKept(a.orders[i].symbol, a, b)
             /\ ClosesSome(a, b, i, price, reason)
<1> DEFINE o == a.orders[i]
           s == o.symbol
           held == a.positions[s]
           reduced == Against(a, o, price, reason)
           rest == o.quantity - held.quantity
           b == Turn(a, o, price, reason)
<1>1. o \in Orders
  BY ElementOfSeq DEF Accounts
<1>2. s \in Symbols /\ held \in Positions /\ held.quantity \in Nat \ {0} /\ o.quantity \in Nat \ {0}
  BY <1>1 DEF Accounts, Orders, Positions
<1>3. PICK quantity \in Nat \ {0} :
        /\ quantity = Lesser(held.quantity, o.quantity) /\ quantity \in 1..held.quantity
        /\ Reduces(a, reduced, s, quantity, price, reason, BarsMet(a, o))
  BY <1>1, AgainstChanges
<1>4. CASE rest > 0
  <2>1. rest \in Nat \ {0} /\ quantity = held.quantity
    <3>1. \A m, n \in Nat \ {0} : n - m > 0 => n - m \in Nat \ {0} /\ Lesser(m, n) = m
      BY DEF Lesser
    <3>2. quantity = Lesser(held.quantity, o.quantity)
      BY <1>3
    <3> HIDE DEF held
    <3> QED
      BY <1>2, <1>4, <3>1, <3>2
  <2>2. b = OpenPosition(reduced, o, rest, price)
    BY <1>4 DEF Turn
  <2> HIDE DEF reduced, rest, b
  <2>3. reduced.positions[s] = NoPosition /\ reduced.excursions[s] = NoExcursion
    BY <1>2, <1>3, <2>1, RestType DEF Reduces
  <2>4. Opened(reduced, o, rest, price) = Opened(a, o, rest, price)
    <3>1. Now(reduced) = Now(a) /\ BarsMet(reduced, o) = BarsMet(a, o)
      BY <1>3 DEF Now, BarsMet, Reduces
    <3> QED
      BY <3>1 DEF Opened
  <2>5. Increases(reduced, b, o, rest, price)
    <3>1. reduced \in Accounts /\ Len(reduced.bars[o.symbol]) >= 1
      BY <1>3 DEF Reduces
    <3> QED
      BY <1>1, <2>1, <2>2, <3>1, OpenChanges
  <2>6. OthersKept(s, a, b)
    BY <1>3, <2>5 DEF OthersKept, Reduces, Increases
  <2>7. ClosesSome(a, b, i, price, reason)
    <3>1. b.closed = Append(a.closed, Trade(a, s, quantity, price, reason, BarsMet(a, o)))
      BY <1>3, <2>5 DEF Reduces, Increases
    <3>2. b.excursions[s] = NoExcursion /\ b.positions[s] = Opened(a, o, rest, price)
      BY <2>3, <2>4, <2>5 DEF Increases
    <3> QED
      BY <1>3, <2>1, <3>1, <3>2 DEF ClosesSome
  <2> QED
    BY <1>3, <2>5, <2>6, <2>7 DEF Reduces, Increases, b
<1>5. CASE ~(rest > 0)
  <2>1. b = reduced
    BY <1>5 DEF Turn
  <2> HIDE DEF b, reduced
  <2>2. Reduces(a, b, s, quantity, price, reason, BarsMet(a, o))
    BY <1>3, <2>1
  <2>3. ClosesSome(a, b, i, price, reason)
    BY <1>3, <2>2 DEF ClosesSome, Reduces
  <2> QED
    BY <2>2, <2>3 DEF Reduces, b
<1> QED
  BY <1>4, <1>5

LEMMA FillChanges ==
  ASSUME NEW a \in Accounts, NEW i \in DOMAIN a.orders, NEW price \in Int, NEW reason \in Reasons,
         Len(a.bars[a.orders[i].symbol]) >= 1
  PROVE  LET b == Fill(a, i, price, reason)
         IN  /\ b \in Accounts /\ Touches(a, b, i)
             /\ \/ Refuses(a, b, i)
                \/ /\ b.orders[i].status = "filled" /\ b.raised = a.raised
                   /\ ClosesSome(a, b, i, price, reason) \/ Opens(a, b, i, price) \/ Adds(a, b, i, price)
<1> DEFINE o == a.orders[i]
           s == o.symbol
           held == a.positions[s]
           b == Fill(a, i, price, reason)
<1>1. o \in Orders
  BY ElementOfSeq DEF Accounts
<1>2. s \in Symbols /\ o.quantity \in Nat \ {0} /\ (held # NoPosition => held \in Positions)
      /\ (held # NoPosition => held.quantity \in Nat)
  BY <1>1 DEF Accounts, Orders, Positions
\* An order is filled once what it fills has been done to the account.
<1>3. ASSUME NEW c \in Accounts, NEW quantity \in Nat, b = Filled(c, i, quantity, price),
             c.bars = a.bars, c.orders = a.orders, c.last_id = a.last_id, c.raised = a.raised,
             OthersKept(s, a, c),
             ClosesSome(a, c, i, price, reason) \/ Opens(a, c, i, price) \/ Adds(a, c, i, price)
      PROVE  /\ b \in Accounts /\ Touches(a, b, i)
             /\ b.orders[i].status = "filled" /\ b.raised = a.raised
             /\ ClosesSome(a, b, i, price, reason) \/ Opens(a, b, i, price) \/ Adds(a, b, i, price)
  <2> HIDE DEF b
  <2>1. Marks(c, b, i, "filled") /\ b.raised = c.raised
    <3>1. i \in DOMAIN c.orders
      BY <1>3
    <3> QED
      BY <1>3, <3>1, StatusChanges
  <2>2. Touches(a, b, i)
    BY <1>3, <2>1 DEF Touches, OthersKept, Marks
  <2>3. ClosesSome(a, b, i, price, reason) \/ Opens(a, b, i, price) \/ Adds(a, b, i, price)
    BY <1>3, <2>1 DEF ClosesSome, Opens, Adds, Marks
  <2> QED
    BY <1>3, <2>1, <2>2, <2>3 DEF Marks
<1>4. ASSUME b = Rejected(a, i)
      PROVE  b \in Accounts /\ Touches(a, b, i) /\ Refuses(a, b, i)
  <2> HIDE DEF b
  <2>1. Marks(a, b, i, "rejected") /\ b.raised
    <3>1. Marks(a, Rejected(a, i), i, "rejected") /\ Rejected(a, i).raised
      <4>1. 0 \in Nat /\ 0 \in Int
        OBVIOUS
      <4> QED
        BY <4>1, StatusChanges
    <3> QED
      BY <1>4, <3>1
  <2> QED
    BY <2>1 DEF Touches, Refuses, OthersKept, Marks
<1>5. CASE NothingToReduce(o, held)
  <2>1. b = Rejected(a, i)
    BY <1>5 DEF Fill, NothingToReduce
  <2> HIDE DEF b
  <2> QED
    BY <1>4, <2>1 DEF b
<1>6. CASE o.reduce_only /\ ~NothingToReduce(o, held)
  <2> DEFINE c == Against(a, o, price, reason)
  <2>1. held # NoPosition /\ held.side # o.side
    BY <1>6 DEF NothingToReduce
  <2>2. b = Filled(c, i, Lesser(held.quantity, o.quantity), price)
    BY <1>6 DEF Fill
  <2>3. PICK quantity \in Nat \ {0} :
          /\ quantity = Lesser(held.quantity, o.quantity) /\ quantity \in 1..held.quantity
          /\ Reduces(a, c, s, quantity, price, reason, BarsMet(a, o))
    BY <1>1, <2>1, AgainstChanges
  <2> HIDE DEF b, c
  <2>4. ClosesSome(a, c, i, price, reason)
    BY <2>1, <2>3 DEF ClosesSome, Reduces
  <2>5. b = Filled(c, i, quantity, price)
    BY <2>2, <2>3
  <2> QED
    BY <1>3, <2>3, <2>4, <2>5 DEF b, Reduces
<1>7. CASE ~o.reduce_only /\ held # NoPosition /\ held.side # o.side
  <2> DEFINE c == Turn(a, o, price, reason)
  <2>1. b = Filled(c, i, o.quantity, price)
    BY <1>7 DEF Fill, NothingToReduce
  <2>2. /\ c \in Accounts
        /\ c.bars = a.bars /\ c.orders = a.orders /\ c.last_id = a.last_id /\ c.raised = a.raised
        /\ OthersKept(s, a, c) /\ ClosesSome(a, c, i, price, reason)
    BY <1>7, TurnChanges
  <2> HIDE DEF b, c
  <2> QED
    BY <1>2, <1>3, <2>1, <2>2 DEF b
<1>8. CASE ~o.reduce_only /\ (held = NoPosition \/ held.side = o.side)
  <2> DEFINE c == OpenPosition(a, o, o.quantity, price)
  <2>1. b = Filled(c, i, o.quantity, price) \/ b = Rejected(a, i)
    BY <1>8 DEF Fill, NothingToReduce
  <2>2. Increases(a, c, o, o.quantity, price)
    BY <1>1, <1>2, OpenChanges
  <2> HIDE DEF b, c
  <2>3. Opens(a, c, i, price) \/ Adds(a, c, i, price)
    BY <1>8, <2>2 DEF Opens, Adds, Increases
  <2>4. CASE b = Filled(c, i, o.quantity, price)
    BY <1>2, <1>3, <2>2, <2>3, <2>4 DEF b, Increases
  <2> QED
    BY <1>4, <2>1, <2>4 DEF b
<1> QED
  <2>1. o.reduce_only \in BOOLEAN
    BY <1>1 DEF Orders
  <2> QED
    BY <1>5, <1>6, <1>7, <1>8, <2>1

-----------------------------------------------------------------------------
(* A call goes on from where each of its steps does *)

LEMMA StaysNamed ==
  ASSUME NEW o, NEW a, Named(o), Continues(o, a)
  PROVE  Named(a)
<1> SUFFICES ASSUME NEW s \in Symbols, a.positions[s] # NoPosition
             PROVE  \E i \in DOMAIN a.orders : OpenedBy(a, s, i)
  BY DEF Named
<1>1. CASE Same(o.positions[s], a.positions[s])
  <2>1. PICK i \in DOMAIN o.orders : OpenedBy(o, s, i)
    BY <1>1 DEF Named, Same
  <2>2. i \in DOMAIN a.orders /\ a.orders[i] = o.orders[i]
    BY <2>1 DEF Continues, OrdersGoOn, OpenedBy, Terminal
  <2> QED
    BY <1>1, <2>1, <2>2 DEF OpenedBy, Same
<1>2. CASE ~Same(o.positions[s], a.positions[s])
  BY <1>2 DEF Continues, NewIsNew
<1> QED
  BY <1>1, <1>2

\* No position comes back: its order was done before another took its place.
LEMMA SameThroughout ==
  ASSUME NEW o, NEW a, NEW b, NEW s \in Symbols,
         Named(o), Numbered(b), Continues(o, a), Continues(a, b),
         Same(o.positions[s], b.positions[s])
  PROVE  Same(o.positions[s], a.positions[s]) /\ Same(a.positions[s], b.positions[s])
<1>1. PICK i \in DOMAIN o.orders : OpenedBy(o, s, i)
  BY DEF Named, Same
<1>2. /\ i \in DOMAIN a.orders /\ i \in DOMAIN b.orders
      /\ a.orders[i] = o.orders[i] /\ b.orders[i] = o.orders[i]
  BY <1>1 DEF Continues, OrdersGoOn, OpenedBy, Terminal
<1>3. SUFFICES ASSUME ~Same(a.positions[s], b.positions[s])
               PROVE  FALSE
  BY DEF Same
<1>4. PICK j \in DOMAIN b.orders :
        OpenedBy(b, s, j) /\ (j \in DOMAIN a.orders => a.orders[j].status \notin Terminal)
  BY <1>3 DEF Continues, NewIsNew, Same
<1>5. j = i
  BY <1>1, <1>2, <1>4 DEF Numbered, OpenedBy, Same
<1> QED
  BY <1>1, <1>2, <1>4, <1>5 DEF OpenedBy, Terminal

LEMMA ContinuesOn ==
  ASSUME NEW o \in Accounts, NEW a \in Accounts, NEW b \in Accounts, Named(o), Numbered(b),
         Continues(o, a), Continues(a, b)
  PROVE  Continues(o, b)
<1>1. OrdersGoOn(o, b)
  BY DEF Continues, OrdersGoOn
<1>2. NewIsNew(o, b)
  <2> SUFFICES ASSUME NEW s \in Symbols, b.positions[s] # NoPosition,
                      ~Same(o.positions[s], b.positions[s])
               PROVE  \E i \in DOMAIN b.orders :
                        OpenedBy(b, s, i)
                        /\ (i \in DOMAIN o.orders => o.orders[i].status \notin Terminal)
    BY DEF NewIsNew
  <2>1. CASE Same(a.positions[s], b.positions[s])
    <3>1. PICK i \in DOMAIN a.orders :
            OpenedBy(a, s, i) /\ (i \in DOMAIN o.orders => o.orders[i].status \notin Terminal)
      BY <2>1 DEF Continues, NewIsNew, Same
    <3>2. i \in DOMAIN b.orders /\ b.orders[i] = a.orders[i]
      BY <3>1 DEF Continues, OrdersGoOn, OpenedBy, Terminal
    <3> QED
      BY <2>1, <3>1, <3>2 DEF OpenedBy, Same
  <2>2. CASE ~Same(a.positions[s], b.positions[s])
    <3>1. PICK i \in DOMAIN b.orders :
            OpenedBy(b, s, i) /\ (i \in DOMAIN a.orders => a.orders[i].status \notin Terminal)
      BY <2>2 DEF Continues, NewIsNew
    <3> QED
      BY <3>1 DEF Continues, OrdersGoOn
  <2> QED
    BY <2>1, <2>2
<1>3. StopsGoOn(o, b)
  <2> SUFFICES ASSUME NEW s \in Symbols, Same(o.positions[s], b.positions[s])
               PROVE  /\ o.positions[s].side = b.positions[s].side
                      /\ Weaker(o.positions[s], b.positions[s]) => Added(o, b, o.positions[s])
    BY DEF StopsGoOn
  <2> DEFINE p == o.positions[s]
             q == a.positions[s]
             r == b.positions[s]
  <2>1. Same(p, q) /\ Same(q, r)
    BY SameThroughout
  <2>2. p.side = q.side /\ q.side = r.side
    BY <2>1 DEF Continues, StopsGoOn
  <2>3. p \in Positions /\ q \in Positions /\ r \in Positions
    BY <2>1 DEF Same, Accounts
  <2>4. Weaker(p, r) => Weaker(p, q) \/ Weaker(q, r)
    <3> HIDE DEF p, q, r
    <3>1. p.side \in Int /\ {p.stop, q.stop, r.stop} \subseteq Prices
      BY <2>3 DEF Positions
    <3>2. /\ p.stop # NoPrice => p.stop * p.side \in Int
          /\ q.stop # NoPrice => q.stop * p.side \in Int
          /\ r.stop # NoPrice => r.stop * p.side \in Int
      BY <3>1 DEF Prices
    <3> QED
      BY <2>2, <3>2 DEF Weaker, Worsens
  <2>5. ASSUME Weaker(p, q) PROVE Added(o, b, p)
    <3>1. Added(o, a, p)
      BY <2>1, <2>5 DEF Continues, StopsGoOn
    <3> HIDE DEF p
    <3>2. PICK i \in DOMAIN a.orders :
            /\ a.orders[i].side = p.side /\ a.orders[i].status = "filled"
            /\ i \in DOMAIN o.orders => o.orders[i].status # "filled"
      BY <3>1 DEF Added
    <3>3. i \in DOMAIN b.orders /\ b.orders[i] = a.orders[i]
      BY <3>2 DEF Continues, OrdersGoOn, Terminal
    <3> QED
      BY <3>2, <3>3 DEF Added
  <2>6. ASSUME Weaker(q, r) PROVE Added(o, b, p)
    <3>1. Added(a, b, q)
      BY <2>1, <2>6 DEF Continues, StopsGoOn
    <3> HIDE DEF p, q
    <3>2. PICK i \in DOMAIN b.orders :
            /\ b.orders[i].side = q.side /\ b.orders[i].status = "filled"
            /\ i \in DOMAIN a.orders => a.orders[i].status # "filled"
      BY <3>1 DEF Added
    <3>3. i \in DOMAIN o.orders => o.orders[i].status # "filled"
      BY <3>2 DEF Continues, OrdersGoOn, Terminal
    <3> QED
      BY <2>2, <3>2, <3>3 DEF Added
  <2> QED
    BY <2>2, <2>4, <2>5, <2>6
<1> QED
  BY <1>1, <1>2, <1>3 DEF Continues

-----------------------------------------------------------------------------
(* The trade that closing a position makes *)

LEMMA BarOf ==
  ASSUME NEW a \in Accounts, NEW s \in Symbols, NEW i \in 1..Len(a.bars[s])
  PROVE  /\ a.bars[s][i] \in Bars
         /\ a.bars[s][i].low \in Nat /\ a.bars[s][i].high \in Nat /\ a.bars[s][i].close \in Nat
         /\ a.bars[s][i].low <= a.bars[s][i].close /\ a.bars[s][i].close <= a.bars[s][i].high
<1>1. a.bars[s] \in Seq(Bars)
  BY DEF Accounts
<1>2. a.bars[s][i] \in Bars
  BY <1>1, ElementOfSeq
<1> QED
  BY <1>2, AccountAssumption

LEMMA GainsType ==
  ASSUME NEW a \in Accounts, NEW s \in Symbols, NEW p, Dealt(p),
         NEW from \in Nat \ {0}, NEW to \in Nat, to <= Len(a.bars[s])
  PROVE  Gains(p, a.bars[s], from, to) \subseteq Int
<1>1. \A i \in from..to : i \in 1..Len(a.bars[s])
  BY DEF Accounts
<1>2. \A i \in from..to : Gain(p, a.bars[s][i].low) \in Int /\ Gain(p, a.bars[s][i].high) \in Int
  <2> TAKE i \in from..to
  <2>1. a.bars[s][i].low \in Int /\ a.bars[s][i].high \in Int
    BY <1>1, BarOf
  <2> QED
    BY <2>1, GainType
<1> QED
  BY <1>2 DEF Gains

LEMMA SameGains ==
  ASSUME NEW p, NEW series, NEW other, NEW from, NEW to,
         \A i \in from..to : series[i] = other[i]
  PROVE  Gains(p, series, from, to) = Gains(p, other, from, to)
BY DEF Gains

LEMMA ClosesAsKept ==
  ASSUME NEW a \in Accounts, NEW s \in Symbols, a.positions[s] # NoPosition,
         NEW quantity \in Nat \ {0}, NEW price \in Int, NEW reason \in Reasons,
         NEW n \in Nat, n <= Len(a.bars[s]), Measured(a, s, n),
         NEW t, t = Trade(a, s, quantity, price, reason, n),
         Whole(a.positions[s]) => Bounded(t, a.bars[s])
  PROVE  t \in Trades /\ TradeKept(t, a.bars)
<1> DEFINE held == a.positions[s]
           x == a.excursions[s]
           series == a.bars[s]
           gain == Gain(held, price)
<1>1. /\ t \in Trades
      /\ t.symbol = s /\ t.side = held.side /\ t.quantity = quantity
      /\ t.entry = held.entry /\ t.exit = price /\ t.reason = reason
      /\ t.excursion = IF x = NoExcursion THEN NoExcursion
                       ELSE Extended(Snapshot(x, quantity, held.quantity),
                                     gain * quantity, gain * quantity)
      /\ t.first = held.first /\ t.last = n /\ t.stop = held.stop
      /\ t.initial = held.initial /\ t.resized = held.resized
      /\ t.unchecked = held.unchecked
  <2> HIDE DEF gain
  <2> QED
    BY TradeType DEF gain
<1>2. held \in Positions /\ held.quantity \in Nat \ {0} /\ Dealt(held) /\ gain \in Int
  <2>1. held \in Positions
    BY DEF Accounts
  <2> QED
    BY <2>1, PnlOfGain, GainType DEF Positions
<1> SUFFICES ASSUME Whole(t) PROVE Bounded(t, series) /\ Valued(t, series)
  BY <1>1 DEF TradeKept
<1>3. Whole(held)
  BY <1>1 DEF Whole
<1>4. /\ 1 <= held.first /\ held.first <= n + 1
      /\ held.first = n + 1 => x = NoExcursion
      /\ held.first <= n => x # NoExcursion /\ Spans(x, Gains(held, series, held.first, n), held.quantity)
  BY <1>3 DEF Measured
<1> HIDE DEF held, x, series, gain
<1>5. ASSUME held.first <= n
      PROVE  /\ t.excursion # NoExcursion
             /\ Spans(t.excursion, Gains(t, series, t.first, t.last) \union {Gain(t, t.exit)}, t.quantity)
  <2> DEFINE gains == Gains(held, series, held.first, n)
             y == Snapshot(x, quantity, held.quantity)
  <2>1. gains \subseteq Int
    <3>1. held.first \in Nat \ {0}
      BY <1>2, <1>4 DEF Positions
    <3> QED
      BY <1>2, <3>1, GainsType DEF series
  <2>2. gains = Gains(t, series, t.first, t.last) /\ gain = Gain(t, t.exit)
    BY <1>1 DEF Gains, Gain, gain
  <2>3. x \in Excursions /\ Spans(x, gains, held.quantity)
    BY <1>4, <1>5 DEF Accounts, x
  <2> HIDE DEF gains
  <2>4. y \in Excursions /\ Spans(y, gains, quantity)
    BY <1>2, <2>1, <2>3, SnapshotType, SpansOfShare
  <2> HIDE DEF y
  <2>5. Spans(Extended(y, gain * quantity, gain * quantity), gains \union {gain, gain}, quantity)
    <3>1. gain <= gain /\ quantity \in Nat
      BY <1>2
    <3> QED
      BY <1>2, <2>1, <2>4, <3>1, SpansExtended
  <2>6. t.excursion = Extended(y, gain * quantity, gain * quantity)
    BY <1>1, <1>4, <1>5 DEF y
  <2>7. gain * quantity \in Int
    BY <1>2
  <2>8. t.excursion \in Excursions
    BY <2>4, <2>6, <2>7, ExtendedType
  <2>9. gains \union {gain, gain} = gains \union {gain}
    OBVIOUS
  <2> QED
    BY <1>1, <2>2, <2>5, <2>6, <2>8, <2>9, AccountAssumption
<1>6. held.first = n + 1 => t.excursion = NoExcursion
  BY <1>1, <1>4
<1> QED
  BY <1>1, <1>3, <1>4, <1>5, <1>6 DEF Valued, series, held

LEMMA TradesStayKept ==
  ASSUME NEW a \in Accounts, NEW b, b.bars = a.bars, TradesKept(a),
         NEW t \in Trades, TradeKept(t, a.bars), b.closed = Append(a.closed, t)
  PROVE  TradesKept(b)
<1>1. a.closed \in Seq(Trades)
  BY DEF Accounts
<1>2. \A i \in DOMAIN b.closed :
        b.closed[i] = t \/ (i \in DOMAIN a.closed /\ b.closed[i] = a.closed[i])
  <2>1. DOMAIN Append(a.closed, t) = DOMAIN a.closed \union {Len(a.closed) + 1}
    BY <1>1, AppendProperties
  <2>2. /\ Append(a.closed, t)[Len(a.closed) + 1] = t
        /\ \A i \in DOMAIN a.closed : Append(a.closed, t)[i] = a.closed[i]
    BY <1>1, AppendProperties
  <2> QED
    BY <2>1, <2>2
<1> QED
  BY <1>2 DEF TradesKept

-----------------------------------------------------------------------------
(* What a fill keeps *)

LEMMA StopsStay ==
  ASSUME NEW a \in Accounts, NEW b, NEW s \in Symbols, a.positions[s] # NoPosition,
         b.positions[s] # NoPosition => b.positions[s].stop = a.positions[s].stop
  PROVE  b.positions[s] # NoPosition => ~Weaker(a.positions[s], b.positions[s])
<1>1. a.positions[s] \in Positions
  BY DEF Accounts
<1>2. a.positions[s].stop # NoPrice => a.positions[s].stop * a.positions[s].side \in Int
  BY <1>1 DEF Positions, Prices
<1> QED
  BY <1>2 DEF Weaker, Worsens

LEMMA FillContinues ==
  ASSUME NEW a \in Accounts, NEW b \in Accounts, NEW i \in DOMAIN a.orders, NEW price \in Int,
         NEW reason, Len(a.bars[a.orders[i].symbol]) >= 1,
         a.orders[i].status \notin Terminal, Named(a), Numbered(a), Touches(a, b, i),
         \/ Refuses(a, b, i)
         \/ /\ b.orders[i].status = "filled"
            /\ ClosesSome(a, b, i, price, reason) \/ Opens(a, b, i, price) \/ Adds(a, b, i, price)
  PROVE  Continues(a, b) /\ Numbered(b)
<1> DEFINE o == a.orders[i]
           p(s) == a.positions[s]
           q(s) == b.positions[s]
<1>1. o \in Orders /\ o.symbol \in Symbols
  <2>1. o \in Orders
    BY ElementOfSeq DEF Accounts
  <2> QED
    BY <2>1 DEF Orders
<1>2. OrdersGoOn(a, b)
  BY DEF OrdersGoOn, Touches
<1>3. Numbered(b)
  <2>1. \A j \in DOMAIN a.orders : b.orders[j].id = a.orders[j].id
    BY DEF Touches
  <2> QED
    BY <2>1 DEF Numbered, Touches
\* A new position of order i is none that there was.
<1>4. ASSUME NEW rest \in Nat \ {0}, q(o.symbol) = Opened(a, o, rest, price), ~o.reduce_only,
             b.orders[i].status = "filled"
      PROVE  ~Same(p(o.symbol), q(o.symbol)) /\ OpenedBy(b, o.symbol, i)
  <2>1. q(o.symbol).id = o.id
    BY <1>4 DEF Opened
  <2>2. OpenedBy(b, o.symbol, i)
    BY <1>4, <2>1 DEF OpenedBy, Touches
  <2>3. ASSUME Same(p(o.symbol), q(o.symbol)) PROVE FALSE
    <3>1. PICK j \in DOMAIN a.orders : OpenedBy(a, o.symbol, j)
      BY <1>1, <2>3 DEF Named, Same
    <3>2. j = i
      BY <2>1, <2>3, <3>1 DEF OpenedBy, Same, Numbered
    <3> QED
      BY <3>1, <3>2 DEF OpenedBy, Terminal
  <2> QED
    BY <2>2, <2>3
<1>5. ASSUME NEW s \in Symbols
      PROVE  /\ Same(p(s), q(s)) => p(s).side = q(s).side /\ (Weaker(p(s), q(s)) => Added(a, b, p(s)))
             /\ q(s) # NoPosition /\ ~Same(p(s), q(s)) =>
                  \E j \in DOMAIN b.orders :
                    OpenedBy(b, s, j) /\ (j \in DOMAIN a.orders => a.orders[j].status \notin Terminal)
  <2>1. CASE q(s) = p(s)
    <3>1. ~(q(s) # NoPosition /\ ~Same(p(s), q(s)))
      BY <2>1 DEF Same
    <3>2. q(s) # NoPosition => ~Weaker(p(s), q(s))
      BY <2>1, StopsStay
    <3> QED
      BY <2>1, <3>1, <3>2 DEF Same
  <2>2. CASE s = o.symbol /\ ClosesSome(a, b, i, price, reason) /\ b.orders[i].status = "filled"
    <3>1. p(s) # NoPosition /\ p(s) \in Positions
      BY <1>1, <2>2 DEF ClosesSome, Accounts
    <3>2. PICK quantity \in 1..p(s).quantity :
            \/ q(s) = Rest(p(s), quantity)
            \/ ~o.reduce_only /\ \E rest \in Nat \ {0} : q(s) = Opened(a, o, rest, price)
      BY <2>2 DEF ClosesSome
    <3>3. CASE q(s) = Rest(p(s), quantity)
      <4>1. quantity \in Nat \ {0} /\ (quantity >= p(s).quantity \/ quantity < p(s).quantity)
        BY <3>1 DEF Positions
      <4>2. \/ q(s) = NoPosition
            \/ q(s).id = p(s).id /\ q(s).side = p(s).side /\ q(s).stop = p(s).stop
        BY <3>1, <3>3, <4>1, RestType
      <4>3. q(s) # NoPosition => ~Weaker(p(s), q(s))
        BY <3>1, <4>2, StopsStay
      <4> QED
        BY <3>1, <4>2, <4>3 DEF Same
    <3>4. CASE ~o.reduce_only /\ \E rest \in Nat \ {0} : q(s) = Opened(a, o, rest, price)
      <4>1. ~Same(p(s), q(s)) /\ OpenedBy(b, s, i)
        BY <1>4, <2>2, <3>4
      <4> QED
        BY <4>1 DEF Touches
    <3> QED
      BY <3>2, <3>3, <3>4
  <2>3. CASE s = o.symbol /\ Opens(a, b, i, price) /\ b.orders[i].status = "filled"
    <3>1. ~Same(p(s), q(s)) /\ OpenedBy(b, s, i)
      BY <1>1, <1>4, <2>3 DEF Opens, Orders
    <3> QED
      BY <3>1 DEF Touches
  <2>4. CASE s = o.symbol /\ Adds(a, b, i, price) /\ b.orders[i].status = "filled"
    <3>1. p(s) \in Positions /\ q(s).side = p(s).side /\ q(s).id = p(s).id /\ q(s) # NoPosition
      <4>1. p(s) \in Positions /\ o.quantity \in Nat \ {0} /\ q(s) = Enlarged(p(s), o, o.quantity, price)
        BY <1>1, <2>4 DEF Adds, Accounts, Orders
      <4> DEFINE held == p(s)
                 larger == Enlarged(held, o, o.quantity, price)
      <4>2. larger \in Positions /\ larger.side = held.side /\ larger.id = held.id
        <5> HIDE DEF held
        <5> QED
          BY <1>1, <4>1, EnlargedType DEF held
      <4> HIDE DEF larger
      <4> QED
        BY <4>1, <4>2, AccountAssumption DEF larger
    <3>2. Added(a, b, p(s))
      BY <2>4 DEF Added, Adds, Touches, Terminal
    <3> QED
      BY <2>4, <3>1, <3>2 DEF Same, Adds
  <2> QED
    BY <2>1, <2>2, <2>3, <2>4 DEF Touches, Refuses, OthersKept
<1> QED
  BY <1>2, <1>3, <1>5 DEF Continues, StopsGoOn, NewIsNew

\* An exit at the market is made at a price near the last close.
NearClose(a, i, price) ==
  LET o == a.orders[i]
  IN  /\ CloseKept(a, o.symbol)
      /\ price = Close(a, o.symbol) + HalfSpread * o.side + Slippage * o.side

LEMMA FillKeeps ==
  ASSUME NEW a \in Accounts, NEW i \in DOMAIN a.orders, NEW price \in Int,
         NEW reason \in {"signal", "exit"}, NEW s \in Symbols, s = a.orders[i].symbol,
         NEW n \in Nat, n = BarsMet(a, a.orders[i]), Standing(a, s, n),
         a.orders[i].status \notin Terminal, reason = "exit" => NearClose(a, i, price),
         NEW b, b = Fill(a, i, price, reason)
  PROVE  /\ Standing(b, s, n) /\ Continues(a, b)
         /\ Touches(a, b, i) /\ b.orders[i].status \in {"filled", "rejected"}
         /\ b.positions[s] = NoPosition \/ b.positions = a.positions \/ ~Whole(b.positions[s])
            \/ \E rest \in Nat \ {0} : b.positions[s] = Opened(a, a.orders[i], rest, price)
<1> DEFINE o == a.orders[i]
           p == a.positions[s]
           q == b.positions[s]
           filled == /\ b.orders[i].status = "filled"
                     /\ \/ ClosesSome(a, b, i, price, reason) \/ Opens(a, b, i, price)
                        \/ Adds(a, b, i, price)
<1>1. o \in Orders /\ s \in Symbols /\ o.quantity \in Nat \ {0} /\ o.side \in {1, -1}
      /\ Len(a.bars[s]) >= 1 /\ a.bars[s] \in Seq(Bars) /\ reason \in Reasons /\ n <= Len(a.bars[s])
  <2>1. o \in Orders
    BY ElementOfSeq DEF Accounts
  <2>2. a.bars[s] \in Seq(Bars) /\ Len(a.bars[s]) >= 1
    BY DEF Accounts, Standing, Displays
  <2>3. n <= Len(a.bars[s])
    <3>1. Len(a.bars[s]) \in Nat
      BY <2>2
    <3>2. n = Len(a.bars[s]) \/ n = Len(a.bars[s]) - 1
      <4>1. CASE o.type = "market"
        BY <3>1, <4>1 DEF BarsMet
      <4>2. CASE o.type # "market"
        BY <3>1, <4>2 DEF BarsMet
      <4> QED
        BY <4>1, <4>2
    <3> QED
      BY <3>1, <3>2
  <2> QED
    BY <2>1, <2>2, <2>3 DEF Orders, Reasons
<1>2. b \in Accounts /\ Touches(a, b, i) /\ (Refuses(a, b, i) \/ filled)
  BY <1>1, FillChanges
<1>3. Continues(a, b) /\ Numbered(b)
  BY <1>1, <1>2, FillContinues DEF Standing
<1>4. Named(b)
  BY <1>3, StaysNamed DEF Standing
<1>5. Displays(b)
  BY <1>2 DEF Touches, Standing, Displays
<1> DEFINE opened == ~o.reduce_only /\ \E rest \in Nat \ {0} : q = Opened(a, o, rest, price)
\* What the symbol has afterwards.
<1>6. \/ q = p /\ b.positions = a.positions /\ b.excursions = a.excursions /\ b.closed = a.closed
      \/ q = NoPosition /\ b.excursions[s] = NoExcursion
      \/ q \in Positions /\ ~Whole(q) /\ b.excursions[s] \in {a.excursions[s], NoExcursion}
      \/ opened /\ b.excursions[s] = NoExcursion
  <2>1. CASE Refuses(a, b, i)
    BY <2>1 DEF Refuses
  <2>2. CASE ClosesSome(a, b, i, price, reason)
    <3>1. p # NoPosition /\ p \in Positions
      BY <1>1, <2>2 DEF ClosesSome, Accounts
    <3>2. PICK quantity \in 1..p.quantity :
            \/ /\ q = Rest(p, quantity)
               /\ b.excursions[s] = IF quantity >= p.quantity THEN NoExcursion ELSE a.excursions[s]
            \/ opened /\ b.excursions[s] = NoExcursion
      BY <2>2 DEF ClosesSome
    <3>3. quantity \in Nat \ {0} /\ (quantity >= p.quantity \/ quantity < p.quantity)
          /\ ~(quantity >= p.quantity /\ quantity < p.quantity)
      BY <3>1 DEF Positions
    <3>4. \/ quantity >= p.quantity /\ Rest(p, quantity) = NoPosition
          \/ /\ ~(quantity >= p.quantity)
             /\ Rest(p, quantity) \in Positions /\ Rest(p, quantity).resized
      BY <3>1, <3>3, RestType
    <3> HIDE DEF opened
    <3> QED
      BY <3>2, <3>4 DEF Whole
  <2>3. CASE Opens(a, b, i, price)
    <3>1. p = NoPosition /\ opened /\ b.excursions[s] = a.excursions[s]
      BY <1>1, <2>3 DEF Opens
    <3> HIDE DEF opened
    <3>2. a.excursions[s] = NoExcursion
      BY <3>1 DEF Standing, Measured
    <3> QED
      BY <3>1, <3>2
  <2>4. CASE Adds(a, b, i, price)
    <3>1. p \in Positions /\ q = Enlarged(p, o, o.quantity, price)
          /\ b.excursions[s] = a.excursions[s]
      BY <1>1, <2>4 DEF Adds, Accounts
    <3>2. q \in Positions /\ q.resized
      <4> DEFINE quantity == o.quantity
      <4>1. o \in Orders /\ quantity \in Nat \ {0} /\ price \in Int
        BY <1>1
      <4>2. q = Enlarged(p, o, quantity, price)
        BY <3>1
      <4> HIDE DEF p, q, o, quantity
      <4> QED
        BY <3>1, <4>1, <4>2, EnlargedType
    <3> HIDE DEF q, p
    <3> QED
      BY <3>1, <3>2 DEF Whole
  <2> HIDE DEF opened, q, p
  <2> QED
    BY <1>2, <2>1, <2>2, <2>3, <2>4
<1>7. opened => q \in Positions /\ q.first = n + 1 /\ q.stop = q.initial /\ q # NoPosition
  <2> SUFFICES ASSUME NEW rest \in Nat \ {0}, q = Opened(a, o, rest, price)
               PROVE  q \in Positions /\ q.first = n + 1 /\ q.stop = q.initial /\ q # NoPosition
    OBVIOUS
  <2> QED
    BY <1>1, OpenedType, AccountAssumption
<1>8. Signed(b)
  <2>1. \A r \in Symbols : b.excursions[r] \in {a.excursions[r], NoExcursion}
    BY <1>2, <1>6 DEF Touches, OthersKept
  <2> QED
    BY <2>1 DEF Signed, Standing
<1>9. Measured(b, s, n)
  <2>1. CASE q = p /\ b.excursions = a.excursions
    BY <1>2, <2>1 DEF Measured, Standing, Touches
  <2>2. CASE opened /\ b.excursions[s] = NoExcursion
    <3> HIDE DEF opened
    <3>1. ~(q.first <= n) /\ 1 <= q.first /\ q.first <= n + 1 /\ q # NoPosition
      BY <1>7, <2>2
    <3> QED
      BY <2>2, <3>1 DEF Measured
  <2>3. CASE q = NoPosition /\ b.excursions[s] = NoExcursion
    BY <2>3 DEF Measured
  <2>4. CASE q \in Positions /\ ~Whole(q)
    BY <2>4, AccountAssumption DEF Measured
  <2> HIDE DEF opened, q, p
  <2> QED
    BY <1>6, <2>1, <2>2, <2>3, <2>4
<1>10. StopKept(b, s)
  <2>1. CASE q = p
    BY <1>2, <2>1 DEF StopKept, Standing, Touches
  <2>2. CASE opened
    <3>1. q.stop # NoPrice => q.stop * q.side \in Int
      <4> HIDE DEF q, opened
      <4> QED
        BY <1>7, <2>2 DEF Positions, Prices
    <3> QED
      BY <1>7, <2>2, <3>1 DEF StopKept
  <2>3. CASE q = NoPosition \/ ~Whole(q)
    BY <2>3 DEF StopKept
  <2> HIDE DEF opened, q, p
  <2> QED
    BY <1>6, <2>1, <2>2, <2>3
<1>11. TradesKept(b)
  <2>1. CASE b.closed = a.closed
    BY <1>2, <2>1 DEF TradesKept, Standing, Touches
  <2>2. CASE ClosesSome(a, b, i, price, reason)
    <3>1. p # NoPosition /\ p.side # o.side /\ p \in Positions
      BY <1>1, <2>2 DEF ClosesSome, Accounts
    <3>2. PICK quantity \in 1..p.quantity :
            b.closed = Append(a.closed, Trade(a, s, quantity, price, reason, n))
      BY <2>2 DEF ClosesSome
    <3> DEFINE t == Trade(a, s, quantity, price, reason, n)
    <3>3. quantity \in Nat \ {0}
      BY <3>1 DEF Positions
    <3>4. t.reason = reason /\ t.exit = price /\ t.side = p.side /\ t.initial = p.initial
      BY DEF Trade
    <3>5. Whole(p) => Bounded(t, a.bars[s])
      <4> SUFFICES ASSUME Whole(p), t.initial # NoPrice, reason = "exit"
                   PROVE  t.exit * t.side >= t.initial * t.side - 2 * HalfSpread - Slippage
        <5> HIDE DEF t
        <5> QED
          BY <3>4 DEF Bounded
      <4>1. /\ price = Close(a, s) + HalfSpread * o.side + Slippage * o.side
            /\ p.initial * p.side - HalfSpread <= Close(a, s) * p.side
        BY <3>1, <3>4 DEF NearClose, CloseKept
      <4>2. Close(a, s) \in Int
        <5>1. Len(a.bars[s]) \in 1..Len(a.bars[s])
          BY <1>1
        <5> QED
          BY <5>1, BarOf DEF Close, Last
      <4>3. p.side \in {1, -1} /\ o.side = -p.side /\ p.initial \in Int
        <5> HIDE DEF p, o
        <5>1. p.side \in {1, -1} /\ p.initial \in Int
          BY <3>1, <3>4 DEF Positions, Prices
        <5> QED
          BY <1>1, <3>1, <5>1
      <4>4. HalfSpread \in Int /\ Slippage \in Int
        BY AccountAssumption
      <4> HIDE DEF t, p, o
      <4> QED
        BY <3>4, <4>1, <4>2, <4>3, <4>4
    <3>6. t \in Trades /\ TradeKept(t, a.bars)
      <4>1. Measured(a, s, n)
        BY DEF Standing
      <4> HIDE DEF t
      <4> QED
        BY <1>1, <3>1, <3>3, <3>5, <4>1, ClosesAsKept DEF t
    <3>7. b.bars = a.bars /\ TradesKept(a)
      BY <1>2 DEF Touches, Standing
    <3> HIDE DEF t
    <3> QED
      BY <3>2, <3>6, <3>7, TradesStayKept DEF t
  <2> QED
    BY <1>2, <2>1, <2>2 DEF Refuses, Opens, Adds
<1>12. b.orders[i].status \in {"filled", "rejected"}
  BY <1>2 DEF Refuses
<1> HIDE DEF q, p
<1> QED
  BY <1>2, <1>3, <1>4, <1>5, <1>6, <1>8, <1>9, <1>10, <1>11, <1>12 DEF Standing, q

-----------------------------------------------------------------------------
(* The loop over the orders *)

\* Where orders and stops are as they were, and positions at most gone.
LEMMA LittleChanges ==
  ASSUME NEW a \in Accounts, NEW b, b.orders = a.orders,
         \A s \in Symbols : b.positions[s] # NoPosition =>
           /\ a.positions[s] # NoPosition /\ b.positions[s].id = a.positions[s].id
           /\ b.positions[s].side = a.positions[s].side
           /\ b.positions[s].stop = a.positions[s].stop
  PROVE  Continues(a, b)
<1>1. OrdersGoOn(a, b) /\ NewIsNew(a, b)
  BY DEF OrdersGoOn, NewIsNew, Same
<1>2. StopsGoOn(a, b)
  <2>1. \A s \in Symbols : Same(a.positions[s], b.positions[s]) => ~Weaker(a.positions[s], b.positions[s])
    <3> TAKE s \in Symbols
    <3> HAVE Same(a.positions[s], b.positions[s])
    <3> QED
      BY StopsStay DEF Same
  <2> QED
    BY <2>1 DEF StopsGoOn, Same
<1> QED
  BY <1>1, <1>2 DEF Continues

\* One order of the loop.
LEMMA PendingStepKeeps ==
  ASSUME NEW o \in Accounts, Named(o), NEW s \in Symbols, NEW i \in DOMAIN o.orders,
         NEW a \in Within(s, o)
  PROVE  PendingStep(s, a, i) \in Within(s, o)
<1> DEFINE n == Len(a.bars[s]) - 1
           b == Fill(a, i, a.orders[i].trigger, "signal")
<1>1. /\ Standing(a, s, n) /\ Settled(a)
      /\ a.bars = o.bars /\ a.last_id = o.last_id /\ DOMAIN a.orders = DOMAIN o.orders
      /\ OthersKept(s, o, a) /\ Continues(o, a)
  BY DEF Within
<1>2. CASE ~(~a.raised /\ Pending(a, i, s) /\ Triggered(a.orders[i], Last(a.bars[s])))
  BY <1>2 DEF PendingStep
<1>3. CASE ~a.raised /\ Pending(a, i, s) /\ Triggered(a.orders[i], Last(a.bars[s]))
  <2>1. PendingStep(s, a, i) = b
    BY <1>3 DEF PendingStep
  <2>2. /\ a \in Accounts /\ i \in DOMAIN a.orders /\ a.orders[i] \in Orders
        /\ a.orders[i].trigger \in Int /\ a.orders[i].symbol = s
        /\ a.orders[i].status \notin Terminal /\ n = BarsMet(a, a.orders[i])
    <3>1. a \in Accounts /\ i \in DOMAIN a.orders
      BY <1>1 DEF Standing
    <3>2. a.orders[i] \in Orders
      BY <3>1, ElementOfSeq DEF Accounts
    <3> QED
      BY <1>3, <3>1, <3>2 DEF Orders, Prices, Pending, BarsMet
  <2>3. n \in Nat
    <3>1. Len(a.bars[s]) \in Nat /\ Len(a.bars[s]) >= 1
      BY <1>1, <2>2 DEF Standing, Displays, Accounts
    <3> QED
      BY <3>1
  <2> HIDE DEF n, b
  <2>4. /\ Standing(b, s, n) /\ Continues(a, b)
        /\ Touches(a, b, i) /\ b.orders[i].status \in {"filled", "rejected"}
    BY <1>1, <2>2, <2>3, FillKeeps DEF b
  <2>5. Continues(o, b)
    BY <1>1, <2>2, <2>4, ContinuesOn DEF Standing
  <2>6. /\ b.bars = o.bars /\ b.last_id = o.last_id /\ DOMAIN b.orders = DOMAIN o.orders
        /\ OthersKept(s, o, b)
    BY <1>1, <2>2, <2>4 DEF Touches, OthersKept
  <2>7. Settled(b)
    BY <1>1, <2>4 DEF Settled, Touches
  <2>8. b.bars = a.bars
    BY <1>1, <2>6
  <2> QED
    BY <2>1, <2>4, <2>5, <2>6, <2>7, <2>8 DEF Within, Standing, n
<1> QED
  BY <1>2, <1>3

LEMMA PendingKeeps ==
  ASSUME NEW o, NEW s \in Symbols, Standing(o, s, Len(o.bars[s]) - 1), Settled(o)
  PROVE  ProcessPendingOrders(o, s) \in Within(s, o)
<1> DEFINE seq == [i \in DOMAIN o.orders |-> i]
           m == Len(o.orders)
<1>1. o \in Accounts /\ m \in Nat /\ DOMAIN o.orders = 1..m /\ DOMAIN seq = 1..m
  <2>1. o \in Accounts
    BY DEF Standing
  <2> QED
    BY <2>1, LenProperties DEF Accounts
<1>2. ProcessPendingOrders(o, s) = Loop!Folded(s, o, seq)
  BY DEF ProcessPendingOrders, Loop!Folded, FoldLeft, MapThenFoldSet, Max,
         Loop!FoldLeft, Loop!MapThenFoldSet, Loop!Max, PendingStep
<1>3. o \in Within(s, o)
  <2>1. Continues(o, o)
    BY <1>1, LittleChanges
  <2> QED
    BY <1>1, <2>1 DEF Within, OthersKept
<1>4. ASSUME NEW i \in 1..m, NEW a \in Within(s, o)
      PROVE  PendingStep(s, a, seq[i]) \in Within(s, o)
  BY <1>1, <1>4, PendingStepKeeps DEF Standing
<1>5. Loop!Folded(s, o, seq) \in Within(s, o)
  <2> HIDE DEF seq
  <2> QED
    BY <1>1, <1>3, <1>4, Loop!FoldKeeps
<1> QED
  BY <1>2, <1>5

-----------------------------------------------------------------------------
(* What a bar keeps *)

LEMMA LastBar ==
  ASSUME NEW a \in Accounts, NEW s \in Symbols, Len(a.bars[s]) >= 1
  PROVE  LET bar == Last(a.bars[s])
         IN  /\ Len(a.bars[s]) \in 1..Len(a.bars[s]) /\ bar = a.bars[s][Len(a.bars[s])]
             /\ bar.low \in Nat /\ bar.high \in Nat /\ bar.close \in Nat
             /\ bar.low <= bar.close /\ bar.close <= bar.high
<1>1. Len(a.bars[s]) \in 1..Len(a.bars[s])
  BY DEF Accounts
<1> QED
  BY <1>1, BarOf DEF Last

\* The observation of the bar, and of no other.
LEMMA ObservedSpans ==
  ASSUME NEW a \in Accounts, NEW s \in Symbols, NEW n \in Nat, n + 1 = Len(a.bars[s]),
         Signed(a), Measured(a, s, n), NEW p, p = a.positions[s], p # NoPosition,
         NEW y, y = Observed(a.excursions[s], p, Last(a.bars[s]))
  PROVE  /\ y \in Excursions /\ y.opened_at = p.opened_at
         /\ y.favorable >= 0 /\ y.adverse <= 0
         /\ Whole(p) => p.first <= n + 1 /\ Spans(y, Gains(p, a.bars[s], p.first, n + 1), p.quantity)
<1> DEFINE x == a.excursions[s]
           w == Watched(x, p)
           bar == Last(a.bars[s])
           best == IF p.side = 1 THEN bar.high ELSE bar.low
           worst == IF p.side = 1 THEN bar.low ELSE bar.high
           gains == Gains(p, a.bars[s], p.first, n)
<1>1. p \in Positions /\ p.quantity \in Nat /\ p.opened_at \in Nat /\ p.side \in {1, -1} /\ Dealt(p)
  <2>1. p \in Positions
    BY DEF Accounts
  <2> QED
    BY <2>1 DEF Positions, Dealt
<1>2. /\ n + 1 \in 1..Len(a.bars[s]) /\ bar = a.bars[s][n + 1]
      /\ bar.low \in Nat /\ bar.high \in Nat /\ bar.low <= bar.high
  BY LastBar
<1>3. w \in Excursions /\ w.opened_at = p.opened_at /\ w.favorable >= 0 /\ w.adverse <= 0
  <2>1. x \in Excursions \union {NoExcursion}
    BY DEF Accounts
  <2> QED
    BY <1>1, <2>1 DEF Watched, Excursions, Signed
<1> HIDE DEF w, bar
<1>4. /\ Gain(p, best) \in Int /\ Gain(p, worst) \in Int /\ Gain(p, worst) <= Gain(p, best)
      /\ {Gain(p, worst), Gain(p, best)} = {Gain(p, bar.low), Gain(p, bar.high)}
      /\ best \in Int /\ worst \in Int
  <2>1. bar.low \in Int /\ bar.high \in Int
    BY <1>2
  <2>2. Gain(p, bar.low) \in Int /\ Gain(p, bar.high) \in Int
    BY <1>1, <2>1, GainType
  <2>3. IF p.side = 1 THEN Gain(p, bar.low) <= Gain(p, bar.high)
        ELSE Gain(p, bar.high) <= Gain(p, bar.low)
    BY <1>1, <1>2, <2>1, GainOrder
  <2>4. CASE p.side = 1
    BY <2>1, <2>2, <2>3, <2>4
  <2>5. CASE p.side # 1
    BY <2>1, <2>2, <2>3, <2>5
  <2> QED
    BY <2>4, <2>5
<1> HIDE DEF best, worst
<1>5. y = Extended(w, Gain(p, best) * p.quantity, Gain(p, worst) * p.quantity)
  <2>1. PnlAt(p, best) = Gain(p, best) * p.quantity /\ PnlAt(p, worst) = Gain(p, worst) * p.quantity
    BY <1>1, <1>4, PnlOfGain
  <2> QED
    BY <2>1 DEF Observed, best, worst, bar, w
<1>6. y \in Excursions /\ y.opened_at = p.opened_at /\ y.favorable >= 0 /\ y.adverse <= 0
  <2>1. Gain(p, best) * p.quantity \in Int /\ Gain(p, worst) * p.quantity \in Int
    BY <1>1, <1>4
  <2>2. /\ y \in Excursions /\ y.opened_at = w.opened_at
        /\ y.favorable >= w.favorable /\ y.adverse <= w.adverse
    BY <1>3, <1>5, <2>1, ExtendedType
  <2> QED
    BY <1>3, <2>2 DEF Excursions
<1>7. ASSUME Whole(p)
      PROVE  p.first <= n + 1 /\ Spans(y, Gains(p, a.bars[s], p.first, n + 1), p.quantity)
  <2>1. /\ 1 <= p.first /\ p.first <= n + 1 /\ p.first \in Nat \ {0}
        /\ p.first = n + 1 => x = NoExcursion
        /\ p.first <= n => /\ x # NoExcursion /\ x.opened_at = p.opened_at
                           /\ Spans(x, gains, p.quantity)
    BY <1>1, <1>7 DEF Measured, Positions
  <2>2. Spans(w, gains, p.quantity)
    <3>1. CASE p.first = n + 1
      <4>1. gains = {0}
        BY <3>1 DEF Gains
      <4>2. w.favorable = 0 /\ w.adverse = 0
        BY <2>1, <3>1 DEF w, Watched
      <4> HIDE DEF gains
      <4> QED
        BY <1>1, <4>1, <4>2, SpansOfNothing
    <3>2. CASE p.first <= n
      <4>1. w = x
        BY <2>1, <3>2 DEF w, Watched
      <4> HIDE DEF gains
      <4> QED
        BY <2>1, <3>2, <4>1
    <3> QED
      BY <2>1, <3>1, <3>2
  <2>3. gains \subseteq Int
    BY <1>1, <2>1, GainsType
  <2>4. Gains(p, a.bars[s], p.first, n + 1) = gains \union {Gain(p, worst), Gain(p, best)}
    <3>1. p.first..(n + 1) = (p.first..n) \union {n + 1}
      BY <2>1
    <3>2. Gains(p, a.bars[s], p.first, n + 1) = gains \union {Gain(p, bar.low), Gain(p, bar.high)}
      BY <1>2, <3>1 DEF Gains
    <3> QED
      BY <1>4, <3>2
  <2> DEFINE high == Gain(p, best)
             low == Gain(p, worst)
  <2> HIDE DEF gains, high, low
  <2>5. Spans(Extended(w, high * p.quantity, low * p.quantity), gains \union {low, high}, p.quantity)
    BY <1>1, <1>3, <1>4, <2>2, <2>3, SpansExtended DEF high, low
  <2> QED
    BY <1>5, <2>1, <2>4, <2>5 DEF high, low
<1> QED
  BY <1>6, <1>7

LEMMA TrackKeeps ==
  ASSUME NEW a, NEW s \in Symbols, NEW n \in Nat, n + 1 = Len(a.bars[s]), Standing(a, s, n),
         NEW b, b = TrackExcursion(a, s)
  PROVE  /\ Standing(b, s, n + 1) /\ Continues(a, b) /\ OthersKept(s, a, b)
         /\ b.bars = a.bars /\ b.orders = a.orders /\ b.last_id = a.last_id
<1> DEFINE p == a.positions[s]
           y == Observed(a.excursions[s], p, Last(a.bars[s]))
<1>1. a \in Accounts
  BY DEF Standing
<1>2. CASE p = NoPosition
  <2>1. b = a
    BY <1>2 DEF TrackExcursion
  <2>2. Measured(a, s, n + 1)
    BY <1>2 DEF Standing, Measured
  <2>3. Continues(a, a)
    BY <1>1, LittleChanges
  <2> QED
    BY <2>1, <2>2, <2>3 DEF Standing, OthersKept
<1>3. CASE p # NoPosition
  <2>1. /\ y \in Excursions /\ y.opened_at = p.opened_at
        /\ y.favorable >= 0 /\ y.adverse <= 0
        /\ Whole(p) => p.first <= n + 1 /\ Spans(y, Gains(p, a.bars[s], p.first, n + 1), p.quantity)
    <3>1. Signed(a) /\ Measured(a, s, n)
      BY DEF Standing
    <3> HIDE DEF y, p
    <3> QED
      BY <1>1, <1>3, <3>1, ObservedSpans DEF y, p
  <2>2. b = [a EXCEPT !.excursions = [a.excursions EXCEPT ![s] = y]]
    BY <1>1, <1>3 DEF TrackExcursion, Accounts
  <2> HIDE DEF y
  <2>3. [a.excursions EXCEPT ![s] = y] \in [Symbols -> Excursions \union {NoExcursion}]
    BY <1>1, <2>1 DEF Accounts
  <2>4. /\ b \in Accounts /\ b.bars = a.bars /\ b.positions = a.positions /\ b.orders = a.orders
        /\ b.closed = a.closed /\ b.last_id = a.last_id /\ b.excursions[s] = y
        /\ \A r \in Symbols : r # s => b.excursions[r] = a.excursions[r]
    BY <1>1, <2>2, <2>3 DEF Accounts
  <2>5. Signed(b)
    BY <2>1, <2>4 DEF Signed, Standing
  <2>6. Measured(b, s, n + 1)
    <3>1. y # NoExcursion
      BY <2>1, AccountAssumption
    <3>2. Whole(p) => 1 <= p.first /\ p.first <= n + 1 /\ p.first \in Nat
      <4>1. p \in Positions
        BY <1>1, <1>3 DEF Accounts
      <4> QED
        BY <1>3, <4>1, <2>1 DEF Standing, Measured, Positions
    <3> QED
      BY <1>3, <2>1, <2>4, <3>1, <3>2 DEF Measured
  <2>7. Displays(b) /\ Numbered(b) /\ Named(b) /\ TradesKept(b) /\ StopKept(b, s)
    BY <2>4 DEF Standing, Displays, Numbered, Named, OpenedBy, TradesKept, StopKept
  <2>8. Continues(a, b)
    BY <1>1, <2>4, LittleChanges
  <2> QED
    BY <2>4, <2>5, <2>6, <2>7, <2>8 DEF Standing, OthersKept
<1> QED
  BY <1>2, <1>3

\* An exit of the bar, at the stop or at the target.
LEMMA ExitKeeps ==
  ASSUME NEW a, NEW s \in Symbols, NEW n \in Nat, n = Len(a.bars[s]), Standing(a, s, n),
         a.positions[s] # NoPosition,
         NEW price \in Int, NEW reason \in {"stop_loss", "take_profit"},
         reason = "stop_loss" => price = a.positions[s].stop /\ price # NoPrice,
         reason = "take_profit" => ~StopHit(a.positions[s], Last(a.bars[s])),
         NEW b, b = Closed(a, s, price, reason)
  PROVE  /\ Standing(b, s, n) /\ CloseKept(b, s) /\ Continues(a, b) /\ OthersKept(s, a, b)
         /\ b.bars = a.bars /\ b.orders = a.orders /\ b.last_id = a.last_id
<1> DEFINE p == a.positions[s]
           t == Trade(a, s, p.quantity, price, reason, n)
<1>1. a \in Accounts /\ p \in Positions /\ p.quantity \in Nat \ {0} /\ reason \in Reasons
      /\ n >= 1 /\ p.side \in {1, -1} /\ {p.stop, p.initial} \subseteq Prices
  <2>1. a \in Accounts
    BY DEF Standing
  <2>2. p \in Positions
    BY <2>1 DEF Accounts
  <2>3. p.quantity \in Nat \ {0} /\ p.side \in {1, -1} /\ {p.stop, p.initial} \subseteq Prices
    BY <2>2 DEF Positions
  <2> QED
    BY <2>1, <2>2, <2>3 DEF Standing, Displays, Reasons
<1>2. Reduces(a, b, s, p.quantity, price, reason, n)
  <2>1. b = Reduce(a, s, p.quantity, price, reason, n)
    BY DEF Closed
  <2> HIDE DEF p
  <2> QED
    BY <1>1, <2>1, ReduceChanges DEF p
<1>3. b.positions[s] = NoPosition /\ b.excursions[s] = NoExcursion
  <2>1. Rest(p, p.quantity) = NoPosition
    BY <1>1, RestType
  <2> QED
    BY <1>1, <1>2, <2>1 DEF Reduces
<1>4. /\ b \in Accounts /\ b.bars = a.bars /\ b.orders = a.orders /\ b.last_id = a.last_id
      /\ b.closed = Append(a.closed, t) /\ OthersKept(s, a, b)
  BY <1>2 DEF Reduces
<1>5. t \in Trades /\ TradeKept(t, a.bars)
  <2>1. t.reason = reason /\ t.exit = price /\ t.side = p.side /\ t.initial = p.initial
        /\ t.stop = p.stop /\ t.last = n
    BY DEF Trade
  <2>2. Whole(p) => Bounded(t, a.bars[s])
    <3> SUFFICES ASSUME Whole(p) PROVE Bounded(t, a.bars[s])
      OBVIOUS
    <3>1. p.initial # NoPrice => p.initial * p.side <= p.stop * p.side
      BY DEF Standing, StopKept
    <3>2. ASSUME p.initial # NoPrice, reason = "stop_loss"
          PROVE  price * p.side >= p.initial * p.side - 2 * HalfSpread - Slippage
      <4>1. HalfSpread \in Nat /\ Slippage \in Nat
        BY AccountAssumption
      <4>2. price = p.stop
        BY <3>2
      <4>3. p.initial * p.side \in Int /\ p.stop * p.side \in Int
        <5> HIDE DEF p
        <5>1. \A m \in Int, k \in {1, -1} : m * k \in Int
          OBVIOUS
        <5> QED
          BY <1>1, <3>2, <4>2, <5>1 DEF Prices
      <4> HIDE DEF p
      <4> QED
        BY <3>1, <3>2, <4>1, <4>2, <4>3
    <3>3. ASSUME reason = "take_profit", p.stop # NoPrice
          PROVE  ~Reaches(a.bars[s][n], p.stop, -p.side)
      BY <3>3, LastBar DEF StopHit, Last
    <3> HIDE DEF p, t
    <3> QED
      BY <1>1, <2>1, <3>2, <3>3 DEF Bounded
  <2>3. Measured(a, s, n) /\ n <= Len(a.bars[s])
    BY DEF Standing
  <2> HIDE DEF t, p
  <2> QED
    BY <1>1, <2>2, <2>3, ClosesAsKept DEF t, p
<1>6. TradesKept(b)
  <2>1. TradesKept(a)
    BY DEF Standing
  <2> HIDE DEF t
  <2> QED
    BY <1>1, <1>4, <1>5, <2>1, TradesStayKept
<1>7. Continues(a, b)
  <2>1. \A r \in Symbols : b.positions[r] \in {a.positions[r], NoPosition}
    BY <1>3, <1>4 DEF OthersKept
  <2> QED
    BY <1>1, <1>4, <2>1, LittleChanges
<1>8. Named(b)
  BY <1>7, StaysNamed DEF Standing
<1>9. Signed(b) /\ Numbered(b) /\ Displays(b)
  BY <1>3, <1>4 DEF Standing, Signed, Numbered, Displays, OthersKept
<1>10. Measured(b, s, n) /\ StopKept(b, s) /\ CloseKept(b, s)
  BY <1>3 DEF Measured, StopKept, CloseKept
<1> HIDE DEF t, p
<1> QED
  BY <1>4, <1>6, <1>7, <1>8, <1>9, <1>10 DEF Standing

LEMMA ExitsKeep ==
  ASSUME NEW a, NEW s \in Symbols, NEW n \in Nat, n = Len(a.bars[s]), Standing(a, s, n),
         NEW b, b = ProcessExits(a, s)
  PROVE  /\ Standing(b, s, n) /\ CloseKept(b, s) /\ Continues(a, b) /\ OthersKept(s, a, b)
         /\ b.bars = a.bars /\ b.orders = a.orders /\ b.last_id = a.last_id
<1> DEFINE p == a.positions[s]
           bar == Last(a.bars[s])
<1>1. a \in Accounts /\ Len(a.bars[s]) >= 1
  BY DEF Standing, Displays
<1>2. CASE p # NoPosition /\ StopHit(p, bar)
  <2>1. b = Closed(a, s, p.stop, "stop_loss")
    BY <1>2 DEF ProcessExits
  <2>2. p.stop \in Int /\ p.stop # NoPrice
    BY <1>1, <1>2 DEF StopHit, Accounts, Positions, Prices
  <2> HIDE DEF bar
  <2> QED
    BY <1>2, <2>1, <2>2, ExitKeeps
<1>3. CASE p # NoPosition /\ ~StopHit(p, bar) /\ TargetHit(p, bar)
  <2>1. b = Closed(a, s, p.target, "take_profit")
    BY <1>3 DEF ProcessExits
  <2>2. p.target \in Int
    BY <1>1, <1>3 DEF TargetHit, Accounts, Positions, Prices
  <2> QED
    BY <1>3, <2>1, <2>2, ExitKeeps
<1>4. CASE p = NoPosition \/ (~StopHit(p, bar) /\ ~TargetHit(p, bar))
  <2>1. b = a
    BY <1>4 DEF ProcessExits
  <2>2. CloseKept(a, s)
    <3> SUFFICES ASSUME p # NoPosition, Whole(p), p.initial # NoPrice
                 PROVE  p.initial * p.side - HalfSpread <= bar.close * p.side
      BY DEF CloseKept, Close
    <3>1. p.stop # NoPrice /\ p.initial * p.side <= p.stop * p.side
      BY DEF Standing, StopKept
    <3>2. p.side \in {1, -1} /\ p.stop \in Int /\ p.initial \in Int
      BY <1>1, <3>1 DEF Accounts, Positions, Prices
    <3>3. /\ bar.low \in Int /\ bar.high \in Int /\ bar.close \in Int /\ HalfSpread \in Nat
          /\ bar.low <= bar.close /\ bar.close <= bar.high
      BY <1>1, LastBar, AccountAssumption
    <3>4. ~Reaches(bar, p.stop, -p.side)
      BY <1>4, <3>1 DEF StopHit
    <3> HIDE DEF p, bar
    <3>5. CASE p.side = 1
      BY <3>1, <3>2, <3>3, <3>4, <3>5 DEF Reaches
    <3>6. CASE p.side = -1
      <4>1. -p.side = 1
        <5>1. -p.side = -(-1)
          BY <3>6, Zenon
        <5> QED
          BY <5>1
      <4>2. ~(bar.high >= p.stop)
        BY <3>4, <4>1 DEF Reaches
      <4> QED
        BY <3>1, <3>2, <3>3, <3>6, <4>2
    <3> QED
      BY <3>2, <3>5, <3>6
  <2>3. Continues(a, a)
    BY <1>1, LittleChanges
  <2> QED
    BY <2>1, <2>2, <2>3 DEF OthersKept
<1> QED
  BY <1>2, <1>3, <1>4

-----------------------------------------------------------------------------
(* What a call keeps *)

LEMMA RestsAgain ==
  ASSUME NEW a, Rested(a), NEW s \in Symbols, NEW b,
         Standing(b, s, Len(b.bars[s])), CloseKept(b, s), OthersKept(s, a, b),
         \A r \in Symbols : r # s => b.bars[r] = a.bars[r]
  PROVE  Rested(b)
<1>1. ASSUME NEW r \in Symbols
      PROVE  Measured(b, r, Len(b.bars[r])) /\ StopKept(b, r) /\ CloseKept(b, r)
  <2>1. CASE r = s
    BY <2>1 DEF Standing
  <2>2. CASE r # s
    BY <2>2 DEF Rested, OthersKept, Measured, StopKept, CloseKept, Close
  <2> QED
    BY <2>1, <2>2
<1> QED
  BY <1>1 DEF Rested, Standing

WithBar(a, s, bar) == [a EXCEPT !.bars[s] = Append(@, bar)]

\* A bar more is shown: those there were are as they were.
LEMMA ShownKeeps ==
  ASSUME NEW a \in Accounts, Rested(a), Settled(a), NEW s \in Symbols, NEW bar \in Bars,
         NEW b, b = WithBar(a, s, bar)
  PROVE  /\ Standing(b, s, Len(b.bars[s]) - 1) /\ Settled(b) /\ Continues(a, b)
         /\ OthersKept(s, a, b) /\ \A r \in Symbols : r # s => b.bars[r] = a.bars[r]
         /\ b.last_id = a.last_id /\ b.positions = a.positions /\ b.orders = a.orders
         /\ b.closed = a.closed /\ b.cash = a.cash /\ b.raised = a.raised
         /\ b.bars[s] = Append(a.bars[s], bar)
<1> DEFINE n == Len(a.bars[s])
           longer == Append(a.bars[s], bar)
<1>1. a.bars[s] \in Seq(Bars) /\ n \in Nat
  BY DEF Accounts
<1>2. /\ longer \in Seq(Bars) /\ Len(longer) = n + 1
      /\ \A i \in 1..n : longer[i] = a.bars[s][i]
  BY <1>1, AppendProperties
<1>3. b = [a EXCEPT !.bars = [a.bars EXCEPT ![s] = longer]]
  BY DEF WithBar, Accounts
<1> HIDE DEF longer
<1>4. [a.bars EXCEPT ![s] = longer] \in [Symbols -> Seq(Bars)]
  BY <1>2 DEF Accounts
<1>5. /\ b \in Accounts /\ b.positions = a.positions /\ b.orders = a.orders /\ b.closed = a.closed
      /\ b.excursions = a.excursions /\ b.last_id = a.last_id /\ b.bars[s] = longer
      /\ b.cash = a.cash /\ b.raised = a.raised
      /\ \A r \in Symbols : r # s => b.bars[r] = a.bars[r]
  BY <1>3, <1>4 DEF Accounts
<1>6. Len(b.bars[s]) - 1 = n
  BY <1>1, <1>2, <1>5
<1>7. \A i \in 1..n : b.bars[s][i] = a.bars[s][i]
  BY <1>1, <1>2, <1>5
<1>8. Measured(b, s, n)
  <2> DEFINE p == a.positions[s]
  <2>1. Measured(a, s, n)
    BY DEF Rested
  <2>2. ASSUME p # NoPosition, Whole(p), p.first <= n
        PROVE  Gains(p, b.bars[s], p.first, n) = Gains(p, a.bars[s], p.first, n)
    <3>1. p.first \in Nat \ {0}
      <4>1. p \in Positions
        BY <2>2 DEF Accounts
      <4> QED
        BY <2>1, <2>2, <4>1 DEF Measured, Positions
    <3>2. \A i \in p.first..n : b.bars[s][i] = a.bars[s][i]
      BY <1>1, <1>7, <3>1
    <3> HIDE DEF n, p
    <3> QED
      BY <3>2, SameGains
  <2> QED
    BY <1>5, <2>1, <2>2 DEF Measured
<1>9. TradesKept(b)
  <2> SUFFICES ASSUME NEW i \in DOMAIN a.closed
               PROVE  TradeKept(a.closed[i], b.bars)
    BY <1>5 DEF TradesKept
  <2> DEFINE t == a.closed[i]
  <2>1. t \in Trades /\ TradeKept(t, a.bars)
    BY ElementOfSeq DEF Rested, TradesKept, Accounts
  <2>2. t.symbol \in Symbols /\ t.first \in Nat /\ t.last \in Nat
    BY <2>1 DEF Trades
  <2>3. CASE t.symbol # s
    BY <1>5, <2>1, <2>2, <2>3 DEF TradeKept
  <2>4. CASE t.symbol = s
    <3> HIDE DEF t
    <3>1. t.last <= n /\ t.last <= Len(b.bars[s])
      BY <1>1, <1>2, <1>5, <2>1, <2>2, <2>4 DEF TradeKept
    <3>2. Bounded(t, a.bars[s]) => Bounded(t, b.bars[s])
      <4>1. 1 <= t.last => b.bars[s][t.last] = a.bars[s][t.last]
        BY <1>1, <1>2, <1>5, <2>2, <3>1
      <4> QED
        BY <4>1 DEF Bounded
    <3>3. Valued(t, a.bars[s]) => Valued(t, b.bars[s])
      <4>1. 1 <= t.first => Gains(t, b.bars[s], t.first, t.last) = Gains(t, a.bars[s], t.first, t.last)
        <5> HAVE 1 <= t.first
        <5>1. \A k \in t.first..t.last : b.bars[s][k] = a.bars[s][k]
          BY <1>1, <1>7, <2>2, <3>1
        <5> QED
          BY <5>1, SameGains
      <4> QED
        BY <4>1 DEF Valued
    <3>4. Whole(t) => Bounded(t, a.bars[s]) /\ Valued(t, a.bars[s])
      BY <2>1, <2>4 DEF TradeKept
    <3>5. TradeKept(t, b.bars)
      BY <2>4, <3>1, <3>2, <3>3, <3>4 DEF TradeKept
    <3> QED
      BY <3>5 DEF t
  <2> QED
    BY <2>3, <2>4
<1>10. Displays(b) /\ Signed(b) /\ Numbered(b) /\ Named(b) /\ StopKept(b, s) /\ Settled(b)
  <2>1. \A r \in Symbols : Len(b.bars[r]) >= 1
    BY <1>1, <1>2, <1>5 DEF Rested, Displays
  <2> QED
    BY <1>5, <2>1 DEF Rested, Displays, Signed, Numbered, Named, OpenedBy, StopKept, Settled
<1>11. Continues(a, b)
  BY <1>5, LittleChanges
<1> QED
  BY <1>5, <1>6, <1>8, <1>9, <1>10, <1>11 DEF Standing, OthersKept, longer

LEMMA AdvanceKeeps ==
  ASSUME NEW a \in Accounts, Rested(a), Settled(a), NEW s \in Symbols, NEW bar \in Bars,
         NEW b, b = Advance(a, s, bar)
  PROVE  b \in Accounts /\ Rested(b) /\ Settled(b) /\ Continues(a, b) /\ b.last_id = a.last_id
<1> DEFINE shown == WithBar(a, s, bar)
           pending == ProcessPendingOrders(shown, s)
           n == Len(shown.bars[s]) - 1
<1>1. /\ Standing(shown, s, n) /\ Settled(shown) /\ Continues(a, shown)
      /\ OthersKept(s, a, shown) /\ \A r \in Symbols : r # s => shown.bars[r] = a.bars[r]
      /\ shown.last_id = a.last_id
  <2>1. shown = WithBar(a, s, bar)
    OBVIOUS
  <2> HIDE DEF shown
  <2> QED
    BY <2>1, ShownKeeps
<1>2. b = IF pending.raised THEN Unchecked(pending, s)
          ELSE ProcessExits(TrackExcursion(pending, s), s)
  BY DEF Advance, WithBar
<1>3. shown \in Accounts /\ Named(shown) /\ n \in Nat /\ n + 1 = Len(shown.bars[s])
  <2>1. shown \in Accounts /\ Len(shown.bars[s]) >= 1 /\ Named(shown)
    BY <1>1 DEF Standing, Displays
  <2>2. Len(shown.bars[s]) \in Nat
    BY <2>1 DEF Accounts
  <2> QED
    BY <2>1, <2>2
<1> HIDE DEF shown
<1>4. pending \in Within(s, shown)
  BY <1>1, PendingKeeps
<1> HIDE DEF pending, n
<1>5. /\ Standing(pending, s, n) /\ Settled(pending)
      /\ pending.bars = shown.bars /\ pending.last_id = shown.last_id
      /\ OthersKept(s, shown, pending) /\ Continues(shown, pending)
  BY <1>4 DEF Within, n
<1>6. Continues(a, pending) /\ Named(a)
  BY <1>1, <1>3, <1>5, ContinuesOn DEF Standing, Rested
\* What is left to show, for the account the call ends with.
<1>7. ASSUME Standing(b, s, n + 1), CloseKept(b, s), Continues(pending, b), OthersKept(s, pending, b),
             b.bars = pending.bars, b.last_id = pending.last_id, Settled(b)
      PROVE  b \in Accounts /\ Rested(b) /\ Settled(b) /\ Continues(a, b) /\ b.last_id = a.last_id
  <2>1. Continues(a, b)
    BY <1>5, <1>6, <1>7, ContinuesOn DEF Standing
  <2>2. OthersKept(s, a, b) /\ \A r \in Symbols : r # s => b.bars[r] = a.bars[r]
    BY <1>1, <1>5, <1>7 DEF OthersKept
  <2>3. Standing(b, s, Len(b.bars[s]))
    BY <1>3, <1>5, <1>7
  <2>4. Rested(b)
    BY <1>7, <2>2, <2>3, RestsAgain
  <2> QED
    BY <1>1, <1>5, <1>7, <2>1, <2>4 DEF Standing
<1>8. CASE ~pending.raised
  <2> DEFINE tracked == TrackExcursion(pending, s)
  <2>1. /\ Standing(tracked, s, n + 1) /\ Continues(pending, tracked) /\ OthersKept(s, pending, tracked)
        /\ tracked.bars = pending.bars /\ tracked.orders = pending.orders
        /\ tracked.last_id = pending.last_id
    BY <1>3, <1>5, TrackKeeps
  <2>2. b = ProcessExits(tracked, s)
    BY <1>2, <1>8
  <2> HIDE DEF tracked
  <2>3. /\ Standing(b, s, n + 1) /\ CloseKept(b, s) /\ Continues(tracked, b)
        /\ OthersKept(s, tracked, b)
        /\ b.bars = tracked.bars /\ b.orders = tracked.orders /\ b.last_id = tracked.last_id
    <3>1. n + 1 \in Nat /\ n + 1 = Len(tracked.bars[s])
      BY <1>3, <1>5, <2>1
    <3> QED
      BY <2>1, <2>2, <3>1, ExitsKeep
  <2>4. Continues(pending, b)
    BY <1>5, <2>1, <2>3, ContinuesOn DEF Standing
  <2>5. OthersKept(s, pending, b) /\ Settled(b)
    BY <1>5, <2>1, <2>3 DEF OthersKept, Settled
  <2> QED
    BY <1>7, <2>1, <2>3, <2>4, <2>5
<1>9. CASE pending.raised
  <2> DEFINE p == pending.positions[s]
             q == b.positions[s]
  <2>1. b = Unchecked(pending, s)
    BY <1>2, <1>9
  <2>2. pending \in Accounts
    BY <1>5 DEF Standing
  <2>3. /\ b \in Accounts /\ b.bars = pending.bars /\ b.orders = pending.orders
        /\ b.closed = pending.closed /\ b.last_id = pending.last_id
        /\ b.excursions = pending.excursions /\ OthersKept(s, pending, b)
        /\ p = NoPosition => q = NoPosition
        /\ p # NoPosition => /\ q \in Positions /\ q.id = p.id /\ q.side = p.side /\ q.stop = p.stop
                             /\ q.unchecked
    <3>1. CASE p = NoPosition
      <4>1. b = pending
        BY <2>1, <3>1 DEF Unchecked
      <4> QED
        BY <2>2, <3>1, <4>1 DEF OthersKept
    <3>2. CASE p # NoPosition
      <4> DEFINE r == [p EXCEPT !.unchecked = TRUE]
      <4>1. p \in Positions
        BY <2>2, <3>2 DEF Accounts
      <4>2. r \in Positions /\ r.id = p.id /\ r.side = p.side /\ r.stop = p.stop /\ r.unchecked
        BY <4>1 DEF Positions
      <4>3. b = [pending EXCEPT !.positions = [pending.positions EXCEPT ![s] = r]]
        BY <2>1, <2>2, <3>2 DEF Unchecked, Accounts
      <4> HIDE DEF r, p
      <4>4. [pending.positions EXCEPT ![s] = r] \in [Symbols -> Positions \union {NoPosition}]
        BY <2>2, <4>2 DEF Accounts
      <4> QED
        BY <2>2, <3>2, <4>2, <4>3, <4>4 DEF Accounts, OthersKept
    <3> QED
      BY <3>1, <3>2
  <2>4. Measured(b, s, n + 1) /\ StopKept(b, s) /\ CloseKept(b, s)
    <3>1. q = NoPosition \/ ~Whole(q)
      BY <2>3 DEF Whole
    <3>2. q = NoPosition => b.excursions[s] = NoExcursion
      BY <1>5, <2>3, AccountAssumption DEF Standing, Measured
    <3> QED
      BY <3>1, <3>2 DEF Measured, StopKept, CloseKept
  <2>5. Continues(pending, b)
    <3>1. \A r \in Symbols : b.positions[r] # NoPosition =>
            /\ pending.positions[r] # NoPosition /\ b.positions[r].id = pending.positions[r].id
            /\ b.positions[r].side = pending.positions[r].side
            /\ b.positions[r].stop = pending.positions[r].stop
      BY <2>3 DEF OthersKept
    <3> QED
      BY <2>2, <2>3, <3>1, LittleChanges
  <2>6. Named(b)
    BY <1>5, <2>5, StaysNamed DEF Standing
  <2>7. Displays(b) /\ Signed(b) /\ Numbered(b) /\ TradesKept(b) /\ Settled(b)
    BY <1>5, <2>3 DEF Standing, Displays, Signed, Numbered, TradesKept, Settled
  <2>8. Standing(b, s, n + 1)
    BY <2>3, <2>4, <2>6, <2>7 DEF Standing
  <2> QED
    BY <1>7, <2>3, <2>4, <2>5, <2>7, <2>8
<1> QED
  BY <1>8, <1>9

WithOrder(a, s, r) ==
  [a EXCEPT !.orders = Append(@, Order(a, s, r)), !.last_id = @ + 1]

\* A request becomes an order, the newest one.
LEMMA OrderKeeps ==
  ASSUME NEW a \in Accounts, Rested(a), NEW s \in Symbols, NEW r, Proper(r), NEW m,
         m = Len(a.orders) + 1,
         NEW b, b = WithOrder(a, s, r)
  PROVE  /\ b \in Accounts /\ Rested(b) /\ Continues(a, b)
         /\ b.bars = a.bars /\ b.positions = a.positions /\ b.closed = a.closed
         /\ b.excursions = a.excursions /\ b.last_id = a.last_id + 1 /\ b.raised = a.raised /\ b.cash = a.cash
         /\ DOMAIN b.orders = DOMAIN a.orders \union {m} /\ m \notin DOMAIN a.orders
         /\ b.orders[m] = Order(a, s, r) /\ \A i \in DOMAIN a.orders : b.orders[i] = a.orders[i]
<1> DEFINE o == Order(a, s, r)
           longer == Append(a.orders, o)
<1>1. o \in Orders /\ o.id = a.last_id + 1
  <2>1. a.last_id + 1 \in Nat /\ NoPrice \in Prices
    BY DEF Accounts, Prices
  <2>2. /\ r.type \in OrderTypes /\ r.side \in {1, -1} /\ r.quantity \in Nat \ {0}
        /\ r.trigger \in Prices /\ r.stop \in Prices /\ r.target \in Prices
        /\ r.reduce_only \in BOOLEAN /\ (r.type = "market" <=> r.trigger = NoPrice)
    BY DEF Proper
  <2>3. o \in Orders
    BY <2>1, <2>2 DEF Order, Orders
  <2> QED
    BY <2>3 DEF Order
<1>2. a.orders \in Seq(Orders) /\ a.last_id \in Nat
  BY DEF Accounts
<1> HIDE DEF o
<1>3. /\ longer \in Seq(Orders) /\ DOMAIN longer = DOMAIN a.orders \union {m}
      /\ m \notin DOMAIN a.orders /\ longer[m] = o
      /\ \A i \in DOMAIN a.orders : longer[i] = a.orders[i]
  BY <1>1, <1>2, AppendProperties
<1>4. b = [a EXCEPT !.orders = longer, !.last_id = a.last_id + 1]
  BY DEF WithOrder, Accounts, o
<1> HIDE DEF longer
<1>5. /\ b \in Accounts
      /\ b.bars = a.bars /\ b.positions = a.positions /\ b.closed = a.closed
      /\ b.excursions = a.excursions /\ b.last_id = a.last_id + 1 /\ b.raised = a.raised /\ b.cash = a.cash
      /\ b.orders = longer
  <2>1. a.last_id + 1 \in Nat /\ longer \in Seq(Orders)
    BY <1>2, <1>3
  <2> QED
    BY <1>4, <2>1 DEF Accounts
<1>6. Numbered(b)
  <2> SUFFICES ASSUME NEW i \in DOMAIN b.orders, NEW j \in DOMAIN b.orders
               PROVE  b.orders[i].id <= b.last_id /\ (b.orders[i].id = b.orders[j].id => i = j)
    BY DEF Numbered
  <2>1. \A k \in DOMAIN a.orders : a.orders[k].id <= a.last_id /\ a.orders[k].id \in Nat
    <3>1. \A k \in DOMAIN a.orders : a.orders[k] \in Orders
      BY <1>2, ElementOfSeq
    <3> QED
      BY <3>1 DEF Rested, Numbered, Orders
  <2>2. CASE i = m
    BY <1>1, <1>2, <1>3, <1>5, <2>1, <2>2
  <2>3. CASE i \in DOMAIN a.orders
    <3>1. CASE j = m
      BY <1>1, <1>2, <1>3, <1>5, <2>1, <2>3, <3>1
    <3>2. CASE j \in DOMAIN a.orders
      <4>1. b.orders[i].id <= b.last_id
        BY <1>2, <1>3, <1>5, <2>1, <2>3
      <4> QED
        BY <1>3, <1>5, <2>3, <3>2, <4>1 DEF Rested, Numbered
    <3> QED
      BY <1>3, <1>5, <3>1, <3>2
  <2> QED
    BY <1>3, <1>5, <2>2, <2>3
<1>7. Continues(a, b)
  <2>1. OrdersGoOn(a, b)
    BY <1>3, <1>5 DEF OrdersGoOn
  <2>2. NewIsNew(a, b)
    BY <1>5 DEF NewIsNew, Same
  <2>3. StopsGoOn(a, b)
    <3>1. \A x \in Symbols : a.positions[x] # NoPosition => ~Weaker(a.positions[x], b.positions[x])
      BY <1>5, StopsStay
    <3> QED
      BY <1>5, <3>1 DEF StopsGoOn, Same
  <2> QED
    BY <2>1, <2>2, <2>3 DEF Continues
<1>8. Rested(b)
  <2>1. Named(b)
    BY <1>7, StaysNamed DEF Rested
  <2>2. Displays(b) /\ Signed(b) /\ TradesKept(b)
    BY <1>5 DEF Rested, Displays, Signed, TradesKept
  <2>3. \A x \in Symbols : Measured(b, x, Len(b.bars[x])) /\ StopKept(b, x) /\ CloseKept(b, x)
    BY <1>5 DEF Rested, Measured, StopKept, CloseKept, Close
  <2> QED
    BY <1>6, <2>1, <2>2, <2>3 DEF Rested
<1> QED
  BY <1>3, <1>5, <1>7, <1>8 DEF o

LEMMA MarketKeeps ==
  ASSUME NEW a \in Accounts, Rested(a), Settled(a), NEW s \in Symbols, NEW r, Proper(r),
         r.type = "market", StopRuleHolds(r, Quote(a, s, r.side)),
         NEW b, b = Market(a, s, r)
  PROVE  b \in Accounts /\ Rested(b) /\ Settled(b) /\ Continues(a, b) /\ b.last_id = a.last_id + 1
<1> DEFINE m == Len(a.orders) + 1
           c == WithOrder(a, s, r)
           price == Quote(a, s, r.side) + Slippage * r.side
           reason == IF r.reduce_only THEN "exit" ELSE "signal"
           after == Fill(c, m, price, reason)
           n == Len(a.bars[s])
<1>1. b = IF after.raised THEN [a EXCEPT !.last_id = @ + 1] ELSE after
  BY DEF Market, WithOrder
<1>2. /\ c \in Accounts /\ Rested(c) /\ Continues(a, c)
      /\ c.bars = a.bars /\ c.positions = a.positions /\ c.closed = a.closed
      /\ c.excursions = a.excursions /\ c.last_id = a.last_id + 1 /\ c.raised = a.raised
      /\ DOMAIN c.orders = DOMAIN a.orders \union {m} /\ m \notin DOMAIN a.orders
      /\ c.orders[m] = Order(a, s, r) /\ \A i \in DOMAIN a.orders : c.orders[i] = a.orders[i]
  <2>1. c = WithOrder(a, s, r) /\ m = Len(a.orders) + 1
    OBVIOUS
  <2> HIDE DEF c, m
  <2> QED
    BY <2>1, OrderKeeps
<1> HIDE DEF c, m
<1>3. /\ c.orders[m].symbol = s /\ c.orders[m].side = r.side /\ c.orders[m].stop = r.stop
      /\ c.orders[m].status \notin Terminal /\ BarsMet(c, c.orders[m]) = n
      /\ r.side \in {1, -1} /\ r.stop \in Prices /\ n \in Nat /\ n >= 1 /\ c.orders[m] \in Orders
  <2>1. a.bars[s] \in Seq(Bars) /\ n >= 1
    BY DEF Accounts, Rested, Displays
  <2>2. c.orders[m] \in Orders
    BY <1>2, ElementOfSeq DEF Accounts
  <2>3. BarsMet(c, c.orders[m]) = n
    BY <1>2, <2>1 DEF BarsMet, Order
  <2> QED
    BY <1>2, <2>1, <2>2, <2>3 DEF Order, Terminal, Proper
<1>4. Close(a, s) \in Int /\ price \in Int /\ HalfSpread \in Nat /\ Slippage \in Nat
  <2>1. Close(a, s) \in Int
    BY <1>3, LastBar DEF Close
  <2> QED
    BY <1>3, <2>1, AccountAssumption DEF Quote
<1>5. Standing(c, s, n) /\ NearClose(c, m, price)
  <2>1. Standing(c, s, n) /\ CloseKept(c, s)
    BY <1>2 DEF Rested, Standing
  <2>2. price = Close(c, s) + HalfSpread * r.side + Slippage * r.side
    BY <1>2 DEF Quote, Close
  <2> QED
    BY <1>3, <2>1, <2>2 DEF NearClose
<1> HIDE DEF price, reason, n
<1>6. /\ Standing(after, s, n) /\ Continues(c, after)
      /\ Touches(c, after, m) /\ after.orders[m].status \in {"filled", "rejected"}
      /\ \/ after.positions[s] = NoPosition \/ after.positions = c.positions
         \/ ~Whole(after.positions[s])
         \/ \E rest \in Nat \ {0} : after.positions[s] = Opened(c, c.orders[m], rest, price)
  <2>1. reason \in {"signal", "exit"} /\ m \in DOMAIN c.orders
    BY <1>2 DEF reason
  <2> HIDE DEF after
  <2> QED
    BY <1>2, <1>3, <1>4, <1>5, <2>1, FillKeeps DEF after
<1> HIDE DEF after
<1>7. CASE after.raised
  <2>1. b = [a EXCEPT !.last_id = a.last_id + 1]
    BY <1>1, <1>7
  <2>2. a.last_id \in Nat
    BY DEF Accounts
  <2>3. /\ b \in Accounts /\ b.bars = a.bars /\ b.positions = a.positions /\ b.orders = a.orders
        /\ b.closed = a.closed /\ b.excursions = a.excursions /\ b.last_id = a.last_id + 1
    <3>1. a.last_id + 1 \in Nat
      BY <2>2
    <3> QED
      BY <2>1, <3>1 DEF Accounts
  <2>4. Numbered(b)
    <3>1. \A i \in DOMAIN a.orders : a.orders[i].id \in Nat /\ a.orders[i].id <= a.last_id
      <4>1. \A i \in DOMAIN a.orders : a.orders[i] \in Orders
        BY ElementOfSeq DEF Accounts
      <4> QED
        BY <4>1 DEF Orders, Rested, Numbered
    <3>2. \A i \in DOMAIN b.orders : b.orders[i].id <= b.last_id
      BY <2>2, <2>3, <3>1
    <3> QED
      BY <2>3, <3>2 DEF Rested, Numbered
  <2>5. Continues(a, b)
    BY <2>3, LittleChanges
  <2>6. Displays(b) /\ Signed(b) /\ Named(b) /\ TradesKept(b) /\ Settled(b)
    BY <2>3 DEF Rested, Displays, Signed, Named, OpenedBy, TradesKept, Settled
  <2>7. \A x \in Symbols : Measured(b, x, Len(b.bars[x])) /\ StopKept(b, x) /\ CloseKept(b, x)
    BY <2>3 DEF Rested, Measured, StopKept, CloseKept, Close
  <2> QED
    BY <2>3, <2>4, <2>5, <2>6, <2>7 DEF Rested
<1>8. CASE ~after.raised
  <2>1. b = after
    BY <1>1, <1>8
  <2>2. b \in Accounts /\ b.bars = c.bars /\ b.last_id = a.last_id + 1 /\ OthersKept(s, c, b)
    BY <1>2, <1>3, <1>6, <2>1 DEF Standing, Touches
  <2>3. CloseKept(b, s)
    <3>1. Close(b, s) = Close(a, s)
      BY <1>2, <2>2 DEF Close
    <3>2. CASE b.positions = c.positions
      BY <1>2, <2>2, <3>2 DEF Rested, CloseKept, Close
    <3>3. ASSUME NEW rest \in Nat \ {0}, b.positions[s] = Opened(c, c.orders[m], rest, price),
                 b.positions[s].initial # NoPrice
          PROVE  b.positions[s].initial * b.positions[s].side - HalfSpread
                   <= Close(b, s) * b.positions[s].side
      <4>1. b.positions[s].side = r.side /\ b.positions[s].initial = r.stop
        BY <1>3, <3>3 DEF Opened
      <4>2. r.stop * r.side < (Close(a, s) + HalfSpread * r.side) * r.side
        BY <3>3, <4>1 DEF StopRuleHolds, Quote
      <4>3. r.stop * r.side - HalfSpread <= Close(a, s) * r.side
        <5> r.stop \in Int
          BY <1>3, <3>3, <4>1 DEF Prices
        <5>1. CASE r.side = 1
          BY <1>3, <1>4, <4>2, <5>1
        <5>2. CASE r.side = -1
          BY <1>3, <1>4, <4>2, <5>2
        <5> QED
          BY <1>3, <5>1, <5>2
      <4> QED
        BY <3>1, <4>1, <4>3
    <3> QED
      BY <1>6, <2>1, <3>2, <3>3 DEF CloseKept
  <2>4. Rested(b)
    <3>1. Standing(b, s, Len(b.bars[s]))
      BY <1>2, <1>6, <2>1, <2>2 DEF n
    <3> QED
      BY <1>2, <2>2, <2>3, <3>1, RestsAgain
  <2>5. Settled(b)
    BY <1>2, <1>6, <2>1 DEF Settled, Touches
  <2>6. Continues(a, b)
    <3>1. Named(a) /\ Numbered(b)
      BY <1>6, <2>1 DEF Standing, Rested
    <3> QED
      BY <1>2, <1>6, <2>1, <2>2, <3>1, ContinuesOn
  <2> QED
    BY <2>2, <2>4, <2>5, <2>6
<1> QED
  BY <1>7, <1>8

LEMMA StopMovedKeeps ==
  ASSUME NEW a \in Accounts, Rested(a), Settled(a), NEW s \in Symbols, NEW stop \in Int,
         NEW b, b = StopMoved(a, s, stop)
  PROVE  b \in Accounts /\ Rested(b) /\ Settled(b) /\ Continues(a, b) /\ b.last_id = a.last_id
<1> DEFINE p == a.positions[s]
           q == [p EXCEPT !.stop = stop]
<1>1. CASE p = NoPosition \/ Worsens(p, stop)
  <2>1. b = a
    BY <1>1 DEF StopMoved
  <2> QED
    BY <2>1, LittleChanges
<1>2. CASE p # NoPosition /\ ~Worsens(p, stop)
  <2>1. p \in Positions /\ p.side \in {1, -1} /\ {p.stop, p.initial} \subseteq Prices
        /\ stop # NoPrice
    BY <1>2, QuotesAssumption DEF Accounts, Positions, Prices
  <2>2. /\ q \in Positions /\ q.stop = stop /\ q.id = p.id /\ q.side = p.side /\ q.entry = p.entry
        /\ q.initial = p.initial /\ q.first = p.first /\ q.opened_at = p.opened_at
        /\ q.quantity = p.quantity /\ q.resized = p.resized /\ q.unchecked = p.unchecked
    BY <2>1 DEF Positions, Prices
  <2>3. q # NoPosition
    BY <2>2, AccountAssumption
  <2>4. b = [a EXCEPT !.positions = [a.positions EXCEPT ![s] = q]]
    BY <1>2 DEF StopMoved, Accounts
  <2> HIDE DEF q
  <2>5. [a.positions EXCEPT ![s] = q] \in [Symbols -> Positions \union {NoPosition}]
    BY <2>2 DEF Accounts
  <2>6. /\ b \in Accounts /\ b.bars = a.bars /\ b.orders = a.orders /\ b.closed = a.closed
        /\ b.excursions = a.excursions /\ b.last_id = a.last_id /\ b.positions[s] = q
        /\ \A x \in Symbols : x # s => b.positions[x] = a.positions[x]
    BY <2>4, <2>5 DEF Accounts
  <2>7. ~Weaker(p, q)
    BY <1>2, <2>1, <2>2 DEF Weaker, Worsens
  <2>8. Continues(a, b)
    <3>1. OrdersGoOn(a, b) /\ NewIsNew(a, b)
      BY <1>2, <2>2, <2>6 DEF OrdersGoOn, NewIsNew, Same
    <3>2. \A x \in Symbols : Same(a.positions[x], b.positions[x]) =>
            ~Weaker(a.positions[x], b.positions[x])
            /\ a.positions[x].side = b.positions[x].side
      <4> TAKE x \in Symbols
      <4> HAVE Same(a.positions[x], b.positions[x])
      <4>1. CASE x = s
        BY <2>2, <2>6, <2>7, <4>1
      <4>2. CASE x # s
        BY <2>6, <4>2, StopsStay DEF Same
      <4> QED
        BY <4>1, <4>2
    <3> QED
      BY <3>1, <3>2 DEF Continues, StopsGoOn
  <2>9. Standing(b, s, Len(b.bars[s]))
    <3>1. Measured(b, s, Len(b.bars[s]))
      <4>1. \A from, to : Gains(q, a.bars[s], from, to) = Gains(p, a.bars[s], from, to)
        BY <2>2 DEF Gains, Gain
      <4>2. Measured(a, s, Len(a.bars[s]))
        BY DEF Rested
      <4> QED
        BY <1>2, <2>2, <2>3, <2>6, <4>1, <4>2 DEF Measured, Whole
    <3>2. StopKept(b, s)
      <4> SUFFICES ASSUME Whole(q), q.initial # NoPrice
                   PROVE  q.stop # NoPrice /\ q.initial * q.side <= q.stop * q.side
        BY <2>6 DEF StopKept
      <4>1. p.stop # NoPrice /\ p.initial * p.side <= p.stop * p.side
        BY <1>2, <2>2 DEF Rested, StopKept, Whole
      <4>2. ~(stop * p.side < p.stop * p.side)
        BY <1>2, <4>1 DEF Worsens
      <4> HIDE DEF p
      <4>3. p.initial * p.side \in Int /\ p.stop * p.side \in Int /\ stop * p.side \in Int
        <5>1. p.initial # NoPrice
          BY <2>2
        <5> QED
          BY <2>1, <4>1, <5>1 DEF Prices
      <4> QED
        BY <2>1, <2>2, <4>1, <4>2, <4>3
    <3>3. Named(b)
      BY <2>8, StaysNamed DEF Rested
    <3> QED
      BY <2>6, <3>1, <3>2, <3>3 DEF Standing, Rested, Displays, Signed, Numbered, TradesKept
  <2>10. CloseKept(b, s)
    BY <1>2, <2>2, <2>6 DEF Rested, CloseKept, Close, Whole
  <2>11. OthersKept(s, a, b) /\ Settled(b)
    BY <2>6 DEF OthersKept, Settled
  <2> QED
    BY <2>6, <2>8, <2>9, <2>10, <2>11, RestsAgain
<1> QED
  BY <1>1, <1>2

LEMMA CancelKeeps ==
  ASSUME NEW a \in Accounts, Rested(a), Settled(a), NEW i \in DOMAIN a.orders,
         a.orders[i].status \notin Terminal,
         NEW b, b = [a EXCEPT !.orders[i].status = "cancelled"]
  PROVE  b \in Accounts /\ Rested(b) /\ Settled(b) /\ Continues(a, b) /\ b.last_id = a.last_id
<1> DEFINE o == a.orders[i]
           p == [o EXCEPT !.status = "cancelled"]
           done == [a.orders EXCEPT ![i] = p]
<1>1. o \in Orders /\ a.orders \in Seq(Orders)
  BY ElementOfSeq DEF Accounts
<1>2. /\ p \in Orders /\ p.status = "cancelled" /\ p.id = o.id /\ p.side = o.side
      /\ p.reduce_only = o.reduce_only
  BY <1>1 DEF Orders, Terminal
<1>3. b = [a EXCEPT !.orders = done]
  BY <1>1 DEF Accounts
<1> HIDE DEF p, o
<1>4. /\ done \in Seq(Orders) /\ DOMAIN done = DOMAIN a.orders /\ done[i] = p
      /\ \A j \in DOMAIN a.orders : j # i => done[j] = a.orders[j]
  BY <1>1, <1>2, ExceptSeq
<1> HIDE DEF done
<1>5. /\ b \in Accounts /\ b.bars = a.bars /\ b.orders = done /\ b.closed = a.closed
      /\ b.positions = a.positions /\ b.excursions = a.excursions /\ b.last_id = a.last_id
  BY <1>3, <1>4 DEF Accounts
<1>6. Numbered(b) /\ Settled(b)
  <2>1. \A j \in DOMAIN a.orders : b.orders[j].id = a.orders[j].id /\ b.orders[j].status # "pending"
    BY <1>2, <1>4, <1>5 DEF o, Settled
  <2> QED
    BY <1>4, <1>5, <2>1 DEF Rested, Numbered, Settled
<1>7. Continues(a, b)
  <2>1. OrdersGoOn(a, b)
    <3>1. b.orders[i].side = a.orders[i].side
      BY <1>2, <1>4, <1>5 DEF o
    <3> QED
      BY <1>4, <1>5, <3>1 DEF OrdersGoOn
  <2>2. NewIsNew(a, b)
    BY <1>5 DEF NewIsNew, Same
  <2>3. StopsGoOn(a, b)
    <3>1. \A x \in Symbols : a.positions[x] # NoPosition => ~Weaker(a.positions[x], b.positions[x])
      BY <1>5, StopsStay
    <3> QED
      BY <1>5, <3>1 DEF StopsGoOn, Same
  <2> QED
    BY <2>1, <2>2, <2>3 DEF Continues
<1>8. Rested(b)
  <2>1. Named(b)
    BY <1>7, StaysNamed DEF Rested
  <2>2. Displays(b) /\ Signed(b) /\ TradesKept(b)
    BY <1>5 DEF Rested, Displays, Signed, TradesKept
  <2>3. \A x \in Symbols : Measured(b, x, Len(b.bars[x])) /\ StopKept(b, x) /\ CloseKept(b, x)
    BY <1>5 DEF Rested, Measured, StopKept, CloseKept, Close
  <2> QED
    BY <1>6, <2>1, <2>2, <2>3 DEF Rested
<1> QED
  BY <1>5, <1>6, <1>7, <1>8

-----------------------------------------------------------------------------
(* Double entry: the totals of orders and trades *)

BoughtStep(s, sum, o) == sum + (IF FilledIn(o, s) THEN o.side * o.filled ELSE 0)
PaidStep(s, sum, o) == sum + (IF FilledIn(o, s) THEN o.side * o.filled * o.average ELSE 0)
SoldStep(s, sum, t) == sum + (IF StoppedIn(t, s) THEN t.side * t.quantity ELSE 0)
ReceivedStep(s, sum, t) == sum + (IF StoppedIn(t, s) THEN t.side * t.quantity * t.exit ELSE 0)
ProfitStep(s, sum, t) == sum + (IF t.symbol = s THEN t.pnl ELSE 0)

Buying == INSTANCE FoldProofs WITH Step <- BoughtStep
Paying == INSTANCE FoldProofs WITH Step <- PaidStep
Selling == INSTANCE FoldProofs WITH Step <- SoldStep
Receiving == INSTANCE FoldProofs WITH Step <- ReceivedStep
Profiting == INSTANCE FoldProofs WITH Step <- ProfitStep

Bought(s, placed) == Buying!Folded(s, 0, placed)
Paid(s, placed) == Paying!Folded(s, 0, placed)
Sold(s, trades) == Selling!Folded(s, 0, trades)
Received(s, trades) == Receiving!Folded(s, 0, trades)
Profited(s, trades) == Profiting!Folded(s, 0, trades)

PnlStep(p, sum, t) == sum + t.pnl

Earning == INSTANCE FoldProofs WITH Step <- PnlStep

Earned(trades) == Earning!Folded(0, 0, trades)

\* What an order has filled has a price.
Priced(placed) == \A i \in DOMAIN placed : placed[i].status = "filled" => placed[i].average \in Int

UnitsOf(s, o) == IF FilledIn(o, s) THEN o.side * o.filled ELSE 0
PriceOf(s, o) == IF FilledIn(o, s) THEN o.side * o.filled * o.average ELSE 0

LEMMA OrdersAddUp ==
  ASSUME NEW s, NEW placed \in Seq(Orders), Priced(placed), NEW n, n = Len(placed)
  PROVE  /\ n \in Nat /\ DOMAIN placed = 1..n
         /\ Buying!AddsUp(s, n, placed, [k \in 1..n |-> UnitsOf(s, placed[k])])
         /\ Paying!AddsUp(s, n, placed, [k \in 1..n |-> PriceOf(s, placed[k])])
<1>1. n \in Nat /\ DOMAIN placed = 1..n
  BY LenProperties
<1>2. ASSUME NEW k \in 1..n
      PROVE  UnitsOf(s, placed[k]) \in Int /\ PriceOf(s, placed[k]) \in Int
  <2>1. placed[k] \in Orders
    BY ElementOfSeq
  <2>2. placed[k].side \in Int /\ placed[k].filled \in Int
    BY <2>1 DEF Orders
  <2>3. placed[k].status = "filled" => placed[k].average \in Int
    BY <1>1 DEF Priced
  <2>4. placed[k].side * placed[k].filled \in Int
    BY <2>2
  <2> QED
    BY <2>3, <2>4 DEF UnitsOf, PriceOf, FilledIn
<1>3. Buying!AddsUp(s, n, placed, [k \in 1..n |-> UnitsOf(s, placed[k])])
  BY <1>2 DEF Buying!AddsUp, BoughtStep, UnitsOf
<1>4. Paying!AddsUp(s, n, placed, [k \in 1..n |-> PriceOf(s, placed[k])])
  BY <1>2 DEF Paying!AddsUp, PaidStep, PriceOf
<1> QED
  BY <1>1, <1>3, <1>4

LEMMA OrderTotals ==
  ASSUME NEW s, NEW placed \in Seq(Orders), Priced(placed)
  PROVE  Bought(s, placed) \in Int /\ Paid(s, placed) \in Int
BY OrdersAddUp, Buying!SumType, Paying!SumType DEF Bought, Paid

\* An order that is not filled is nothing in the totals; when it is filled, it adds its own.
LEMMA OrderAppended ==
  ASSUME NEW s, NEW placed \in Seq(Orders), Priced(placed), NEW o \in Orders, o.status # "filled"
  PROVE  Bought(s, Append(placed, o)) = Bought(s, placed) /\ Paid(s, Append(placed, o)) = Paid(s, placed)
<1>1. Bought(s, Append(placed, o)) = BoughtStep(s, Bought(s, placed), o)
  BY Buying!FoldOfAppend DEF Bought
<1>2. Paid(s, Append(placed, o)) = PaidStep(s, Paid(s, placed), o)
  BY Paying!FoldOfAppend DEF Paid
<1> QED
  BY <1>1, <1>2, OrderTotals DEF BoughtStep, PaidStep, FilledIn

LEMMA OrderChanged ==
  ASSUME NEW s, NEW placed \in Seq(Orders), Priced(placed), NEW other \in Seq(Orders), Priced(other),
         DOMAIN other = DOMAIN placed, NEW i \in DOMAIN placed,
         \A k \in DOMAIN placed : k # i => other[k] = placed[k], placed[i].status # "filled"
  PROVE  /\ UnitsOf(s, other[i]) \in Int /\ PriceOf(s, other[i]) \in Int
         /\ Bought(s, other) = Bought(s, placed) + UnitsOf(s, other[i])
         /\ Paid(s, other) = Paid(s, placed) + PriceOf(s, other[i])
<1> DEFINE n == Len(placed)
           units == [k \in 1..n |-> UnitsOf(s, placed[k])]
           more == [k \in 1..n |-> UnitsOf(s, other[k])]
           prices == [k \in 1..n |-> PriceOf(s, placed[k])]
           dearer == [k \in 1..n |-> PriceOf(s, other[k])]
<1>1. n \in Nat /\ DOMAIN placed = 1..n /\ DOMAIN other = 1..n /\ Len(other) = n /\ i \in 1..n
  BY LenProperties
<1>2. Buying!AddsUp(s, n, placed, units) /\ Paying!AddsUp(s, n, placed, prices)
  BY OrdersAddUp
<1>3. Buying!AddsUp(s, n, other, more) /\ Paying!AddsUp(s, n, other, dearer)
  BY <1>1, OrdersAddUp
<1>4. units[i] = 0 /\ prices[i] = 0
  BY <1>1 DEF UnitsOf, PriceOf, FilledIn
<1>5. more[i] = UnitsOf(s, other[i]) /\ dearer[i] = PriceOf(s, other[i])
  BY <1>1
<1>6. Buying!SameBut(i, n, units, more)
  BY <1>1 DEF Buying!SameBut
<1>7. Paying!SameBut(i, n, prices, dearer)
  BY <1>1 DEF Paying!SameBut
<1>8. more[i] \in Int /\ dearer[i] \in Int
  BY <1>1, <1>3 DEF Buying!AddsUp, Paying!AddsUp
<1> HIDE DEF n, units, more, prices, dearer
<1>9. Bought(s, other) = Bought(s, placed) + (more[i] - units[i])
  BY <1>1, <1>2, <1>3, <1>6, Buying!SumOfChange DEF Bought
<1>10. Paid(s, other) = Paid(s, placed) + (dearer[i] - prices[i])
  BY <1>1, <1>2, <1>3, <1>7, Paying!SumOfChange DEF Paid
<1> QED
  BY <1>4, <1>5, <1>8, <1>9, <1>10

LEMMA TradeTotals ==
  ASSUME NEW s, NEW trades \in Seq(Trades)
  PROVE  Sold(s, trades) \in Int /\ Received(s, trades) \in Int /\ Profited(s, trades) \in Int
<1> DEFINE n == Len(trades)
           sold == [k \in 1..n |-> IF StoppedIn(trades[k], s) THEN trades[k].side * trades[k].quantity ELSE 0]
           received == [k \in 1..n |-> IF StoppedIn(trades[k], s)
                                       THEN trades[k].side * trades[k].quantity * trades[k].exit ELSE 0]
           profit == [k \in 1..n |-> IF trades[k].symbol = s THEN trades[k].pnl ELSE 0]
<1>1. n \in Nat /\ DOMAIN trades = 1..n
  BY LenProperties
<1>2. ASSUME NEW k \in 1..n
      PROVE  sold[k] \in Int /\ received[k] \in Int /\ profit[k] \in Int
  <2>1. trades[k] \in Trades
    BY ElementOfSeq
  <2>2. /\ trades[k].side \in {1, -1} /\ trades[k].quantity \in Nat \ {0} /\ trades[k].exit \in Int
        /\ trades[k].pnl \in Int
    <3> HIDE DEF n
    <3> QED
      BY <2>1 DEF Trades
  <2>3. /\ trades[k].side * trades[k].quantity \in Int
        /\ trades[k].side * trades[k].quantity * trades[k].exit \in Int
    BY <2>2
  <2> QED
    BY <2>2, <2>3
<1>3. Selling!AddsUp(s, n, trades, sold)
  BY <1>2 DEF Selling!AddsUp, SoldStep
<1>4. Receiving!AddsUp(s, n, trades, received)
  BY <1>2 DEF Receiving!AddsUp, ReceivedStep
<1>5. Profiting!AddsUp(s, n, trades, profit)
  BY <1>2 DEF Profiting!AddsUp, ProfitStep
<1> HIDE DEF n, sold, received, profit
<1> QED
  BY <1>1, <1>3, <1>4, <1>5, Selling!SumType, Receiving!SumType, Profiting!SumType
     DEF Sold, Received, Profited

LEMMA TradeAppended ==
  ASSUME NEW s, NEW trades \in Seq(Trades), NEW t \in Trades
  PROVE  /\ Sold(s, Append(trades, t))
              = Sold(s, trades) + (IF StoppedIn(t, s) THEN t.side * t.quantity ELSE 0)
         /\ Received(s, Append(trades, t))
              = Received(s, trades) + (IF StoppedIn(t, s) THEN t.side * t.quantity * t.exit ELSE 0)
         /\ Profited(s, Append(trades, t)) = Profited(s, trades) + (IF t.symbol = s THEN t.pnl ELSE 0)
<1>1. Sold(s, Append(trades, t)) = SoldStep(s, Sold(s, trades), t)
  BY Selling!FoldOfAppend DEF Sold
<1>2. Received(s, Append(trades, t)) = ReceivedStep(s, Received(s, trades), t)
  BY Receiving!FoldOfAppend DEF Received
<1>3. Profited(s, Append(trades, t)) = ProfitStep(s, Profited(s, trades), t)
  BY Profiting!FoldOfAppend DEF Profited
<1> QED
  BY <1>1, <1>2, <1>3 DEF SoldStep, ReceivedStep, ProfitStep

LEMMA EarnedType ==
  ASSUME NEW trades \in Seq(Trades)
  PROVE  Earned(trades) \in Int
<1>1. Len(trades) \in Nat /\ DOMAIN trades = 1..Len(trades)
  BY LenProperties
<1>2. \A k \in 1..Len(trades) : \A sum \in Int : PnlStep(0, sum, trades[k]) \in Int
  <2>1. \A k \in 1..Len(trades) : trades[k] \in Trades
    BY ElementOfSeq
  <2>2. \A k \in 1..Len(trades) : trades[k].pnl \in Int
    BY <2>1 DEF Trades
  <2> QED
    BY <2>2 DEF PnlStep
<1>3. \A zero \in Int : Earning!Folded(0, zero, trades) \in Int
  BY <1>1, <1>2, Earning!FoldKeeps
<1> QED
  BY <1>3 DEF Earned

LEMMA EarnedMore ==
  ASSUME NEW trades \in Seq(Trades), NEW t \in Trades
  PROVE  Earned(Append(trades, t)) = Earned(trades) + t.pnl
BY Earning!FoldOfAppend DEF Earned, PnlStep

-----------------------------------------------------------------------------
(* Double entry: what a deal does to the books *)

UnitsIn(a, s) ==
  IF a.positions[s] = NoPosition THEN 0 ELSE a.positions[s].side * a.positions[s].quantity

CostIn(a, s) == IF a.positions[s] = NoPosition THEN 0 ELSE UnitsIn(a, s) * a.positions[s].entry

UnitsKept(a) == \A s \in Symbols : UnitsIn(a, s) = Bought(s, a.orders) - Sold(s, a.closed)

CashKept(a) == a.cash = InitialBalance + Earned(a.closed)

Outlay(a, s) == CostIn(a, s) - (Paid(s, a.orders) - Received(s, a.closed))

MoneyKept(a) == \A s \in Symbols : Profited(s, a.closed) = ContractSize * Outlay(a, s)

LEMMA BooksType ==
  ASSUME NEW a \in Accounts, NEW s \in Symbols
  PROVE  /\ UnitsIn(a, s) \in Int /\ CostIn(a, s) \in Int /\ ContractSize \in Int
         /\ Sold(s, a.closed) \in Int /\ Received(s, a.closed) \in Int /\ Profited(s, a.closed) \in Int
         /\ Priced(a.orders) => Bought(s, a.orders) \in Int /\ Paid(s, a.orders) \in Int
<1>1. a.closed \in Seq(Trades) /\ a.orders \in Seq(Orders)
  BY DEF Accounts
<1>2. a.positions[s] # NoPosition => a.positions[s].side * a.positions[s].quantity \in Int
                                     /\ a.positions[s].entry \in Int
  <2> HAVE a.positions[s] # NoPosition
  <2>1. a.positions[s] \in Positions
    BY DEF Accounts
  <2>2. a.positions[s].side \in Int /\ a.positions[s].quantity \in Int /\ a.positions[s].entry \in Int
    BY <2>1 DEF Positions
  <2> QED
    BY <2>2
<1>3. UnitsIn(a, s) \in Int
  BY <1>2 DEF UnitsIn
<1>4. CostIn(a, s) \in Int
  BY <1>2, <1>3 DEF CostIn
<1> QED
  BY <1>1, <1>3, <1>4, TradeTotals, OrderTotals, AccountAssumption

\* The result of closing a quantity is what its units bring less what they cost.
Brings(units, price, entry, pnl) ==
  /\ units \in Int /\ units * price \in Int /\ units * entry \in Int
  /\ pnl = ContractSize * (units * price - units * entry)

LEMMA PnlOfUnits ==
  ASSUME NEW side \in {1, -1}, NEW quantity \in Nat, NEW price \in Int, NEW entry \in Int
  PROVE  Brings(side * quantity, price, entry, (price - entry) * side * quantity * ContractSize)
<1> DEFINE units == side * quantity
<1>1. units \in Int /\ (price - entry) * side * quantity = units * price - units * entry
  <2>1. CASE side = 1
    BY <2>1
  <2>2. CASE side = -1
    BY <2>2
  <2> QED
    BY <2>1, <2>2
<1> HIDE DEF units
<1>2. units * price \in Int /\ units * entry \in Int
  BY <1>1
<1>3. ContractSize \in Int
  BY AccountAssumption
<1>4. \A m \in Int : m * ContractSize = ContractSize * m
  BY <1>3
<1>5. units * price - units * entry \in Int
  BY <1>2
<1>6. (price - entry) * side * quantity * ContractSize
        = ContractSize * (units * price - units * entry)
  BY <1>1, <1>4, <1>5
<1> QED
  BY <1>1, <1>2, <1>6 DEF units, Brings

\* A position, held at entry, loses units at a price, to an exit of a bar or to an order.
Cuts(a, b, s, units, entry, price, exited) ==
  /\ units \in Int /\ entry \in Int /\ units * price \in Int /\ units * entry \in Int
  /\ UnitsIn(b, s) = UnitsIn(a, s) - units
  /\ CostIn(b, s) = CostIn(a, s) - units * entry
  /\ Profited(s, b.closed) = Profited(s, a.closed) + ContractSize * (units * price - units * entry)
  /\ Sold(s, b.closed) = Sold(s, a.closed) + (IF exited THEN units ELSE 0)
  /\ Received(s, b.closed) = Received(s, a.closed) + (IF exited THEN units * price ELSE 0)
  /\ \A r \in Symbols : r # s =>
       /\ UnitsIn(b, r) = UnitsIn(a, r) /\ CostIn(b, r) = CostIn(a, r)
       /\ Profited(r, b.closed) = Profited(r, a.closed)
       /\ Sold(r, b.closed) = Sold(r, a.closed) /\ Received(r, b.closed) = Received(r, a.closed)
  /\ CashKept(a) => CashKept(b)

LEMMA ReduceBooks ==
  ASSUME NEW a \in Accounts, NEW s \in Symbols, a.positions[s] # NoPosition,
         NEW quantity \in 1..a.positions[s].quantity, NEW price \in Int, NEW reason \in Reasons,
         NEW last \in Nat, NEW b, Reduces(a, b, s, quantity, price, reason, last)
  PROVE  Cuts(a, b, s, a.positions[s].side * quantity, a.positions[s].entry, price,
              reason \in {"stop_loss", "take_profit"})
<1> DEFINE held == a.positions[s]
           units == held.side * quantity
           t == Trade(a, s, quantity, price, reason, last)
<1>1. /\ held \in Positions /\ held.quantity \in Nat \ {0} /\ held.side \in {1, -1}
      /\ held.entry \in Int /\ quantity \in Nat \ {0} /\ ContractSize \in Int
      /\ a.closed \in Seq(Trades) /\ a.cash \in Int
  BY AccountAssumption DEF Accounts, Positions
<1>2. /\ t \in Trades /\ t.symbol = s /\ t.side = held.side /\ t.quantity = quantity
      /\ t.exit = price /\ t.reason = reason
  BY <1>1, TradeType
<1>3. t.pnl = (price - held.entry) * held.side * quantity * ContractSize
  BY DEF Trade
<1>4. b.closed = Append(a.closed, t) /\ b.cash = a.cash + t.pnl
      /\ b.positions[s] = Rest(held, quantity) /\ OthersKept(s, a, b)
  BY DEF Reduces
<1> HIDE DEF t
<1>5. /\ units \in Int /\ units * price \in Int /\ units * held.entry \in Int
      /\ t.pnl = ContractSize * (units * price - units * held.entry)
  <2>1. held.side \in {1, -1} /\ quantity \in Nat /\ held.entry \in Int /\ ContractSize \in Int
    BY <1>1
  <2>2. Brings(held.side * quantity, price, held.entry,
               (price - held.entry) * held.side * quantity * ContractSize)
    BY <2>1, PnlOfUnits
  <2> QED
    BY <1>3, <2>2 DEF Brings
<1>6. UnitsIn(b, s) = UnitsIn(a, s) - units /\ CostIn(b, s) = CostIn(a, s) - units * held.entry
  <2> DEFINE all == held.side * held.quantity
             rest == held.quantity - quantity
  <2>1. UnitsIn(a, s) = all /\ CostIn(a, s) = all * held.entry
    BY DEF UnitsIn, CostIn
  <2>2. all \in Int /\ rest \in Int /\ held.side * rest = all - units
    <3>1. \A x \in {1, -1}, y, z \in Int : x * y \in Int /\ y - z \in Int /\ x * (y - z) = x * y - x * z
      OBVIOUS
    <3>2. held.side \in {1, -1} /\ held.quantity \in Int /\ quantity \in Int
      BY <1>1
    <3> QED
      BY <3>1, <3>2, Zenon
  <2>3. (all - units) * held.entry = all * held.entry - units * held.entry
    <3>1. \A x, y, z \in Int : (x - y) * z = x * z - y * z
      OBVIOUS
    <3>2. all \in Int /\ units \in Int /\ held.entry \in Int
      BY <1>1, <1>5, <2>2
    <3> HIDE DEF all
    <3> QED
      BY <3>1, <3>2, Zenon
  <2>4. CASE quantity >= held.quantity
    <3>1. b.positions[s] = NoPosition /\ quantity = held.quantity
      BY <1>1, <1>4, <2>4, RestType
    <3>2. units = all /\ all \in Int /\ all * held.entry \in Int
      BY <1>5, <3>1
    <3> HIDE DEF all
    <3> QED
      BY <2>1, <3>1, <3>2 DEF UnitsIn, CostIn
  <2>5. CASE quantity < held.quantity
    <3> DEFINE p == b.positions[s]
    <3>1. p = [held EXCEPT !.quantity = rest, !.resized = TRUE]
      BY <1>1, <1>4, <2>5 DEF Rest
    <3>2. p \in Positions /\ p.side = held.side
      BY <1>1, <1>4, <2>5, RestType
    <3>3. p.quantity = rest /\ p.entry = held.entry /\ p # NoPosition
      BY <1>1, <3>1, <3>2, AccountAssumption DEF Positions
    <3>4. UnitsIn(b, s) = all - units
      BY <2>2, <3>2, <3>3 DEF UnitsIn
    <3>5. CostIn(b, s) = (all - units) * held.entry
      BY <3>3, <3>4 DEF CostIn
    <3> QED
      BY <2>1, <2>3, <3>4, <3>5
  <2> QED
    BY <1>1, <2>4, <2>5
<1>7. \A r \in Symbols : r # s => UnitsIn(b, r) = UnitsIn(a, r) /\ CostIn(b, r) = CostIn(a, r)
  BY <1>4 DEF OthersKept, UnitsIn, CostIn
<1>8. ASSUME NEW r \in Symbols
      PROVE  /\ Sold(r, b.closed)
                  = Sold(r, a.closed) + (IF StoppedIn(t, r) THEN t.side * t.quantity ELSE 0)
             /\ Received(r, b.closed)
                  = Received(r, a.closed) + (IF StoppedIn(t, r) THEN t.side * t.quantity * t.exit ELSE 0)
             /\ Profited(r, b.closed) = Profited(r, a.closed) + (IF t.symbol = r THEN t.pnl ELSE 0)
             /\ Sold(r, a.closed) \in Int /\ Received(r, a.closed) \in Int /\ Profited(r, a.closed) \in Int
  BY <1>1, <1>2, <1>4, TradeAppended, TradeTotals
<1>9. CashKept(a) => CashKept(b)
  <2>1. Earned(b.closed) = Earned(a.closed) + t.pnl /\ Earned(a.closed) \in Int /\ t.pnl \in Int
    BY <1>1, <1>2, <1>4, EarnedMore, EarnedType DEF Trades
  <2>2. InitialBalance \in Int
    BY AccountAssumption
  <2> QED
    BY <1>4, <2>1, <2>2 DEF CashKept
<1>10. t.side * t.quantity = units /\ t.side * t.quantity * t.exit = units * price
  BY <1>2
<1>11. \A r \in Symbols : StoppedIn(t, r) <=> r = s /\ reason \in {"stop_loss", "take_profit"}
  BY <1>2 DEF StoppedIn
<1>12. \A r \in Symbols : r # s =>
              /\ Profited(r, b.closed) = Profited(r, a.closed)
              /\ Sold(r, b.closed) = Sold(r, a.closed) /\ Received(r, b.closed) = Received(r, a.closed)
  BY <1>2, <1>8, <1>11
<1>13. /\ Profited(s, b.closed)
            = Profited(s, a.closed) + ContractSize * (units * price - units * held.entry)
       /\ LET exited == reason \in {"stop_loss", "take_profit"}
          IN  /\ Sold(s, b.closed) = Sold(s, a.closed) + (IF exited THEN units ELSE 0)
              /\ Received(s, b.closed) = Received(s, a.closed) + (IF exited THEN units * price ELSE 0)
  BY <1>2, <1>5, <1>8, <1>10, <1>11
<1> HIDE DEF held, units
<1>14. Cuts(a, b, s, units, held.entry, price, reason \in {"stop_loss", "take_profit"})
  BY <1>1, <1>5, <1>6, <1>7, <1>9, <1>12, <1>13 DEF Cuts
<1> QED
  BY <1>14 DEF held, units

-----------------------------------------------------------------------------
(* Double entry: the fills *)

\* Positions and trades, which make account c of a, have n units of s more; no other symbol
\* has, no order knows of it yet, and no exit of a bar was among it.
Deals(a, c, s, n) ==
  /\ c \in Accounts /\ c.orders = a.orders /\ n \in Int
  /\ UnitsIn(c, s) = UnitsIn(a, s) + n
  /\ CashKept(a) => CashKept(c)
  /\ \A r \in Symbols : Sold(r, c.closed) = Sold(r, a.closed) /\ Received(r, c.closed) = Received(r, a.closed)
  /\ \A r \in Symbols : r # s =>
       /\ UnitsIn(c, r) = UnitsIn(a, r) /\ CostIn(c, r) = CostIn(a, r)
       /\ Profited(r, c.closed) = Profited(r, a.closed)

\* What the trades have made is what the units went for above what they were held at.
Fairly(a, c, s, n, price) ==
  \E gain \in Int :
    /\ Profited(s, c.closed) = Profited(s, a.closed) + ContractSize * gain
    /\ CostIn(c, s) = CostIn(a, s) + n * price + gain

LEMMA DealsOn ==
  ASSUME NEW a \in Accounts, NEW c \in Accounts, NEW d \in Accounts, NEW s \in Symbols,
         NEW m, NEW n, NEW price \in Int,
         Deals(a, c, s, m), Fairly(a, c, s, m, price), Deals(c, d, s, n), Fairly(c, d, s, n, price)
  PROVE  Deals(a, d, s, m + n) /\ Fairly(a, d, s, m + n, price)
<1>1. m \in Int /\ n \in Int
  BY DEF Deals
<1>2. Deals(a, d, s, m + n)
  BY <1>1, BooksType DEF Deals
<1>3. PICK gain \in Int :
        /\ Profited(s, c.closed) = Profited(s, a.closed) + ContractSize * gain
        /\ CostIn(c, s) = CostIn(a, s) + m * price + gain
  BY DEF Fairly
<1>4. PICK more \in Int :
        /\ Profited(s, d.closed) = Profited(s, c.closed) + ContractSize * more
        /\ CostIn(d, s) = CostIn(c, s) + n * price + more
  BY DEF Fairly
<1>5. /\ CostIn(a, s) \in Int /\ Profited(s, a.closed) \in Int /\ ContractSize \in Int
      /\ m * price \in Int /\ n * price \in Int /\ gain + more \in Int
      /\ ContractSize * gain \in Int /\ ContractSize * more \in Int
  BY <1>1, BooksType
<1>6. /\ (m + n) * price = m * price + n * price
      /\ ContractSize * (gain + more) = ContractSize * gain + ContractSize * more
  <2>1. \A x, y, z \in Int : (x + y) * z = x * z + y * z /\ z * (x + y) = z * x + z * y
    OBVIOUS
  <2> QED
    BY <1>1, <1>5, <2>1
<1>7. /\ Profited(s, d.closed) = Profited(s, a.closed) + ContractSize * (gain + more)
      /\ CostIn(d, s) = CostIn(a, s) + (m + n) * price + (gain + more)
  <2> DEFINE all == (m + n) * price
             profit == ContractSize * (gain + more)
  <2>1. all = m * price + n * price /\ profit = ContractSize * gain + ContractSize * more
    BY <1>6
  <2> HIDE DEF all, profit
  <2>2. Profited(s, d.closed) = Profited(s, a.closed) + profit
    BY <1>3, <1>4, <1>5, <2>1
  <2>3. CostIn(d, s) = CostIn(a, s) + all + (gain + more)
    BY <1>3, <1>4, <1>5, <2>1
  <2> QED
    BY <2>2, <2>3 DEF all, profit
<1> QED
  BY <1>2, <1>5, <1>7 DEF Fairly

\* An order against the position.
LEMMA AgainstDeals ==
  ASSUME NEW a \in Accounts, NEW o \in Orders, NEW price \in Int, NEW reason \in {"exit", "signal"},
         Len(a.bars[o.symbol]) >= 1, a.positions[o.symbol] # NoPosition,
         a.positions[o.symbol].side # o.side
  PROVE  LET s == o.symbol
             c == Against(a, o, price, reason)
             quantity == Lesser(a.positions[s].quantity, o.quantity)
         IN  Deals(a, c, s, o.side * quantity) /\ Fairly(a, c, s, o.side * quantity, price)
<1> DEFINE s == o.symbol
           held == a.positions[s]
           c == Against(a, o, price, reason)
           units == held.side * Lesser(held.quantity, o.quantity)
           n == o.side * Lesser(held.quantity, o.quantity)
<1>1. s \in Symbols /\ held \in Positions /\ o.side \in {1, -1} /\ held.side \in {1, -1}
  BY DEF Accounts, Orders, Positions
<1>3. reason \in Reasons
  BY DEF Reasons
<1>2. PICK quantity \in Nat \ {0} :
        /\ quantity = Lesser(held.quantity, o.quantity) /\ quantity \in 1..held.quantity
        /\ Reduces(a, c, s, quantity, price, reason, BarsMet(a, o))
  BY <1>3, AgainstChanges
<1>33. BarsMet(a, o) \in Nat
  BY OpenedType
<1>4. units = held.side * quantity /\ n = -units /\ n \in Int /\ units \in Int
  <2>1. held.side = -o.side
    BY <1>1
  <2>2. CASE o.side = 1
    BY <1>2, <2>1, <2>2
  <2>3. CASE o.side = -1
    BY <1>2, <2>1, <2>3
  <2> QED
    BY <1>1, <2>2, <2>3
<1> HIDE DEF s, held, c, units, n
<1>5. Cuts(a, c, s, units, held.entry, price, FALSE)
  <2>1. /\ a.positions[s] # NoPosition /\ units = a.positions[s].side * quantity
        /\ held.entry = a.positions[s].entry /\ quantity \in 1..a.positions[s].quantity
    BY <1>2, <1>4 DEF held, s
  <2>2. Cuts(a, c, s, a.positions[s].side * quantity, a.positions[s].entry, price,
             reason \in {"stop_loss", "take_profit"})
    BY <1>1, <1>2, <1>3, <1>33, <2>1, ReduceBooks
  <2>3. (reason \in {"stop_loss", "take_profit"}) = FALSE
    OBVIOUS
  <2> QED
    BY <2>1, <2>2, <2>3
<1>7. Sold(s, c.closed) = Sold(s, a.closed) /\ Received(s, c.closed) = Received(s, a.closed)
  BY <1>1, <1>5, BooksType DEF Cuts
<1>8. c \in Accounts /\ c.orders = a.orders
  BY <1>2 DEF Reduces
<1>9. Deals(a, c, s, n)
  <2>1. UnitsIn(c, s) = UnitsIn(a, s) + n
    BY <1>1, <1>4, <1>5, BooksType DEF Cuts
  <2> QED
    BY <1>4, <1>5, <1>7, <1>8, <2>1 DEF Deals, Cuts
<1>10. Fairly(a, c, s, n, price)
  <2> DEFINE gain == units * price - units * held.entry
  <2>1. n * price = -(units * price)
    BY <1>4
  <2>2. gain \in Int /\ CostIn(a, s) \in Int
    BY <1>1, <1>5, BooksType DEF Cuts
  <2>3. CostIn(c, s) = CostIn(a, s) + n * price + gain
    <3>1. \A k, x, y \in Int : k - y = k + (-x) + (x - y)
      OBVIOUS
    <3>2. /\ CostIn(c, s) = CostIn(a, s) - units * held.entry
          /\ units * price \in Int /\ units * held.entry \in Int
      BY <1>5 DEF Cuts
    <3>3. CostIn(a, s) - units * held.entry = CostIn(a, s) + (-(units * price)) + gain
      BY <2>2, <3>1, <3>2
    <3> QED
      BY <2>1, <3>2, <3>3
  <2> QED
    BY <1>5, <2>2, <2>3 DEF Fairly, Cuts
<1> QED
  BY <1>9, <1>10 DEF s, held, c, n

\* An order of a symbol that holds nothing, or that holds it on the side of the order.
LEMMA OpenDeals ==
  ASSUME NEW a \in Accounts, NEW o \in Orders, NEW quantity \in Nat \ {0}, NEW price \in Int,
         Len(a.bars[o.symbol]) >= 1,
         a.positions[o.symbol] = NoPosition \/ a.positions[o.symbol].side = o.side
  PROVE  LET c == OpenPosition(a, o, quantity, price)
         IN  /\ Deals(a, c, o.symbol, o.side * quantity)
             /\ a.positions[o.symbol] = NoPosition => Fairly(a, c, o.symbol, o.side * quantity, price)
<1> DEFINE s == o.symbol
           held == a.positions[s]
           c == OpenPosition(a, o, quantity, price)
           n == o.side * quantity
<1>1. s \in Symbols /\ o.side \in {1, -1} /\ held \in Positions \union {NoPosition} /\ n \in Int
  BY DEF Accounts, Orders
<1>2. Increases(a, c, o, quantity, price)
  BY OpenChanges
<1> HIDE DEF c, n
<1>3. c \in Accounts /\ c.orders = a.orders /\ c.closed = a.closed /\ c.cash = a.cash
      /\ OthersKept(s, a, c)
  BY <1>2 DEF Increases
<1>4. \A r \in Symbols : r # s => UnitsIn(c, r) = UnitsIn(a, r) /\ CostIn(c, r) = CostIn(a, r)
  BY <1>3 DEF OthersKept, UnitsIn, CostIn
<1>5. CashKept(a) => CashKept(c)
  BY <1>3 DEF CashKept
<1>6. CASE held = NoPosition
  <2>1. c.positions[s] = Opened(a, o, quantity, price)
    BY <1>2, <1>6 DEF Increases
  <2>2. c.positions[s] \in Positions
    BY <1>1, <2>1, OpenedType
  <2>3. c.positions[s] # NoPosition
    BY <2>2, AccountAssumption
  <2>4. c.positions[s].side * c.positions[s].quantity = n /\ c.positions[s].entry = price
    BY <2>1 DEF Opened, n
  <2> HIDE DEF s
  <2>5. UnitsIn(c, s) = n /\ UnitsIn(a, s) = 0 /\ CostIn(a, s) = 0
    BY <1>6, <2>3, <2>4 DEF UnitsIn, CostIn, held
  <2>6. CostIn(c, s) = n * price /\ n * price \in Int
    BY <1>1, <2>3, <2>4, <2>5 DEF CostIn
  <2>7. Deals(a, c, s, n)
    BY <1>1, <1>3, <1>4, <1>5, <2>5 DEF Deals
  <2>8. Fairly(a, c, s, n, price)
    <3>1. 0 \in Int /\ Profited(s, c.closed) = Profited(s, a.closed) + ContractSize * 0
      BY <1>1, <1>3, BooksType
    <3>2. CostIn(c, s) = CostIn(a, s) + n * price + 0
      BY <2>5, <2>6
    <3> QED
      BY <3>1, <3>2 DEF Fairly
  <2> QED
    BY <2>7, <2>8 DEF c, n, s
<1>7. CASE held # NoPosition
  <2>1. held \in Positions /\ held.side = o.side /\ held.quantity \in Nat
    BY <1>1, <1>7 DEF Positions
  <2>2. c.positions[s] = Enlarged(held, o, quantity, price)
    BY <1>2, <1>7 DEF Increases
  <2>3. c.positions[s] \in Positions
    BY <1>1, <2>1, <2>2, EnlargedType
  <2>4. c.positions[s] # NoPosition
    BY <2>3, AccountAssumption
  <2>5. c.positions[s].side = held.side /\ c.positions[s].quantity = held.quantity + quantity
    BY <2>1, <2>2 DEF Enlarged, Positions
  <2>6. UnitsIn(a, s) = held.side * held.quantity
    BY <1>7 DEF UnitsIn
  <2>7. UnitsIn(c, s) = held.side * (held.quantity + quantity)
    BY <2>4, <2>5 DEF UnitsIn
  <2>8. held.side * (held.quantity + quantity) = held.side * held.quantity + n
    <3>1. \A x \in {1, -1}, y, z \in Int : x * (y + z) = x * y + x * z
      OBVIOUS
    <3>2. held.side \in {1, -1} /\ held.quantity \in Int /\ quantity \in Int /\ n = held.side * quantity
      BY <1>1, <2>1 DEF n
    <3> QED
      BY <3>1, <3>2
  <2> HIDE DEF s
  <2>9. Deals(a, c, s, n)
    BY <1>1, <1>3, <1>4, <1>5, <2>6, <2>7, <2>8 DEF Deals
  <2> QED
    BY <1>7, <2>9 DEF c, n, s, held
<1> QED
  BY <1>6, <1>7

\* An order that turns a position around.
LEMMA TurnDeals ==
  ASSUME NEW a \in Accounts, NEW o \in Orders, NEW price \in Int, NEW reason \in {"exit", "signal"},
         Len(a.bars[o.symbol]) >= 1, a.positions[o.symbol] # NoPosition,
         a.positions[o.symbol].side # o.side
  PROVE  LET c == Turn(a, o, price, reason)
         IN  /\ Deals(a, c, o.symbol, o.side * o.quantity)
             /\ Fairly(a, c, o.symbol, o.side * o.quantity, price)
<1> DEFINE s == o.symbol
           held == a.positions[s]
           reduced == Against(a, o, price, reason)
           rest == o.quantity - held.quantity
           c == Turn(a, o, price, reason)
           quantity == Lesser(held.quantity, o.quantity)
<1>1. /\ s \in Symbols /\ held \in Positions /\ o.side \in {1, -1}
      /\ held.quantity \in Nat \ {0} /\ o.quantity \in Nat \ {0}
  BY DEF Accounts, Orders, Positions
<1>2. Deals(a, reduced, s, o.side * quantity) /\ Fairly(a, reduced, s, o.side * quantity, price)
  BY AgainstDeals
<1>3. CASE rest > 0
  <2>1. c = OpenPosition(reduced, o, rest, price) /\ rest \in Nat \ {0}
    BY <1>1, <1>3 DEF Turn
  <2>2. quantity = held.quantity
    BY <1>1, <1>3 DEF Lesser
  <2>3. reason \in Reasons
    BY DEF Reasons
  <2>4. PICK some \in Nat \ {0} :
          /\ some = quantity /\ Reduces(a, reduced, s, some, price, reason, BarsMet(a, o))
    BY <2>3, AgainstChanges
  <2>5. reduced.positions[s] = NoPosition /\ reduced.bars = a.bars /\ reduced \in Accounts
    <3>1. some = held.quantity
      BY <2>2, <2>4
    <3> QED
      BY <1>1, <2>4, <3>1 DEF Reduces, Rest
  <2> HIDE DEF c, reduced, rest, quantity
  <2>6. Deals(reduced, c, s, o.side * rest) /\ Fairly(reduced, c, s, o.side * rest, price)
    BY <2>1, <2>5, OpenDeals
  <2>7. c \in Accounts
    BY <2>6 DEF Deals
  <2>8. /\ Deals(a, c, s, o.side * quantity + o.side * rest)
        /\ Fairly(a, c, s, o.side * quantity + o.side * rest, price)
    BY <1>1, <1>2, <2>5, <2>6, <2>7, DealsOn
  <2>9. o.side * quantity + o.side * rest = o.side * o.quantity
    <3>1. \A x \in {1, -1}, y, z \in Int : x * y + x * (z - y) = x * z
      OBVIOUS
    <3>2. quantity \in Int /\ o.quantity \in Int /\ rest = o.quantity - quantity
      BY <1>1, <2>2 DEF rest
    <3> QED
      BY <1>1, <3>1, <3>2
  <2> QED
    BY <2>8, <2>9 DEF c
<1>4. CASE ~(rest > 0)
  <2>1. c = reduced
    BY <1>4 DEF Turn
  <2>2. quantity = o.quantity
    BY <1>1, <1>4 DEF Lesser
  <2> HIDE DEF c, reduced, rest, quantity
  <2> QED
    BY <1>2, <2>1, <2>2 DEF c
<1> QED
  BY <1>3, <1>4

-----------------------------------------------------------------------------
(* Double entry: what each operation keeps *)

InBalance(a) == Priced(a.orders) /\ UnitsKept(a) /\ CashKept(a)

\* Nothing of what the books are made of has changed.
SameBooks(a, b) ==
  /\ Priced(a.orders) => Priced(b.orders)
  /\ b.closed = a.closed /\ b.cash = a.cash
  /\ \A s \in Symbols :
       /\ UnitsIn(b, s) = UnitsIn(a, s) /\ CostIn(b, s) = CostIn(a, s)
       /\ Priced(a.orders) =>
            Bought(s, b.orders) = Bought(s, a.orders) /\ Paid(s, b.orders) = Paid(s, a.orders)

LEMMA SameInBalance ==
  ASSUME NEW a, NEW b, SameBooks(a, b), InBalance(a)
  PROVE  InBalance(b) /\ (MoneyKept(a) => MoneyKept(b))
<1>1. InBalance(b)
  BY DEF SameBooks, InBalance, UnitsKept, CashKept
<1>2. \A s \in Symbols : Outlay(b, s) = Outlay(a, s)
  BY DEF SameBooks, InBalance, Outlay
<1>3. MoneyKept(a) => MoneyKept(b)
  BY <1>2 DEF SameBooks, MoneyKept
<1> QED
  BY <1>1, <1>3

\* An order that takes another status than filled is nothing in the totals, as it was.
LEMMA StatusBooks ==
  ASSUME NEW a \in Accounts, NEW i \in DOMAIN a.orders, a.orders[i].status # "filled",
         NEW b, b.orders \in Seq(Orders), DOMAIN b.orders = DOMAIN a.orders,
         \A j \in DOMAIN a.orders : j # i => b.orders[j] = a.orders[j],
         b.orders[i].status # "filled",
         b.positions = a.positions, b.closed = a.closed, b.cash = a.cash
  PROVE  SameBooks(a, b)
<1>1. a.orders \in Seq(Orders)
  BY DEF Accounts
<1>2. Priced(a.orders) => Priced(b.orders)
  BY DEF Priced
<1>3. \A s \in Symbols : UnitsIn(b, s) = UnitsIn(a, s) /\ CostIn(b, s) = CostIn(a, s)
  BY DEF UnitsIn, CostIn
<1>4. ASSUME NEW s \in Symbols, Priced(a.orders)
      PROVE  Bought(s, b.orders) = Bought(s, a.orders) /\ Paid(s, b.orders) = Paid(s, a.orders)
  <2>1. UnitsOf(s, b.orders[i]) = 0 /\ PriceOf(s, b.orders[i]) = 0
    BY DEF UnitsOf, PriceOf, FilledIn
  <2>2. /\ Bought(s, b.orders) = Bought(s, a.orders) + UnitsOf(s, b.orders[i])
        /\ Paid(s, b.orders) = Paid(s, a.orders) + PriceOf(s, b.orders[i])
    BY <1>1, <1>2, <1>4, OrderChanged
  <2>3. Bought(s, a.orders) \in Int /\ Paid(s, a.orders) \in Int
    BY <1>1, <1>4, OrderTotals
  <2> QED
    BY <2>1, <2>2, <2>3
<1> QED
  BY <1>2, <1>3, <1>4 DEF SameBooks

LEMMA RejectedBooks ==
  ASSUME NEW a \in Accounts, NEW i \in DOMAIN a.orders, a.orders[i].status # "filled"
  PROVE  SameBooks(a, Rejected(a, i))
<1> DEFINE b == Rejected(a, i)
<1>1. Marks(a, b, i, "rejected")
  <2>1. 0 \in Nat /\ 0 \in Int
    OBVIOUS
  <2> QED
    BY <2>1, StatusChanges
<1> HIDE DEF b
<1>2. b.orders \in Seq(Orders)
  BY <1>1 DEF Marks, Accounts
<1>3. SameBooks(a, b)
  BY <1>1, <1>2, StatusBooks DEF Marks
<1> QED
  BY <1>3 DEF b

\* The order that was dealt for is filled.
LEMMA FilledBooks ==
  ASSUME NEW a \in Accounts, NEW i \in DOMAIN a.orders, a.orders[i].status # "filled",
         NEW quantity \in Nat, NEW price \in Int, NEW c,
         Deals(a, c, a.orders[i].symbol, a.orders[i].side * quantity), InBalance(a)
  PROVE  LET b == Filled(c, i, quantity, price)
             s == a.orders[i].symbol
         IN  /\ InBalance(b)
             /\ MoneyKept(a) /\ Fairly(a, c, s, a.orders[i].side * quantity, price) => MoneyKept(b)
<1> DEFINE o == a.orders[i]
           s == o.symbol
           n == o.side * quantity
           b == Filled(c, i, quantity, price)
<1>1. /\ o \in Orders /\ s \in Symbols /\ a.orders \in Seq(Orders) /\ n \in Int /\ n * price \in Int
      /\ o.side \in {1, -1}
  <2>1. a.orders \in Seq(Orders)
    BY DEF Accounts
  <2>2. o \in Orders
    BY <2>1, ElementOfSeq
  <2>3. s \in Symbols /\ o.side \in {1, -1}
    BY <2>2 DEF Orders
  <2>4. n \in Int
    BY <2>3
  <2> HIDE DEF n, o
  <2> QED
    BY <2>1, <2>2, <2>3, <2>4
<1>2. c \in Accounts /\ c.orders = a.orders
  BY DEF Deals
<1>3. Marks(c, b, i, "filled")
  BY <1>2, StatusChanges
<1>4. /\ b.orders[i].symbol = s /\ b.orders[i].side = o.side /\ b.orders[i].status = "filled"
      /\ b.orders[i].filled = quantity /\ b.orders[i].average = price
  <2>1. c.orders[i] \in [symbol : Symbols, side : {1, -1}, quantity : Nat \ {0}, type : OrderTypes,
          trigger : Prices, stop : Prices, target : Prices, reduce_only : BOOLEAN, id : Nat,
          status : Terminal \union {"pending", "open"}, filled : Nat, average : Prices]
    BY <1>1, <1>2 DEF Orders
  <2>2. b = [c EXCEPT !.orders = [c.orders EXCEPT ![i] =
               [c.orders[i] EXCEPT !.status = "filled", !.filled = quantity, !.average = price]]]
    BY <1>2, <2>1 DEF Filled, Accounts
  <2>3. b.orders[i] = [c.orders[i] EXCEPT !.status = "filled", !.filled = quantity, !.average = price]
    <3>1. i \in DOMAIN c.orders
      BY <1>2
    <3> QED
      BY <1>2, <2>2, <3>1 DEF Accounts
  <2> QED
    BY <1>2, <2>1, <2>3
<1> HIDE DEF b, s, n
<1>5. /\ b.orders \in Seq(Orders) /\ DOMAIN b.orders = DOMAIN a.orders
      /\ \A j \in DOMAIN a.orders : j # i => b.orders[j] = a.orders[j]
      /\ b.closed = c.closed /\ b.cash = c.cash /\ b.positions = c.positions
  BY <1>2, <1>3 DEF Marks, Accounts
<1>6. Priced(b.orders) /\ Priced(a.orders)
  BY <1>4, <1>5 DEF Priced, InBalance
<1>7. UnitsOf(s, b.orders[i]) = n /\ PriceOf(s, b.orders[i]) = n * price
  BY <1>4 DEF UnitsOf, PriceOf, FilledIn, n
<1>8. \A r \in Symbols : r # s => UnitsOf(r, b.orders[i]) = 0 /\ PriceOf(r, b.orders[i]) = 0
  BY <1>4 DEF UnitsOf, PriceOf, FilledIn
<1>9. ASSUME NEW r \in Symbols
      PROVE  /\ Bought(r, b.orders) = Bought(r, a.orders) + UnitsOf(r, b.orders[i])
             /\ Paid(r, b.orders) = Paid(r, a.orders) + PriceOf(r, b.orders[i])
             /\ Bought(r, a.orders) \in Int /\ Paid(r, a.orders) \in Int
  BY <1>1, <1>5, <1>6, OrderChanged, OrderTotals
<1>10. \A r \in Symbols : UnitsIn(b, r) = UnitsIn(c, r) /\ CostIn(b, r) = CostIn(c, r)
  BY <1>5 DEF UnitsIn, CostIn
<1>11. UnitsKept(b)
  <2> SUFFICES ASSUME NEW r \in Symbols
               PROVE  UnitsIn(b, r) = Bought(r, b.orders) - Sold(r, b.closed)
    BY DEF UnitsKept
  <2>1. UnitsIn(a, r) = Bought(r, a.orders) - Sold(r, a.closed)
    BY DEF InBalance, UnitsKept
  <2>2. Sold(r, b.closed) = Sold(r, a.closed) /\ Sold(r, a.closed) \in Int
    BY <1>5, BooksType DEF Deals
  <2>3. UnitsIn(b, r) = UnitsIn(a, r) + (IF r = s THEN n ELSE 0)
    BY <1>10, BooksType DEF Deals, s, n
  <2>4. Bought(r, b.orders) = Bought(r, a.orders) + (IF r = s THEN n ELSE 0)
    BY <1>7, <1>8, <1>9
  <2> QED
    BY <1>1, <1>9, <2>1, <2>2, <2>3, <2>4
<1>12. CashKept(b)
  BY <1>5 DEF CashKept, InBalance, Deals
<1>13. ASSUME MoneyKept(a), Fairly(a, c, s, n, price)
       PROVE  MoneyKept(b)
  <2> SUFFICES ASSUME NEW r \in Symbols
               PROVE  Profited(r, b.closed) = ContractSize * Outlay(b, r)
    BY DEF MoneyKept
  <2> DEFINE cost == CostIn(a, r)
             paid == Paid(r, a.orders)
             received == Received(r, a.closed)
  <2>1. Profited(r, a.closed) = ContractSize * (cost - (paid - received))
    BY <1>13 DEF MoneyKept, Outlay
  <2>2. Received(r, b.closed) = received
    BY <1>5 DEF Deals
  <2>3. cost \in Int /\ paid \in Int /\ received \in Int /\ ContractSize \in Int
    BY <1>6, BooksType
  <2>4. CASE r = s
    <3>1. PICK gain \in Int :
            /\ Profited(s, c.closed) = Profited(s, a.closed) + ContractSize * gain
            /\ CostIn(c, s) = CostIn(a, s) + n * price + gain
      BY <1>13 DEF Fairly
    <3>2. Paid(r, b.orders) = paid + n * price
      BY <1>7, <1>9, <2>4
    <3>3. CostIn(b, r) = cost + n * price + gain
      BY <1>10, <2>4, <3>1
    <3>4. Profited(r, b.closed) = ContractSize * (cost - (paid - received)) + ContractSize * gain
      BY <1>5, <2>1, <2>4, <3>1
    <3> HIDE DEF cost, paid, received
    <3>5. Outlay(b, r) = (cost - (paid - received)) + gain
      <4>1. Outlay(b, r) = (cost + n * price + gain) - ((paid + n * price) - received)
        BY <2>2, <3>2, <3>3 DEF Outlay
      <4>2. \A w, x, y, z, g \in Int : (w + x + g) - ((y + x) - z) = (w - (y - z)) + g
        OBVIOUS
      <4> QED
        BY <1>1, <2>3, <4>1, <4>2
    <3>6. \A x, y, z \in Int : z * x + z * y = z * (x + y)
      OBVIOUS
    <3>7. cost - (paid - received) \in Int
      BY <2>3
    <3> QED
      BY <2>3, <3>4, <3>5, <3>6, <3>7
  <2>5. CASE r # s
    <3>1. Paid(r, b.orders) = paid
      BY <1>8, <1>9, <2>5
    <3>2. CostIn(b, r) = cost /\ Profited(r, b.closed) = Profited(r, a.closed)
      BY <1>5, <1>10, <2>5 DEF Deals, s
    <3> QED
      BY <2>1, <2>2, <3>1, <3>2 DEF Outlay
  <2> QED
    BY <2>4, <2>5
<1> QED
  BY <1>6, <1>11, <1>12, <1>13 DEF InBalance, b, s, n

\* Whatever order is filled, units and cash go on; so does the money, unless the order adds
\* to a position, whose average entry is rounded.
LEMMA FillBooks ==
  ASSUME NEW a \in Accounts, NEW i \in DOMAIN a.orders, a.orders[i].status # "filled",
         NEW price \in Int, NEW reason \in {"exit", "signal"},
         Len(a.bars[a.orders[i].symbol]) >= 1, InBalance(a)
  PROVE  LET o == a.orders[i]
             held == a.positions[o.symbol]
             b == Fill(a, i, price, reason)
         IN  /\ InBalance(b)
             /\ MoneyKept(a) /\ (held = NoPosition \/ held.side # o.side) => MoneyKept(b)
<1> DEFINE o == a.orders[i]
           s == o.symbol
           held == a.positions[s]
           b == Fill(a, i, price, reason)
           Fresh == held = NoPosition \/ held.side # o.side
<1>1. /\ o \in Orders /\ s \in Symbols /\ o.quantity \in Nat \ {0} /\ o.reduce_only \in BOOLEAN
      /\ (held # NoPosition => held.quantity \in Nat)
  <2>1. o \in Orders
    BY ElementOfSeq DEF Accounts
  <2> QED
    BY <2>1 DEF Accounts, Orders, Positions
<1>2. ASSUME b = Rejected(a, i)
      PROVE  InBalance(b) /\ (MoneyKept(a) => MoneyKept(b))
  <2>1. SameBooks(a, Rejected(a, i))
    BY RejectedBooks
  <2> HIDE DEF b
  <2> QED
    BY <1>2, <2>1, SameInBalance
<1>3. ASSUME NEW quantity \in Nat, NEW c, b = Filled(c, i, quantity, price),
             Deals(a, c, s, o.side * quantity), Fresh => Fairly(a, c, s, o.side * quantity, price)
      PROVE  InBalance(b) /\ (MoneyKept(a) /\ Fresh => MoneyKept(b))
  <2> HIDE DEF b, Fresh
  <2> QED
    BY <1>3, FilledBooks
<1>4. CASE NothingToReduce(o, held)
  <2>1. b = Rejected(a, i)
    BY <1>4 DEF Fill, NothingToReduce
  <2> HIDE DEF b
  <2> QED
    BY <1>2, <2>1 DEF b
<1>5. CASE o.reduce_only /\ ~NothingToReduce(o, held)
  <2> DEFINE c == Against(a, o, price, reason)
             quantity == Lesser(held.quantity, o.quantity)
  <2>1. held # NoPosition /\ held.side # o.side
    BY <1>5 DEF NothingToReduce
  <2>2. b = Filled(c, i, quantity, price)
    BY <1>5 DEF Fill
  <2>3. Deals(a, c, s, o.side * quantity) /\ Fairly(a, c, s, o.side * quantity, price)
    BY <1>1, <2>1, AgainstDeals
  <2>4. quantity \in Nat
    BY <1>1, <2>1 DEF Lesser
  <2> HIDE DEF b, c, quantity, Fresh
  <2> QED
    BY <1>3, <2>2, <2>3, <2>4 DEF b, Fresh
<1>6. CASE ~o.reduce_only /\ held # NoPosition /\ held.side # o.side
  <2> DEFINE c == Turn(a, o, price, reason)
  <2>1. b = Filled(c, i, o.quantity, price)
    BY <1>6 DEF Fill, NothingToReduce
  <2>2. Deals(a, c, s, o.side * o.quantity) /\ Fairly(a, c, s, o.side * o.quantity, price)
    BY <1>1, <1>6, TurnDeals
  <2> HIDE DEF b, c, Fresh
  <2> QED
    BY <1>1, <1>3, <2>1, <2>2 DEF b, Fresh
<1>7. CASE ~o.reduce_only /\ (held = NoPosition \/ held.side = o.side)
  <2> DEFINE c == OpenPosition(a, o, o.quantity, price)
  <2>1. b = Filled(c, i, o.quantity, price) \/ b = Rejected(a, i)
    BY <1>7 DEF Fill, NothingToReduce
  <2>2. Deals(a, c, s, o.side * o.quantity) /\ (Fresh => Fairly(a, c, s, o.side * o.quantity, price))
    BY <1>1, <1>7, OpenDeals
  <2> HIDE DEF b, c, Fresh
  <2> QED
    BY <1>1, <1>2, <1>3, <2>1, <2>2 DEF b, Fresh
<1> QED
  BY <1>1, <1>4, <1>5, <1>6, <1>7

KeepsBooks(a, b) == InBalance(a) => InBalance(b) /\ (MoneyKept(a) => MoneyKept(b))

\* An exit of a bar.
LEMMA ExitBooks ==
  ASSUME NEW a \in Accounts, NEW s \in Symbols, a.positions[s] # NoPosition, NEW price \in Int,
         NEW reason \in {"stop_loss", "take_profit"}, NEW last \in Nat,
         NEW b, Reduces(a, b, s, a.positions[s].quantity, price, reason, last)
  PROVE  KeepsBooks(a, b)
<1> DEFINE held == a.positions[s]
           units == held.side * held.quantity
<1>1. Cuts(a, b, s, units, held.entry, price, TRUE)
  <2> DEFINE all == held.quantity
  <2>1. all \in 1..held.quantity /\ reason \in Reasons
    BY DEF Accounts, Positions, Reasons
  <2>2. Reduces(a, b, s, all, price, reason, last)
    OBVIOUS
  <2> HIDE DEF all
  <2>3. Cuts(a, b, s, held.side * all, held.entry, price, reason \in {"stop_loss", "take_profit"})
    BY <2>1, <2>2, ReduceBooks
  <2>4. (reason \in {"stop_loss", "take_profit"}) = TRUE
    OBVIOUS
  <2> QED
    BY <2>3, <2>4 DEF all
<1>2. b \in Accounts /\ b.orders = a.orders
  BY DEF Reduces
<1> HIDE DEF units, held
<1>3. SUFFICES ASSUME InBalance(a)
               PROVE  InBalance(b) /\ (MoneyKept(a) => MoneyKept(b))
  BY DEF KeepsBooks
<1>4. /\ units \in Int /\ held.entry \in Int /\ units * price \in Int /\ units * held.entry \in Int
      /\ UnitsIn(b, s) = UnitsIn(a, s) - units
      /\ CostIn(b, s) = CostIn(a, s) - units * held.entry
      /\ Profited(s, b.closed) = Profited(s, a.closed) + ContractSize * (units * price - units * held.entry)
      /\ Sold(s, b.closed) = Sold(s, a.closed) + units
      /\ Received(s, b.closed) = Received(s, a.closed) + units * price
  BY <1>1 DEF Cuts
<1>5. \A r \in Symbols : r # s =>
       /\ UnitsIn(b, r) = UnitsIn(a, r) /\ CostIn(b, r) = CostIn(a, r)
       /\ Profited(r, b.closed) = Profited(r, a.closed)
       /\ Sold(r, b.closed) = Sold(r, a.closed) /\ Received(r, b.closed) = Received(r, a.closed)
  BY <1>1 DEF Cuts
<1>6. InBalance(b)
  <2>1. Priced(b.orders) /\ CashKept(b)
    BY <1>1, <1>2, <1>3 DEF InBalance, Cuts
  <2>2. UnitsKept(b)
    <3> SUFFICES ASSUME NEW r \in Symbols
                 PROVE  UnitsIn(b, r) = Bought(r, b.orders) - Sold(r, b.closed)
      BY DEF UnitsKept
    <3>1. /\ UnitsIn(a, r) = Bought(r, a.orders) - Sold(r, a.closed)
          /\ Bought(r, a.orders) \in Int /\ Sold(r, a.closed) \in Int
      BY <1>3, BooksType DEF InBalance, UnitsKept
    <3> QED
      BY <1>2, <1>4, <1>5, <3>1
  <2> QED
    BY <2>1, <2>2 DEF InBalance
<1>7. ASSUME MoneyKept(a)
      PROVE  MoneyKept(b)
  <2> SUFFICES ASSUME NEW r \in Symbols
               PROVE  Profited(r, b.closed) = ContractSize * Outlay(b, r)
    BY DEF MoneyKept
  <2>1. Profited(r, a.closed) = ContractSize * Outlay(a, r)
    BY <1>7 DEF MoneyKept
  <2>2. CASE r = s
    <3> DEFINE gain == units * price - units * held.entry
               cost == CostIn(a, s)
               paid == Paid(s, a.orders)
               received == Received(s, a.closed)
               out == units * held.entry
               in == units * price
    <3>1. /\ cost \in Int /\ paid \in Int /\ received \in Int /\ ContractSize \in Int
          /\ out \in Int /\ in \in Int /\ gain = in - out
      BY <1>3, <1>4, BooksType DEF InBalance
    <3>2. Outlay(b, s) = (cost - out) - (paid - (received + in))
      BY <1>2, <1>4 DEF Outlay
    <3>3. Outlay(a, s) = cost - (paid - received)
      BY DEF Outlay
    <3>4. Profited(s, b.closed) = ContractSize * Outlay(a, s) + ContractSize * gain
      BY <1>4, <2>1, <2>2
    <3> HIDE DEF gain, cost, paid, received, out, in
    <3>5. Outlay(b, s) = Outlay(a, s) + gain /\ Outlay(a, s) \in Int /\ gain \in Int
      BY <3>1, <3>2, <3>3
    <3>6. \A x, y, z \in Int : z * x + z * y = z * (x + y)
      OBVIOUS
    <3> QED
      BY <2>2, <3>1, <3>4, <3>5, <3>6
  <2>3. CASE r # s
    BY <1>2, <1>5, <2>1, <2>3 DEF Outlay
  <2> QED
    BY <2>2, <2>3
<1> QED
  BY <1>6, <1>7

-----------------------------------------------------------------------------
(* Double entry: the calls *)

Alike(p, q) ==
  IF p = NoPosition THEN q = NoPosition
  ELSE q # NoPosition /\ q.side = p.side /\ q.quantity = p.quantity /\ q.entry = p.entry

LEMMA AlikeBooks ==
  ASSUME NEW a, NEW b, b.orders = a.orders, b.closed = a.closed, b.cash = a.cash,
         \A s \in Symbols : Alike(a.positions[s], b.positions[s])
  PROVE  KeepsBooks(a, b)
<1>1. \A s \in Symbols : UnitsIn(b, s) = UnitsIn(a, s) /\ CostIn(b, s) = CostIn(a, s)
  BY DEF Alike, UnitsIn, CostIn
<1>2. SameBooks(a, b)
  BY <1>1 DEF SameBooks
<1> QED
  BY <1>2, SameInBalance DEF KeepsBooks

LEMMA TrackBooks ==
  ASSUME NEW a \in Accounts, NEW s \in Symbols
  PROVE  KeepsBooks(a, TrackExcursion(a, s))
<1> DEFINE b == TrackExcursion(a, s)
<1>1. /\ b.orders = a.orders /\ b.closed = a.closed /\ b.cash = a.cash /\ b.positions = a.positions
  BY DEF TrackExcursion, Accounts
<1>2. \A r \in Symbols : Alike(a.positions[r], b.positions[r])
  BY <1>1 DEF Alike
<1> HIDE DEF b
<1>3. KeepsBooks(a, b)
  BY <1>1, <1>2, AlikeBooks
<1> QED
  BY <1>3 DEF b

\* A field of a position that is neither its side, its quantity nor its entry.
LEMMA FieldBooks ==
  ASSUME NEW a \in Accounts, NEW s \in Symbols, NEW q \in Positions, Alike(a.positions[s], q),
         NEW b, b = [a EXCEPT !.positions = [a.positions EXCEPT ![s] = q]]
  PROVE  KeepsBooks(a, b)
<1>1. /\ b.orders = a.orders /\ b.closed = a.closed /\ b.cash = a.cash
      /\ b.positions = [a.positions EXCEPT ![s] = q]
  BY DEF Accounts
<1>2. \A r \in Symbols : Alike(a.positions[r], b.positions[r])
  <2> TAKE r \in Symbols
  <2>1. CASE r = s
    BY <1>1, <2>1 DEF Accounts
  <2>2. CASE r # s
    BY <1>1, <2>2 DEF Accounts, Alike
  <2> QED
    BY <2>1, <2>2
<1> QED
  BY <1>1, <1>2, AlikeBooks

LEMMA UncheckedBooks ==
  ASSUME NEW a \in Accounts, NEW s \in Symbols
  PROVE  KeepsBooks(a, Unchecked(a, s))
<1> DEFINE p == a.positions[s]
           q == [p EXCEPT !.unchecked = TRUE]
<1>1. CASE p = NoPosition
  <2>1. Unchecked(a, s) = a
    BY <1>1 DEF Unchecked
  <2> QED
    BY <2>1 DEF KeepsBooks
<1>2. CASE p # NoPosition
  <2>1. p \in Positions
    BY <1>2 DEF Accounts
  <2>2. q \in Positions /\ q.side = p.side /\ q.quantity = p.quantity /\ q.entry = p.entry
    BY <2>1 DEF Positions
  <2>3. q # NoPosition
    BY <2>2, AccountAssumption
  <2>4. Unchecked(a, s) = [a EXCEPT !.positions = [a.positions EXCEPT ![s] = q]]
    BY <1>2 DEF Unchecked, Accounts
  <2>5. Alike(p, q)
    BY <1>2, <2>2, <2>3 DEF Alike
  <2> HIDE DEF q
  <2> QED
    BY <2>2, <2>4, <2>5, FieldBooks
<1> QED
  BY <1>1, <1>2

LEMMA StopMovedBooks ==
  ASSUME NEW a \in Accounts, NEW s \in Symbols, NEW stop \in Int
  PROVE  KeepsBooks(a, StopMoved(a, s, stop))
<1> DEFINE p == a.positions[s]
           q == [p EXCEPT !.stop = stop]
<1>1. CASE p = NoPosition \/ Worsens(p, stop)
  <2>1. StopMoved(a, s, stop) = a
    BY <1>1 DEF StopMoved
  <2> QED
    BY <2>1 DEF KeepsBooks
<1>2. CASE p # NoPosition /\ ~Worsens(p, stop)
  <2>1. p \in Positions
    BY <1>2 DEF Accounts
  <2>2. q \in Positions /\ q.side = p.side /\ q.quantity = p.quantity /\ q.entry = p.entry
    BY <2>1 DEF Positions, Prices
  <2>3. q # NoPosition
    BY <2>2, AccountAssumption
  <2>4. StopMoved(a, s, stop) = [a EXCEPT !.positions = [a.positions EXCEPT ![s] = q]]
    BY <1>2 DEF StopMoved, Accounts
  <2>5. Alike(p, q)
    BY <1>2, <2>2, <2>3 DEF Alike
  <2> HIDE DEF q
  <2> QED
    BY <2>2, <2>4, <2>5, FieldBooks
<1> QED
  BY <1>1, <1>2

LEMMA OrderBooks ==
  ASSUME NEW a \in Accounts, NEW s \in Symbols, NEW r, Proper(r)
  PROVE  KeepsBooks(a, WithOrder(a, s, r))
<1> DEFINE b == WithOrder(a, s, r)
           o == Order(a, s, r)
<1>1. a.orders \in Seq(Orders)
  BY DEF Accounts
<1>2. o \in Orders /\ o.status # "filled"
  <2>1. a.last_id + 1 \in Nat /\ NoPrice \in Prices
    BY DEF Accounts, Prices
  <2>2. /\ r.type \in OrderTypes /\ r.side \in {1, -1} /\ r.quantity \in Nat \ {0}
        /\ r.trigger \in Prices /\ r.stop \in Prices /\ r.target \in Prices
        /\ r.reduce_only \in BOOLEAN /\ (r.type = "market" <=> r.trigger = NoPrice)
    BY DEF Proper
  <2>3. o \in Orders
    BY <2>1, <2>2 DEF Order, Orders
  <2> QED
    BY <2>3 DEF Order
<1>3. /\ b.orders = Append(a.orders, o) /\ b.closed = a.closed /\ b.cash = a.cash
      /\ b.positions = a.positions
  BY DEF WithOrder, Accounts
<1> HIDE DEF b, o
<1>4. Priced(a.orders) => Priced(b.orders)
  <2>1. /\ Len(a.orders) \in Nat /\ DOMAIN a.orders = 1..Len(a.orders)
        /\ DOMAIN b.orders = 1..(Len(a.orders) + 1)
        /\ b.orders[Len(a.orders) + 1] = o /\ \A i \in 1..Len(a.orders) : b.orders[i] = a.orders[i]
    BY <1>1, <1>2, <1>3, AppendProperties, LenProperties
  <2> QED
    BY <1>2, <2>1 DEF Priced
<1>5. \A x \in Symbols : UnitsIn(b, x) = UnitsIn(a, x) /\ CostIn(b, x) = CostIn(a, x)
  BY <1>3 DEF UnitsIn, CostIn
<1>6. \A x \in Symbols : Priced(a.orders) =>
        Bought(x, b.orders) = Bought(x, a.orders) /\ Paid(x, b.orders) = Paid(x, a.orders)
  BY <1>1, <1>2, <1>3, OrderAppended
<1>7. SameBooks(a, b)
  BY <1>3, <1>4, <1>5, <1>6 DEF SameBooks
<1> QED
  BY <1>7, SameInBalance DEF KeepsBooks, b

\* place_order of a market order
LEMMA MarketBooks ==
  ASSUME NEW a \in Accounts, Rested(a), NEW s \in Symbols, NEW r, Proper(r),
         NEW b, b = Market(a, s, r), InBalance(a)
  PROVE  /\ InBalance(b)
         /\ MoneyKept(a) /\ (a.positions[s] = NoPosition \/ a.positions[s].side # r.side) => MoneyKept(b)
<1> DEFINE c == WithOrder(a, s, r)
           m == Len(a.orders) + 1
           price == Quote(a, s, r.side) + Slippage * r.side
           reason == IF r.reduce_only THEN "exit" ELSE "signal"
           after == Fill(c, m, price, reason)
<1>1. /\ c \in Accounts /\ c.bars = a.bars /\ c.positions = a.positions
      /\ m \in DOMAIN c.orders /\ c.orders[m] = Order(a, s, r)
  <2>1. c = WithOrder(a, s, r) /\ m = Len(a.orders) + 1
    OBVIOUS
  <2> HIDE DEF c, m
  <2> QED
    BY <2>1, OrderKeeps
<1>2. b = IF after.raised THEN [a EXCEPT !.last_id = @ + 1] ELSE after
  BY DEF Market, WithOrder
<1>3. KeepsBooks(a, c)
  BY OrderBooks
<1> HIDE DEF c, m
<1>4. /\ c.orders[m].symbol = s /\ c.orders[m].side = r.side /\ c.orders[m].status # "filled"
      /\ Len(c.bars[s]) >= 1 /\ reason \in {"exit", "signal"}
  BY <1>1 DEF Order, Rested, Displays
<1>5. price \in Int
  <2>1. Close(a, s) \in Int
    BY LastBar DEF Close, Rested, Displays
  <2>2. r.side \in {1, -1} /\ HalfSpread \in Nat /\ Slippage \in Nat
    BY AccountAssumption DEF Proper
  <2> QED
    BY <2>1, <2>2 DEF Quote
<1> HIDE DEF price, reason, after
<1>6. /\ InBalance(after)
      /\ MoneyKept(a) /\ (a.positions[s] = NoPosition \/ a.positions[s].side # r.side) => MoneyKept(after)
  <2>1. InBalance(c) /\ (MoneyKept(a) => MoneyKept(c))
    BY <1>3 DEF KeepsBooks
  <2> QED
    BY <1>1, <1>4, <1>5, <2>1, FillBooks DEF after
<1>7. CASE after.raised
  <2>1. b.orders = a.orders /\ b.closed = a.closed /\ b.cash = a.cash /\ b.positions = a.positions
    BY <1>2, <1>7 DEF Accounts
  <2>2. \A x \in Symbols : Alike(a.positions[x], b.positions[x])
    BY <2>1 DEF Alike
  <2> QED
    BY <2>1, <2>2, AlikeBooks DEF KeepsBooks
<1>8. CASE ~after.raised
  BY <1>2, <1>6, <1>8
<1> QED
  BY <1>7, <1>8

\* The bar that was shown meets the orders that wait for it.
LEMMA PendingBooks ==
  ASSUME NEW o, NEW s \in Symbols, Standing(o, s, Len(o.bars[s]) - 1), Settled(o), InBalance(o)
  PROVE  InBalance(ProcessPendingOrders(o, s))
<1> DEFINE seq == [i \in DOMAIN o.orders |-> i]
           m == Len(o.orders)
           S == {a \in Within(s, o) : InBalance(a)}
<1>1. o \in Accounts /\ m \in Nat /\ DOMAIN o.orders = 1..m /\ DOMAIN seq = 1..m
  <2>1. o \in Accounts
    BY DEF Standing
  <2> QED
    BY <2>1, LenProperties DEF Accounts
<1>2. ProcessPendingOrders(o, s) = Loop!Folded(s, o, seq)
  BY DEF ProcessPendingOrders, Loop!Folded, FoldLeft, MapThenFoldSet, Max,
         Loop!FoldLeft, Loop!MapThenFoldSet, Loop!Max, PendingStep
<1>3. o \in S
  <2>1. Continues(o, o)
    BY <1>1, LittleChanges
  <2> QED
    BY <1>1, <2>1 DEF Within, OthersKept
<1>4. ASSUME NEW i \in 1..m, NEW a \in S
      PROVE  PendingStep(s, a, seq[i]) \in S
  <2>1. PendingStep(s, a, i) \in Within(s, o)
    BY <1>1, <1>4, PendingStepKeeps DEF Standing
  <2>2. InBalance(PendingStep(s, a, i))
    <3>1. CASE ~(~a.raised /\ Pending(a, i, s) /\ Triggered(a.orders[i], Last(a.bars[s])))
      BY <1>4, <3>1 DEF PendingStep
    <3>2. CASE ~a.raised /\ Pending(a, i, s) /\ Triggered(a.orders[i], Last(a.bars[s]))
      <4>1. PendingStep(s, a, i) = Fill(a, i, a.orders[i].trigger, "signal")
        BY <3>2 DEF PendingStep
      <4>2. a \in Accounts /\ i \in DOMAIN a.orders /\ Len(a.bars[s]) >= 1 /\ InBalance(a)
        BY <1>1, <1>4 DEF Within, Standing, Displays
      <4>3. a.orders[i] \in Orders
        BY <4>2, ElementOfSeq DEF Accounts
      <4>4. a.orders[i].trigger \in Int /\ a.orders[i].symbol = s /\ a.orders[i].status # "filled"
        BY <3>2, <4>3 DEF Orders, Prices, Pending, Terminal
      <4> QED
        BY <4>1, <4>2, <4>4, FillBooks
    <3> QED
      BY <3>1, <3>2
  <2> QED
    BY <1>1, <2>1, <2>2
<1>5. Loop!Folded(s, o, seq) \in S
  <2> HIDE DEF seq, S
  <2> QED
    BY <1>1, <1>3, <1>4, Loop!FoldKeeps
<1> QED
  BY <1>2, <1>5

\* _process_exits
LEMMA ExitsBooks ==
  ASSUME NEW a \in Accounts, NEW s \in Symbols
  PROVE  KeepsBooks(a, ProcessExits(a, s))
<1> DEFINE p == a.positions[s]
           bar == Last(a.bars[s])
           b == ProcessExits(a, s)
<1>1. ASSUME p # NoPosition, NEW price \in Int, NEW reason \in {"stop_loss", "take_profit"},
             b = Closed(a, s, price, reason)
      PROVE  KeepsBooks(a, b)
  <2> DEFINE all == p.quantity
             n == Len(a.bars[s])
  <2>1. all \in Nat \ {0} /\ n \in Nat /\ reason \in Reasons
    BY <1>1 DEF Accounts, Positions, Reasons
  <2>2. b = Reduce(a, s, all, price, reason, n)
    BY <1>1 DEF Closed
  <2> HIDE DEF all, n, b, p
  <2>3. Reduces(a, b, s, all, price, reason, n)
    BY <1>1, <2>1, <2>2, ReduceChanges DEF p
  <2>4. Reduces(a, b, s, a.positions[s].quantity, price, reason, n)
    BY <2>3 DEF all, p
  <2> QED
    BY <1>1, <2>1, <2>4, ExitBooks DEF p
<1>2. CASE p # NoPosition /\ StopHit(p, bar)
  <2>1. b = Closed(a, s, p.stop, "stop_loss")
    BY <1>2 DEF ProcessExits
  <2>2. p.stop \in Int
    BY <1>2 DEF StopHit, Accounts, Positions, Prices
  <2> HIDE DEF b, p, bar
  <2> QED
    BY <1>1, <1>2, <2>1, <2>2 DEF b
<1>3. CASE p # NoPosition /\ ~StopHit(p, bar) /\ TargetHit(p, bar)
  <2>1. b = Closed(a, s, p.target, "take_profit")
    BY <1>3 DEF ProcessExits
  <2>2. p.target \in Int
    BY <1>3 DEF TargetHit, Accounts, Positions, Prices
  <2> HIDE DEF b, p, bar
  <2> QED
    BY <1>1, <1>3, <2>1, <2>2 DEF b
<1>4. CASE p = NoPosition \/ (~StopHit(p, bar) /\ ~TargetHit(p, bar))
  <2>1. b = a
    BY <1>4 DEF ProcessExits
  <2> QED
    BY <2>1 DEF KeepsBooks
<1> QED
  BY <1>2, <1>3, <1>4

\* _advance
LEMMA AdvanceBooks ==
  ASSUME NEW a \in Accounts, Rested(a), Settled(a), NEW s \in Symbols, NEW bar \in Bars,
         InBalance(a), NEW b, b = Advance(a, s, bar)
  PROVE  InBalance(b)
<1> DEFINE shown == WithBar(a, s, bar)
           pending == ProcessPendingOrders(shown, s)
           n == Len(shown.bars[s]) - 1
<1>1. /\ Standing(shown, s, n) /\ Settled(shown) /\ shown.positions = a.positions
      /\ shown.orders = a.orders /\ shown.closed = a.closed /\ shown.cash = a.cash
  <2>1. shown = WithBar(a, s, bar)
    OBVIOUS
  <2> HIDE DEF shown
  <2> QED
    BY <2>1, ShownKeeps
<1>2. b = IF pending.raised THEN Unchecked(pending, s)
          ELSE ProcessExits(TrackExcursion(pending, s), s)
  BY DEF Advance, WithBar
<1>3. shown \in Accounts /\ n \in Nat /\ n + 1 = Len(shown.bars[s])
  <2>1. shown \in Accounts /\ Len(shown.bars[s]) >= 1
    BY <1>1 DEF Standing, Displays
  <2>2. Len(shown.bars[s]) \in Nat
    BY <2>1 DEF Accounts
  <2> QED
    BY <2>1, <2>2
<1> HIDE DEF shown
<1>4. InBalance(shown)
  <2>1. \A r \in Symbols : Alike(a.positions[r], shown.positions[r])
    BY <1>1 DEF Alike
  <2> QED
    BY <1>1, <2>1, AlikeBooks DEF KeepsBooks
<1>5. pending \in Within(s, shown) /\ InBalance(pending)
  BY <1>1, <1>4, PendingKeeps, PendingBooks
<1> HIDE DEF pending, n
<1>6. /\ pending \in Accounts /\ Standing(pending, s, n) /\ pending.bars = shown.bars
  BY <1>5 DEF Within, n
<1>7. CASE pending.raised
  BY <1>2, <1>5, <1>6, <1>7, UncheckedBooks DEF KeepsBooks
<1>8. CASE ~pending.raised
  <2> DEFINE tracked == TrackExcursion(pending, s)
  <2>1. tracked \in Accounts
    <3>1. Standing(tracked, s, n + 1)
      BY <1>3, <1>6, TrackKeeps
    <3> QED
      BY <3>1 DEF Standing
  <2>2. KeepsBooks(pending, tracked)
    BY <1>6, TrackBooks
  <2>3. b = ProcessExits(tracked, s)
    BY <1>2, <1>8
  <2> HIDE DEF tracked
  <2>4. KeepsBooks(tracked, b)
    BY <2>1, <2>3, ExitsBooks
  <2> QED
    BY <1>5, <2>2, <2>4 DEF KeepsBooks
<1> QED
  BY <1>7, <1>8

-----------------------------------------------------------------------------
(* The specification *)

\* The same of a backtest, whose orders have no bound.
Safe == connected \in BOOLEAN /\ Account \in Accounts /\ Settled(Account) /\ IInv

Inv == Safe /\ last_id <= MaxOrders

LEMMA InvIsTyped ==
  ASSUME Inv
  PROVE  TypeOK
<1>1. MaxOrders \in Nat
  BY AccountAssumption
<1>2. /\ bars \in [Symbols -> Seq(Bars)] /\ positions \in [Symbols -> Positions \union {NoPosition}]
      /\ orders \in Seq(Orders) /\ cash \in Int /\ closed \in Seq(Trades)
      /\ excursions \in [Symbols -> Excursions \union {NoExcursion}] /\ last_id \in Nat
  BY DEF Inv, Safe, Account, Accounts
<1>3. \A i \in DOMAIN orders : orders[i].status # "pending"
  BY DEF Inv, Safe, Settled, Account
<1>4. \A s \in Symbols : excursions[s] # NoExcursion =>
        excursions[s].favorable >= 0 /\ excursions[s].adverse <= 0
  BY DEF Inv, Safe, IInv, Rested, Signed, Account
<1> QED
  BY <1>1, <1>2, <1>3, <1>4 DEF TypeOK, Inv, Safe

LEMMA InitSafe ==
  ASSUME NEW n \in Nat \ {0}, InitWith(n)
  PROVE  Safe
<1>1. InitialBalance \in Nat
  BY AccountAssumption
<1>2. \A s \in Symbols : bars[s] \in Seq(Bars) /\ Len(bars[s]) = n
  <2>1. \A s \in Symbols : bars[s] \in [1..n -> Bars]
    BY DEF InitWith
  <2> QED
    BY <1>1, <2>1
<1>3. bars \in [Symbols -> Seq(Bars)]
  BY <1>2 DEF InitWith
<1>4. Account \in Accounts
  BY <1>1, <1>3 DEF Account, Accounts, InitWith
<1>5. Settled(Account)
  BY DEF Settled, Account, InitWith
<1>6. Displays(Account) /\ Signed(Account) /\ Numbered(Account) /\ Named(Account) /\ TradesKept(Account)
  BY <1>1, <1>2 DEF Displays, Signed, Numbered, Named, TradesKept, Account, InitWith
<1>7. \A s \in Symbols : /\ Measured(Account, s, Len(Account.bars[s]))
                         /\ StopKept(Account, s) /\ CloseKept(Account, s)
  BY DEF Measured, StopKept, CloseKept, Account, InitWith
<1>8. connected \in BOOLEAN
  BY DEF InitWith
<1>9. Rested(Account)
  BY <1>6, <1>7 DEF Rested
<1> QED
  BY <1>4, <1>5, <1>8, <1>9 DEF Safe, IInv

LEMMA InitInv ==
  ASSUME Init
  PROVE  Inv
<1>1. Safe
  BY InitSafe, AccountAssumption DEF Init
<1>2. last_id <= MaxOrders
  BY AccountAssumption DEF Init, InitWith
<1> QED
  BY <1>1, <1>2 DEF Inv

\* The variables take the values of the account a call ends with.
LEMMA BecomesKeeps ==
  ASSUME NEW b \in Accounts, Rested(b), Settled(b), Continues(Account, b),
         Becomes(b), connected' \in BOOLEAN
  PROVE  Safe' /\ Continues(Account, Account') /\ last_id' = b.last_id
<1> DEFINE c == Account'
<1>1. /\ c.bars = b.bars /\ c.positions = b.positions /\ c.orders = b.orders
      /\ c.closed = b.closed /\ c.excursions = b.excursions /\ c.last_id = b.last_id
  BY DEF Becomes, Account
<1>2. c \in Accounts
  BY DEF Becomes, Account, Accounts
<1> HIDE DEF c
<1>3. Settled(c)
  BY <1>1 DEF Settled
<1>4. Rested(c)
  <2>1. Displays(c) /\ Signed(c) /\ Numbered(c) /\ Named(c) /\ TradesKept(c)
    BY <1>1 DEF Rested, Displays, Signed, Numbered, Named, OpenedBy, TradesKept
  <2>2. \A x \in Symbols : Measured(c, x, Len(c.bars[x])) /\ StopKept(c, x) /\ CloseKept(c, x)
    BY <1>1 DEF Rested, Measured, StopKept, CloseKept, Close
  <2> QED
    BY <2>1, <2>2 DEF Rested
<1>5. Continues(Account, c)
  BY <1>1 DEF Continues, OrdersGoOn, StopsGoOn, Added, NewIsNew, OpenedBy
<1> QED
  BY <1>2, <1>3, <1>4, <1>5 DEF Safe, IInv, Becomes, c

LEMMA NextInv ==
  ASSUME Inv, [Next]_vars
  PROVE  Inv' /\ Continues(Account, Account')
<1> USE DEF Inv, Safe
<1>1. Account \in Accounts /\ Rested(Account) /\ Settled(Account) /\ Account.last_id = last_id
      /\ last_id \in Nat /\ MaxOrders \in Nat
  BY AccountAssumption DEF IInv, Account, Accounts
<1>2. CASE UNCHANGED <<account, last_id>> /\ connected' \in BOOLEAN
  <2>1. Account' = Account
    BY <1>2 DEF Account, account
  <2>2. Continues(Account, Account)
    BY <1>1, LittleChanges
  <2>3. Becomes(Account)
    BY <1>2 DEF Becomes, Account, account
  <2> QED
    BY <1>1, <1>2, <2>2, <2>3, BecomesKeeps
<1>3. ASSUME NEW i \in DOMAIN orders, CancelOrder(i)
      PROVE  Inv' /\ Continues(Account, Account')
  <2> DEFINE b == [Account EXCEPT !.orders[i].status = "cancelled"]
  <2>1. i \in DOMAIN Account.orders /\ Account.orders[i].status \notin Terminal
    BY <1>3 DEF CancelOrder, Account
  <2>2. b \in Accounts /\ Rested(b) /\ Settled(b) /\ Continues(Account, b) /\ b.last_id = Account.last_id
    <3> HIDE DEF b
    <3> QED
      BY <1>1, <2>1, CancelKeeps DEF b
  <2>3. Becomes(b) /\ connected' \in BOOLEAN
    BY <1>3 DEF CancelOrder, Becomes, Account
  <2> HIDE DEF b
  <2> QED
    BY <1>1, <2>2, <2>3, BecomesKeeps
<1>4. ASSUME NEW s \in Symbols, NEW bar \in Bars, GetOhlcv(s, bar)
      PROVE  Inv' /\ Continues(Account, Account')
  <2> DEFINE b == Advance(Account, s, bar)
  <2>1. Becomes(b) /\ connected' \in BOOLEAN
    BY <1>4 DEF GetOhlcv
  <2> HIDE DEF b
  <2>2. b \in Accounts /\ Rested(b) /\ Settled(b) /\ Continues(Account, b) /\ b.last_id = Account.last_id
    BY <1>1, AdvanceKeeps DEF b
  <2> QED
    BY <1>1, <2>1, <2>2, BecomesKeeps
<1>5. ASSUME NEW s \in Symbols, NEW r \in Requests, PlaceMarket(s, r)
      PROVE  Inv' /\ Continues(Account, Account')
  <2> DEFINE b == Market(Account, s, r)
  <2>1. Becomes(b) /\ connected' \in BOOLEAN /\ last_id + 1 <= MaxOrders
        /\ r.type = "market" /\ StopRuleHolds(r, Quote(Account, s, r.side))
    BY <1>1, <1>5 DEF PlaceMarket
  <2> HIDE DEF b
  <2>2. b \in Accounts /\ Rested(b) /\ Settled(b) /\ Continues(Account, b) /\ b.last_id = last_id + 1
    BY <1>1, <2>1, RequestsAssumption, MarketKeeps DEF b
  <2> QED
    BY <1>1, <2>1, <2>2, BecomesKeeps
<1>6. ASSUME NEW s \in Symbols, NEW r \in Requests, PlacePending(s, r)
      PROVE  Inv' /\ Continues(Account, Account')
  <2> DEFINE b == WithOrder(Account, s, r)
             m == Len(Account.orders) + 1
  <2>1. Becomes(b) /\ connected' \in BOOLEAN /\ last_id + 1 <= MaxOrders /\ r.type # "market"
    BY <1>1, <1>6 DEF PlacePending, Becomes, Account, WithOrder
  <2> HIDE DEF b, m
  <2>2. /\ b \in Accounts /\ Rested(b) /\ Continues(Account, b)
        /\ b.last_id = last_id + 1
        /\ DOMAIN b.orders = DOMAIN Account.orders \union {m}
        /\ b.orders[m] = Order(Account, s, r)
        /\ \A i \in DOMAIN Account.orders : b.orders[i] = Account.orders[i]
    <3>1. b = WithOrder(Account, s, r) /\ m = Len(Account.orders) + 1
      BY DEF b, m
    <3> QED
      BY <1>1, <3>1, RequestsAssumption, OrderKeeps
  <2>3. Settled(b)
    BY <1>1, <2>1, <2>2 DEF Settled, Order
  <2> QED
    BY <2>1, <2>2, <2>3, BecomesKeeps
<1>7. ASSUME NEW s \in Symbols, NEW stop \in StopPrices, UpdatePositionStop(s, stop)
      PROVE  Inv' /\ Continues(Account, Account')
  <2> DEFINE b == StopMoved(Account, s, stop)
  <2>1. Becomes(b) /\ connected' \in BOOLEAN /\ stop \in Int
    BY <1>7, AccountAssumption DEF UpdatePositionStop
  <2> HIDE DEF b
  <2>2. b \in Accounts /\ Rested(b) /\ Settled(b) /\ Continues(Account, b) /\ b.last_id = Account.last_id
    BY <1>1, <2>1, StopMovedKeeps DEF b
  <2> QED
    BY <1>1, <2>1, <2>2, BecomesKeeps
<1> QED
  BY <1>2, <1>3, <1>4, <1>5, <1>6, <1>7 DEF Next, Connect, Disconnect, vars

LEMMA SafeNames ==
  ASSUME Safe
  PROVE  ReduceOnlyNeverOpens
BY DEF Safe, IInv, Rested, Named, Numbered, OpenedBy, Account, ReduceOnlyNeverOpens

LEMMA SafeBounds ==
  ASSUME Safe
  PROVE  StopsBoundLosses
<1> SUFFICES ASSUME NEW i \in DOMAIN closed, Whole(closed[i])
             PROVE  Bounded(closed[i], bars[closed[i].symbol])
  BY DEF StopsBoundLosses, Range, Whole, Bounded
<1> QED
  BY DEF Safe, IInv, Rested, TradesKept, TradeKept, Account

LEMMA SpecInv == Spec => []Inv
BY InitInv, NextInv, PTL DEF Spec

-----------------------------------------------------------------------------
(* Double entry: the specification *)

LEMMA NoBooks ==
  ASSUME NEW a, a.orders = <<>>, a.closed = <<>>, a.cash = InitialBalance,
         \A s \in Symbols : a.positions[s] = NoPosition
  PROVE  InBalance(a) /\ MoneyKept(a)
<1>1. Earned(<<>>) = 0
  BY Earning!FoldOfEmpty DEF Earned
<1>2. InitialBalance \in Nat /\ ContractSize \in Nat
  BY AccountAssumption
<1>3. CashKept(a)
  BY <1>1, <1>2 DEF CashKept
<1>4. \A s : Bought(s, <<>>) = 0 /\ Paid(s, <<>>) = 0 /\ Sold(s, <<>>) = 0 /\ Received(s, <<>>) = 0
             /\ Profited(s, <<>>) = 0
  BY Buying!FoldOfEmpty, Paying!FoldOfEmpty, Selling!FoldOfEmpty, Receiving!FoldOfEmpty,
     Profiting!FoldOfEmpty DEF Bought, Paid, Sold, Received, Profited
<1>5. \A s \in Symbols : UnitsIn(a, s) = 0 /\ CostIn(a, s) = 0
  BY DEF UnitsIn, CostIn
<1>6. UnitsKept(a)
  BY <1>4, <1>5 DEF UnitsKept
<1>7. MoneyKept(a)
  BY <1>2, <1>4, <1>5 DEF MoneyKept, Outlay
<1>8. Priced(a.orders)
  BY DEF Priced
<1> QED
  BY <1>3, <1>6, <1>7, <1>8 DEF InBalance

LEMMA BecomesBooks ==
  ASSUME NEW b, Becomes(b)
  PROVE  KeepsBooks(b, Account')
<1> DEFINE c == Account'
<1>1. c.positions = b.positions /\ c.orders = b.orders /\ c.closed = b.closed /\ c.cash = b.cash
  BY DEF Becomes, Account
<1>2. \A s \in Symbols : Alike(b.positions[s], c.positions[s])
  BY <1>1 DEF Alike
<1> HIDE DEF c
<1>3. KeepsBooks(b, c)
  BY <1>1, <1>2, AlikeBooks
<1> QED
  BY <1>3 DEF c

LEMMA NextBooks ==
  ASSUME Inv, InBalance(Account), [Next]_vars
  PROVE  InBalance(Account)'
<1> USE DEF Inv, Safe
<1>1. Account \in Accounts /\ Rested(Account) /\ Settled(Account)
  BY DEF IInv
\* An account in balance is what the variables become.
<1>2. ASSUME NEW b, Becomes(b), InBalance(b)
      PROVE  InBalance(Account)'
  <2>1. KeepsBooks(b, Account')
    BY <1>2, BecomesBooks
  <2> QED
    BY <1>2, <2>1 DEF KeepsBooks
<1>3. CASE UNCHANGED <<account, last_id>>
  <2>1. Becomes(Account)
    BY <1>3 DEF Becomes, Account, account
  <2> QED
    BY <1>2, <2>1
<1>4. ASSUME NEW i \in DOMAIN orders, CancelOrder(i)
      PROVE  InBalance(Account)'
  <2> DEFINE b == [Account EXCEPT !.orders[i].status = "cancelled"]
  <2>1. i \in DOMAIN Account.orders /\ Account.orders[i].status \notin Terminal
    BY <1>4 DEF CancelOrder, Account
  <2>2. b \in Accounts
    <3> HIDE DEF b
    <3> QED
      BY <1>1, <2>1, CancelKeeps DEF b
  <2>3. Becomes(b)
    BY <1>4 DEF CancelOrder, Becomes, Account
  <2>4. /\ DOMAIN b.orders = DOMAIN Account.orders
        /\ \A j \in DOMAIN Account.orders : j # i => b.orders[j] = Account.orders[j]
        /\ b.orders[i].status = "cancelled"
        /\ b.positions = Account.positions /\ b.closed = Account.closed /\ b.cash = Account.cash
    <3> DEFINE a == Account
               p == [a.orders[i] EXCEPT !.status = "cancelled"]
    <3>1. a \in Accounts /\ a.orders[i] \in Orders
      BY <1>1, <2>1, ElementOfSeq DEF Accounts
    <3>2. p.status = "cancelled"
      BY <3>1 DEF Orders
    <3> HIDE DEF a
    <3>3. b = [a EXCEPT !.orders = [a.orders EXCEPT ![i] = p]]
      BY <3>1 DEF Accounts, a
    <3> HIDE DEF b, p
    <3> QED
      BY <2>1, <3>1, <3>2, <3>3 DEF Accounts, a
  <2>5. b.orders \in Seq(Orders)
    BY <2>2 DEF Accounts
  <2> HIDE DEF b
  <2>6. SameBooks(Account, b)
    <3>1. Account.orders[i].status # "filled" /\ b.orders[i].status # "filled"
      BY <2>1, <2>4 DEF Terminal
    <3> QED
      BY <1>1, <2>1, <2>4, <2>5, <3>1, StatusBooks
  <2> QED
    BY <1>2, <2>3, <2>6, SameInBalance
<1>5. ASSUME NEW s \in Symbols, NEW bar \in Bars, GetOhlcv(s, bar)
      PROVE  InBalance(Account)'
  <2> DEFINE b == Advance(Account, s, bar)
  <2>1. Becomes(b)
    BY <1>5 DEF GetOhlcv
  <2> HIDE DEF b
  <2>2. InBalance(b)
    BY <1>1, AdvanceBooks DEF b
  <2> QED
    BY <1>2, <2>1, <2>2
<1>6. ASSUME NEW s \in Symbols, NEW r \in Requests, PlaceMarket(s, r)
      PROVE  InBalance(Account)'
  <2> DEFINE b == Market(Account, s, r)
  <2>1. Becomes(b)
    BY <1>6 DEF PlaceMarket
  <2> HIDE DEF b
  <2>2. InBalance(b)
    BY <1>1, RequestsAssumption, MarketBooks DEF b
  <2> QED
    BY <1>2, <2>1, <2>2
<1>7. ASSUME NEW s \in Symbols, NEW r \in Requests, PlacePending(s, r)
      PROVE  InBalance(Account)'
  <2> DEFINE b == WithOrder(Account, s, r)
  <2>1. Becomes(b)
    BY <1>7 DEF PlacePending, Becomes, Account, WithOrder
  <2> HIDE DEF b
  <2>2. InBalance(b)
    BY <1>1, RequestsAssumption, OrderBooks DEF b, KeepsBooks
  <2> QED
    BY <1>2, <2>1, <2>2
<1>8. ASSUME NEW s \in Symbols, NEW stop \in StopPrices, UpdatePositionStop(s, stop)
      PROVE  InBalance(Account)'
  <2> DEFINE b == StopMoved(Account, s, stop)
  <2>1. Becomes(b) /\ stop \in Int
    BY <1>8, AccountAssumption DEF UpdatePositionStop
  <2> HIDE DEF b
  <2>2. InBalance(b)
    BY <1>1, <2>1, StopMovedBooks DEF b, KeepsBooks
  <2> QED
    BY <1>2, <2>1, <2>2
<1> QED
  BY <1>3, <1>4, <1>5, <1>6, <1>7, <1>8 DEF Next, Connect, Disconnect, vars

\* What the properties add up is what the books do.
LEMMA TotalsAreSums ==
  /\ \A s : /\ NetUnits(s) = Bought(s, orders) - Sold(s, closed)
            /\ NetPaid(s) = Paid(s, orders) - Received(s, closed)
            /\ Profit(s) = Profited(s, closed)
  /\ Sum(closed, LAMBDA t : t.pnl) = Earned(closed)
<1>1. ASSUME NEW s
      PROVE  NetUnits(s) = Bought(s, orders) - Sold(s, closed)
  BY DEF NetUnits, Sum, FoldLeft, MapThenFoldSet, Max, Bought, Buying!Folded, Buying!FoldLeft,
         Buying!MapThenFoldSet, Buying!Max, BoughtStep, Sold, Selling!Folded, Selling!FoldLeft,
         Selling!MapThenFoldSet, Selling!Max, SoldStep
<1>2. ASSUME NEW s
      PROVE  NetPaid(s) = Paid(s, orders) - Received(s, closed)
  BY DEF NetPaid, Sum, FoldLeft, MapThenFoldSet, Max, Paid, Paying!Folded, Paying!FoldLeft,
         Paying!MapThenFoldSet, Paying!Max, PaidStep, Received, Receiving!Folded,
         Receiving!FoldLeft, Receiving!MapThenFoldSet, Receiving!Max, ReceivedStep
<1>3. ASSUME NEW s
      PROVE  Profit(s) = Profited(s, closed)
  BY DEF Profit, Sum, FoldLeft, MapThenFoldSet, Max, Profited, Profiting!Folded,
         Profiting!FoldLeft, Profiting!MapThenFoldSet, Profiting!Max, ProfitStep
<1>4. Sum(closed, LAMBDA t : t.pnl) = Earned(closed)
  BY DEF Sum, FoldLeft, MapThenFoldSet, Max, Earned, Earning!Folded, Earning!FoldLeft,
         Earning!MapThenFoldSet, Earning!Max, PnlStep
<1> QED
  BY <1>1, <1>2, <1>3, <1>4

LEMMA BalanceShows ==
  ASSUME InBalance(Account)
  PROVE  UnitsAndCashBalance /\ (MoneyKept(Account) => BooksBalance)
<1>1. /\ Account.orders = orders /\ Account.closed = closed /\ Account.cash = cash
      /\ Account.positions = positions
  BY DEF Account
<1>2. \A s \in Symbols : SignedUnits(s) = UnitsIn(Account, s) /\ Cost(s) = CostIn(Account, s)
  BY <1>1 DEF SignedUnits, Cost, UnitsIn, CostIn
<1>3. \A s \in Symbols : SignedUnits(s) = NetUnits(s)
  BY <1>1, <1>2, TotalsAreSums DEF InBalance, UnitsKept
<1>4. cash = InitialBalance + Sum(closed, LAMBDA t : t.pnl)
  BY <1>1, TotalsAreSums DEF InBalance, CashKept
<1>5. UnitsAndCashBalance
  BY <1>3, <1>4 DEF UnitsAndCashBalance
<1>6. ASSUME MoneyKept(Account), NEW s \in Symbols
      PROVE  Profit(s) = ContractSize * (Cost(s) - NetPaid(s))
  BY <1>1, <1>2, <1>6, TotalsAreSums DEF MoneyKept, Outlay
<1> QED
  BY <1>5, <1>6 DEF BooksBalance

-----------------------------------------------------------------------------
(* The results *)

\* Every variable has its type, and excursions their signs (paper.py, excursion.py).
THEOREM PaperTypeCorrect == Spec => []TypeOK
BY SpecInv, InvIsTyped, PTL

\* No position was opened by a reduce-only order (paper.py:387-389): it would carry the id of
\* that order, and an id is given to one order.
THEOREM NoReduceOnlyOpens == Spec => []ReduceOnlyNeverOpens
<1>1. Inv => ReduceOnlyNeverOpens
  BY SafeNames DEF Inv
<1> QED
  BY SpecInv, <1>1, PTL

\* A position that saw all its bars loses no more than to the first stop it had
\* (paper.py:330-352, 551-584), and a target is taken where the stop is not touched.
THEOREM LossesAreBounded == Spec => []StopsBoundLosses
<1>1. Inv => StopsBoundLosses
  BY SafeBounds DEF Inv
<1> QED
  BY SpecInv, <1>1, PTL

LEMMA ExtremesOf ==
  ASSUME NEW T, T \subseteq Int, NEW low \in T, NEW high \in T, \A y \in T : low <= y /\ y <= high
  PROVE  Max(T) = high /\ Min(T) = low
<1> DEFINE most == Max(T)
           least == Min(T)
<1>1. most \in T /\ \A z \in T : most >= z
  <2>1. \E y \in T : \A z \in T : y >= z
    OBVIOUS
  <2> QED
    BY <2>1 DEF Max
<1>2. least \in T /\ \A z \in T : least <= z
  <2>1. \E y \in T : \A z \in T : y <= z
    OBVIOUS
  <2> QED
    BY <2>1 DEF Min
<1>3. most = high /\ least = low
  <2> HIDE DEF most, least
  <2> QED
    BY <1>1, <1>2
<1> QED
  BY <1>3

\* T is gains, each times quantity.
Multiplied(gains, quantity, T) ==
  /\ \A gain \in gains : gain * quantity \in T
  /\ \A y \in T : \E gain \in gains : y = gain * quantity

\* The largest and the smallest of what a quantity gained.
LEMMA SpansIsExtreme ==
  ASSUME NEW gains, gains \subseteq Int, NEW quantity \in Nat, NEW x, Spans(x, gains, quantity),
         NEW T, Multiplied(gains, quantity, T)
  PROVE  x.favorable = Max(T) /\ x.adverse = Min(T)
<1> USE DEF Multiplied
<1>1. PICK best \in gains, worst \in gains :
        /\ \A gain \in gains : worst <= gain /\ gain <= best
        /\ x.favorable = best * quantity /\ x.adverse = worst * quantity
  BY DEF Spans
<1>2. \A gain \in gains : /\ worst * quantity <= gain * quantity
                          /\ gain * quantity <= best * quantity
  BY <1>1, ProductMonotone
<1>3. T \subseteq Int /\ best * quantity \in T /\ worst * quantity \in T
  BY <1>1
<1>4. \A y \in T : worst * quantity <= y /\ y <= best * quantity
  BY <1>2
<1> DEFINE high == best * quantity
           low == worst * quantity
<1>5. /\ T \subseteq Int /\ high \in T /\ low \in T
      /\ \A y \in T : low <= y /\ y <= high
  BY <1>3, <1>4
<1> HIDE DEF high, low
<1>6. Max(T) = high /\ Min(T) = low
  BY <1>5, ExtremesOf
<1> QED
  BY <1>1, <1>6 DEF high, low

LEMMA SafeMeasures ==
  ASSUME Safe
  PROVE  ExcursionsAreTheTrades
<1> SUFFICES ASSUME NEW t \in Range(closed), Whole(t)
             PROVE  LET met == {bars[t.symbol][i] : i \in t.first..t.last}
                        e == ExtremeOf(t, {b.low : b \in met} \union {b.high : b \in met}
                                            \union {t.exit})
                    IN  IF met = {} THEN t.excursion = NoExcursion
                        ELSE t.excursion.favorable = e.favorable /\ t.excursion.adverse = e.adverse
  BY DEF ExcursionsAreTheTrades, Whole
<1> DEFINE series == bars[t.symbol]
           met == {series[i] : i \in t.first..t.last}
           values == {b.low : b \in met} \union {b.high : b \in met} \union {t.exit}
           gains == Gains(t, series, t.first, t.last) \union {Gain(t, t.exit)}
           moved == {(v - t.entry) * t.side * t.quantity * ContractSize : v \in values} \union {0}
<1>1. Account \in Accounts /\ Account.bars = bars /\ closed \in Seq(Trades)
  BY DEF Safe, Account, Accounts
<1>2. /\ t \in Trades /\ t.symbol \in Symbols /\ t.first \in Nat /\ t.last \in Nat
      /\ t.quantity \in Nat /\ t.exit \in Int /\ Dealt(t)
  <2>1. t \in Trades
    BY <1>1, ElementOfSeq DEF Range
  <2> QED
    BY <2>1 DEF Trades, Dealt
<1>3. t.last <= Len(series) /\ Valued(t, series)
  BY DEF Safe, IInv, Rested, TradesKept, TradeKept, Account, Range
<1>4. CASE ~(t.first <= t.last)
  <2>1. met = {}
    BY <1>2, <1>4
  <2> QED
    BY <1>2, <1>3, <1>4, <2>1 DEF Valued
<1>5. CASE t.first <= t.last
  <2>1. Spans(t.excursion, gains, t.quantity) /\ t.first \in Nat \ {0}
    BY <1>2, <1>3, <1>5 DEF Valued
  <2>2. gains \subseteq Int /\ \A v \in values : v \in Int
    <3>1. Gains(t, series, t.first, t.last) \subseteq Int
      BY <1>1, <1>2, <1>3, <2>1, GainsType
    <3>2. \A i \in t.first..t.last : series[i].low \in Int /\ series[i].high \in Int
      <4>1. \A i \in t.first..t.last : i \in 1..Len(series)
        BY <1>1, <1>2, <1>3, <2>1 DEF Accounts
      <4> QED
        BY <1>1, <1>2, <4>1, BarOf
    <3> QED
      BY <1>2, <3>1, <3>2, GainType
  <2>3. Multiplied(gains, t.quantity, moved)
    <3>1. \A v \in values : (v - t.entry) * t.side * t.quantity * ContractSize
                              = Gain(t, v) * t.quantity
      <4>1. \A v \in values : v \in Int
        BY <2>2
      <4> HIDE DEF values
      <4> QED
        BY <1>2, <4>1, PnlOfDeal
    <3>2. gains = {0} \union {Gain(t, v) : v \in values}
      BY DEF Gains
    <3>3. 0 * t.quantity = 0
      BY <1>2
    <3>4. moved = {0} \union {(v - t.entry) * t.side * t.quantity * ContractSize : v \in values}
      OBVIOUS
    <3> HIDE DEF values, gains, moved
    <3> QED
      BY <3>1, <3>2, <3>3, <3>4 DEF Multiplied
  <2>4. t.excursion.favorable = Max(moved) /\ t.excursion.adverse = Min(moved)
    <3>1. gains \subseteq Int
      BY <2>2
    <3> HIDE DEF gains, moved
    <3> QED
      BY <1>2, <2>1, <2>3, <3>1, SpansIsExtreme
  <2>5. met # {}
    <3>1. t.first \in t.first..t.last
      BY <1>2, <1>5
    <3> QED
      BY <3>1
  <2> QED
    BY <2>4, <2>5 DEF ExtremeOf
<1> QED
  BY <1>4, <1>5

\* The excursion of a closed trade is that of the bars its position lived through
\* (excursion.py:71-156): of no bar of an earlier position, and of each of its own.
THEOREM ExcursionsAreWhole == Spec => []ExcursionsAreTheTrades
<1>1. Inv => ExcursionsAreTheTrades
  BY SafeMeasures DEF Inv
<1> QED
  BY SpecInv, <1>1, PTL

\* What StopsAndOrdersMoveOneWay says of a step.
OneWay ==
  /\ \A s \in Symbols :
       LET p == positions[s]
           q == positions'[s]
       IN  /\ p # NoPosition /\ q # NoPosition /\ p.id = q.id
           /\ p.stop # NoPrice /\ (q.stop = NoPrice \/ Worsens(p, q.stop))
           => \E i \in DOMAIN orders' : AddsTo(p, i)
  /\ \A i \in DOMAIN orders : orders[i].status \in Terminal => orders'[i] = orders[i]

LEMMA ContinuesOneWay ==
  ASSUME Continues(Account, Account')
  PROVE  OneWay
<1>1. Account.orders = orders /\ Account.positions = positions
      /\ Account'.orders = orders' /\ Account'.positions = positions'
  BY DEF Account
<1>2. \A i \in DOMAIN orders : orders[i].status \in Terminal => orders'[i] = orders[i]
  BY <1>1 DEF Continues, OrdersGoOn
<1>3. ASSUME NEW s \in Symbols, Same(positions[s], positions'[s]), Weaker(positions[s], positions'[s])
      PROVE  \E i \in DOMAIN orders' : AddsTo(positions[s], i)
  <2>1. Added(Account, Account', positions[s])
    BY <1>1, <1>3 DEF Continues, StopsGoOn
  <2> QED
    BY <1>1, <2>1 DEF Added, AddsTo
<1> QED
  BY <1>2, <1>3 DEF Same, Weaker, OneWay

\* The stop of a position moves to the worse only where an order adds to the position, and
\* an order that is done stays done (paper.py:428-455, 585-606; models.py:84-91).
THEOREM OneWayOnly == Spec => StopsAndOrdersMoveOneWay
<1>1. Inv /\ [Next]_vars => OneWay
  BY NextInv, ContinuesOneWay
<1> QED
  BY SpecInv, <1>1, PTL DEF Spec, StopsAndOrdersMoveOneWay, OneWay

\* paper.py:425-462: the filled quantities of the orders and the exits of the bars add up to
\* the positions, and the results of the closed trades to the balance, in every state: pending
\* fills, refusals, partial closes, reversals and averaged entries included.
THEOREM UnitsAndCashAreKept == Spec => []UnitsAndCashBalance
<1>1. Init => InBalance(Account)
  <2> HAVE Init
  <2>1. /\ Account.orders = <<>> /\ Account.closed = <<>> /\ Account.cash = InitialBalance
        /\ \A s \in Symbols : Account.positions[s] = NoPosition
    BY DEF Init, InitWith, Account
  <2> QED
    BY <2>1, NoBooks
<1>2. Inv /\ InBalance(Account) /\ [Next]_vars => InBalance(Account)'
  BY NextBooks
<1>3. InBalance(Account) => UnitsAndCashBalance
  BY BalanceShows
<1> QED
  BY <1>1, <1>2, <1>3, SpecInv, PTL DEF Spec

-----------------------------------------------------------------------------
(* What a strategy computes *)

PlusStep(p, sum, v) == sum + v
WilderStep(p, mean, v) == (mean * (p - 1) + v) \div p

Adding == INSTANCE FoldProofs WITH Step <- PlusStep
Smoothing == INSTANCE FoldProofs WITH Step <- WilderStep

LEMMA TotalType ==
  ASSUME NEW n \in Nat, NEW values, DOMAIN values = 1..n, \A i \in 1..n : values[i] \in Int
  PROVE  Total(values) \in Int
<1>1. Total(values) = Adding!Folded(0, 0, values)
  BY DEF Total, FoldLeft, MapThenFoldSet, Max, Adding!Folded, Adding!FoldLeft,
         Adding!MapThenFoldSet, Adding!Max, PlusStep
<1>2. \A k \in 1..n : \A sum \in Int : PlusStep(0, sum, values[k]) \in Int
  BY DEF PlusStep
<1>3. \A zero \in Int : Adding!Folded(0, zero, values) \in Int
  BY <1>2, Adding!FoldKeeps
<1> QED
  BY <1>1, <1>3

LEMMA WilderType ==
  ASSUME NEW n \in Nat, NEW values, Len(values) = n, values \in Seq(Int),
         NEW period \in Nat \ {0}, period <= n
  PROVE  Wilder(values, period) \in Int
<1> DEFINE first == SubSeq(values, 1, period)
           others == SubSeq(values, period + 1, n)
           base == Total(first) \div period
<1>1. DOMAIN first = 1..period /\ \A i \in 1..period : first[i] \in Int
  <2>1. \A i \in 1..period : values[i] \in Int
    BY ElementOfSeq
  <2>2. first \in Seq(Int) /\ Len(first) = period
    BY <2>1, SubSeqProperties
  <2> QED
    BY <2>1, <2>2
<1>2. base \in Int
  <2>1. Total(first) \in Int
    <3> HIDE DEF first
    <3> QED
      BY <1>1, TotalType
  <2> HIDE DEF first
  <2> QED
    BY <2>1
<1>3. PICK m \in Nat : DOMAIN others = 1..m /\ \A i \in 1..m : others[i] \in Int
  <2>1. \A i \in (period + 1)..n : values[i] \in Int
    BY ElementOfSeq
  <2>2. others \in Seq(Int)
    BY <2>1, SubSeqProperties
  <2> HIDE DEF others
  <2> QED
    BY <2>2
<1>4. Wilder(values, period) = Smoothing!Folded(period, base, others)
  BY DEF Wilder, FoldLeft, MapThenFoldSet, Max, Smoothing!Folded, Smoothing!FoldLeft,
         Smoothing!MapThenFoldSet, Smoothing!Max, WilderStep
<1> HIDE DEF base, others
<1>5. \A k \in 1..m : \A mean \in Int : WilderStep(period, mean, others[k]) \in Int
  <2> TAKE k \in 1..m, mean \in Int
  <2>1. mean * (period - 1) + others[k] \in Int
    BY <1>3
  <2> DEFINE d == mean * (period - 1) + others[k]
  <2> HIDE DEF d
  <2>2. d \in Int => d \div period \in Int
    OBVIOUS
  <2> QED
    BY <2>1, <2>2 DEF WilderStep, d
<1>6. Smoothing!Folded(period, base, others) \in Int
  BY <1>2, <1>3, <1>5, Smoothing!FoldKeeps
<1> QED
  BY <1>4, <1>6

LEMMA BarType ==
  ASSUME NEW b \in Bars
  PROVE  b.low \in Nat /\ b.high \in Nat /\ b.close \in Nat
BY AccountAssumption

LEMMA TrueRangeType ==
  ASSUME NEW b \in Bars, NEW previous \in Bars
  PROVE  TrueRange(b, previous) \in Int
<1> DEFINE x == b.high - b.low
           y == Distance(b.high, previous.close)
           z == Distance(b.low, previous.close)
<1>1. x \in Int /\ y \in Int /\ z \in Int
  BY BarType DEF Distance
<1>2. TrueRange(b, previous) = Max({x, y, z})
  BY DEF TrueRange
<1> HIDE DEF x, y, z
<1>3. \E m \in {x, y, z} : \A k \in {x, y, z} : m >= k
  BY <1>1
<1> QED
  BY <1>1, <1>2, <1>3 DEF Max

LEMMA AtrType ==
  ASSUME NEW series \in Seq(Bars), NEW period \in Nat \ {0}, period < Len(series)
  PROVE  Atr(series, period) \in Int
<1> DEFINE n == Len(series) - 1
           ranges == [i \in 1..n |-> TrueRange(series[i + 1], series[i])]
<1>1. n \in Nat /\ period <= n
  OBVIOUS
<1>2. \A i \in 1..n : TrueRange(series[i + 1], series[i]) \in Int
  <2>1. \A i \in 1..n : series[i] \in Bars /\ series[i + 1] \in Bars
    BY ElementOfSeq
  <2> QED
    BY <2>1, TrueRangeType
<1>3. Atr(series, period) = Wilder(ranges, period)
  BY DEF Atr
<1> HIDE DEF n
<1>4. ranges \in Seq(Int) /\ Len(ranges) = n
  BY <1>1, <1>2
<1> HIDE DEF ranges
<1> QED
  BY <1>1, <1>3, <1>4, WilderType

LEMMA ExtremePriceType ==
  ASSUME NEW window, IsFiniteSet(window), window # {}, window \subseteq Bars
  PROVE  Highest(window) \in Int /\ Lowest(window) \in Int
<1> DEFINE highs == {b.high : b \in window}
           lows == {b.low : b \in window}
<1>1. highs \subseteq Nat /\ highs # {} /\ lows \subseteq Nat /\ lows # {}
  BY BarType
<1>2. IsFiniteSet(highs)
  <2> DEFINE f == [b \in window |-> b.high]
  <2>1. f \in Surjection(window, highs)
    BY DEF Surjection
  <2> QED
    BY <2>1, FS_Surjection
<1> HIDE DEF highs, lows
<1>3. Max(highs) \in highs
  <2>1. Loop!IsFiniteSet(highs)
    BY <1>2 DEF IsFiniteSet, Loop!IsFiniteSet
  <2>2. Loop!Max(highs) \in highs
    BY <1>1, <2>1, Loop!MaxOfFinite
  <2> QED
    BY <2>2 DEF Max, Loop!Max
<1>4. Min(lows) \in lows
  <2>1. \E m \in lows : \A k \in lows : m <= k
    BY <1>1, Loop!LeastOf
  <2> QED
    BY <2>1 DEF Min
<1> QED
  BY <1>1, <1>3, <1>4 DEF Highest, Lowest, highs, lows

LEMMA TrailingType ==
  ASSUME NEW c, c.bars \in Seq(Bars), c.bars # <<>>, NEW atr \in Int
  PROVE  Trailing(c, atr) \in Int
<1> DEFINE shown == {j \in DOMAIN c.bars : c.from + j - 1 >= c.position.opened_at}
           since == {c.bars[i] : i \in shown}
           seen == IF since = {} THEN {Last(c.bars)} ELSE since
<1>1. Last(c.bars) \in Bars /\ \A i \in DOMAIN c.bars : c.bars[i] \in Bars
  <2>1. Len(c.bars) \in 1..Len(c.bars) /\ DOMAIN c.bars = 1..Len(c.bars)
    OBVIOUS
  <2> QED
    BY <2>1, ElementOfSeq DEF Last
<1>2. IsFiniteSet(shown)
  <2>1. DOMAIN c.bars = 1..Len(c.bars) /\ Len(c.bars) \in Nat
    OBVIOUS
  <2>2. IsFiniteSet(1..Len(c.bars))
    BY <2>1, FS_Interval
  <2>3. shown \subseteq 1..Len(c.bars)
    BY <2>1
  <2> HIDE DEF shown
  <2> QED
    BY <2>2, <2>3, FS_Subset
<1>3. IsFiniteSet(since)
  <2> DEFINE f == [i \in shown |-> c.bars[i]]
  <2> HIDE DEF shown
  <2>1. f \in Surjection(shown, since)
    BY DEF Surjection
  <2> QED
    BY <1>2, <2>1, FS_Surjection
<1>4. since \subseteq Bars
  BY <1>1
<1>5. IsFiniteSet(seen) /\ seen # {} /\ seen \subseteq Bars
  <2> HIDE DEF since
  <2>1. IsFiniteSet({Last(c.bars)})
    BY FS_Singleton
  <2> QED
    BY <1>1, <1>3, <1>4, <2>1
<1>6. StopAtrs \in Int /\ TrailAtrs \in Int
  BY StrategyAssumption
<1>7. Trailing(c, atr)
        = IF c.position.side = 1 THEN Highest(seen) - atr * TrailAtrs ELSE Lowest(seen) + atr * TrailAtrs
  BY DEF Trailing
<1> HIDE DEF seen
<1>8. Highest(seen) \in Int /\ Lowest(seen) \in Int
  BY <1>5, ExtremePriceType
<1>9. atr * TrailAtrs \in Int
  BY <1>6
<1> QED
  BY <1>7, <1>8, <1>9

LEMMA WarmupType ==
  ASSUME NEW name \in Strategies
  PROVE  WarmupBars(name) \in Nat /\ WarmupBars(name) >= AtrPeriod + 2
<1> DEFINE D == {EntryPeriod, ExitPeriod, AtrPeriod} \union (IF UseTrendFilter THEN {TrendPeriod} ELSE {})
           R == {SlowPeriod, RsiPeriod, AtrPeriod}
<1>1. /\ {EntryPeriod, ExitPeriod, TrendPeriod, SlowPeriod, RsiPeriod, AtrPeriod} \subseteq Int
      /\ AtrPeriod \in Nat
  BY StrategyAssumption
<1>2. Max(R) \in R /\ \A k \in R : Max(R) >= k
  <2>1. \E m \in R : \A k \in R : m >= k
    BY <1>1
  <2> QED
    BY <2>1 DEF Max
<1>3. Max(D) \in D /\ \A k \in D : Max(D) >= k
  <2>1. \E m \in D : \A k \in D : m >= k
    BY <1>1
  <2> QED
    BY <2>1 DEF Max
<1>4. D \subseteq Int /\ R \subseteq Int /\ AtrPeriod \in D /\ AtrPeriod \in R
  BY <1>1
<1>5. WarmupBars(name) \in {2 + Max(D), 2 + Max(R), 2 + AtrPeriod}
  BY DEF WarmupBars, Strategies
<1> HIDE DEF D, R
<1>6. Max(R) \in Int /\ Max(R) >= AtrPeriod
  BY <1>2, <1>4
<1>7. Max(D) \in Int /\ Max(D) >= AtrPeriod
  BY <1>3, <1>4
<1> QED
  BY <1>1, <1>5, <1>6, <1>7

\* A signal that can be followed on the position it was made for.
Sound(c, g) ==
  \/ g.action \in {"hold", "exit"}
  \/ g.action = "update_stop" /\ g.stop \in Int
  \/ /\ g.action = "entry" /\ c.position = NoPosition
     /\ g.side \in {1, -1} /\ g.stop \in Int /\ g.target \in Prices

LEMMA EntryType ==
  ASSUME NEW c, c.bars \in Seq(Bars), c.bars # <<>>, c.position = NoPosition, NEW atr \in Int,
         NEW side \in {1, -1}, NEW target \in BOOLEAN
  PROVE  Sound(c, Entry(side, c, atr, target)) /\ Entry(side, c, atr, target).action = "entry"
<1> DEFINE price == Last(c.bars).close
<1>1. price \in Int
  <2>1. Len(c.bars) \in 1..Len(c.bars)
    OBVIOUS
  <2>2. Last(c.bars) \in Bars
    BY <2>1, ElementOfSeq DEF Last
  <2> QED
    BY <2>2, BarType
<1>2. price - side * atr * StopAtrs \in Int /\ price + side * atr * TargetAtrs \in Int
  <2>1. \A k \in Int : side * atr * k \in Int
    OBVIOUS
  <2>2. StopAtrs \in Int /\ TargetAtrs \in Int
    BY StrategyAssumption
  <2>3. side * atr * StopAtrs \in Int /\ side * atr * TargetAtrs \in Int
    BY <2>1, <2>2
  <2> HIDE DEF price
  <2> QED
    BY <1>1, <2>3
<1> HIDE DEF price
<1> QED
  BY <1>2 DEF Entry, Signal, Sound, Prices, price

LEMMA SignalSound ==
  ASSUME NEW name \in Strategies, NEW c, c.bars \in Seq(Bars)
  PROVE  Sound(c, Generate(name, c))
<1>1. CASE Len(c.bars) < WarmupBars(name)
  BY <1>1 DEF Generate, Hold, Signal, Sound
<1>2. CASE ~(Len(c.bars) < WarmupBars(name))
  <2> DEFINE atr == Atr(c.bars, AtrPeriod)
  <2>1. Sound(c, Hold) /\ Sound(c, Exit)
    BY DEF Hold, Exit, Signal, Sound
  <2>2. atr \in Int /\ c.bars # <<>>
    <3>1. Len(c.bars) \in Nat /\ AtrPeriod \in Nat \ {0}
      BY StrategyAssumption
    <3>2. AtrPeriod < Len(c.bars)
      BY <1>2, <3>1, WarmupType
    <3> QED
      BY <3>1, <3>2, AtrType
  <2> HIDE DEF atr
  <2>3. \A side \in {1, -1}, target \in BOOLEAN :
          c.position = NoPosition => Sound(c, Entry(side, c, atr, target))
    BY <2>2, EntryType
  <2>4. Sound(c, UpdateStop(Trailing(c, atr)))
    BY <2>2, TrailingType DEF UpdateStop, Signal, Sound
  <2>5. CASE name = "donchian"
    <3>1. Generate(name, c) = Donchian(c)
      BY <1>2, <2>5 DEF Generate
    <3>2. \/ Donchian(c) \in {Hold, Manage(c, atr)}
          \/ /\ c.position = NoPosition
             /\ Donchian(c) \in {Entry(1, c, atr, FALSE), Entry(-1, c, atr, FALSE)}
      BY DEF Donchian, atr
    <3>3. Manage(c, atr) \in {Exit, Hold, UpdateStop(Trailing(c, atr))}
      BY DEF Manage
    <3> QED
      BY <2>1, <2>3, <2>4, <3>1, <3>2, <3>3
  <2>6. CASE name = "sma_rsi"
    <3>1. Generate(name, c) = SmaRsi(c)
      BY <1>2, <2>6 DEF Generate
    <3>2. \/ SmaRsi(c) \in {Hold, Exit}
          \/ /\ c.position = NoPosition
             /\ SmaRsi(c) \in {Entry(1, c, atr, TRUE), Entry(-1, c, atr, TRUE)}
      BY DEF SmaRsi, atr
    <3> QED
      BY <2>1, <2>3, <3>1, <3>2
  <2>7. CASE name = "tokyo_fix"
    <3>1. Generate(name, c) = TokyoFix(c)
      BY <1>2, <2>7 DEF Generate
    <3>2. \/ TokyoFix(c) \in {Hold, Exit}
          \/ c.position = NoPosition /\ TokyoFix(c) = Entry(FixSide, c, atr, FALSE)
      BY DEF TokyoFix, atr
    <3>3. FixSide \in {1, -1}
      BY StrategyAssumption
    <3> QED
      BY <2>1, <2>3, <3>1, <3>2, <3>3
  <2> QED
    BY <2>5, <2>6, <2>7 DEF Strategies
<1> QED
  BY <1>1, <1>2

\* What tokyo_fix says, of enough bars: outside the window out, and in only inside it.
LEMMA FixSignal ==
  ASSUME NEW c, ~(Len(c.bars) < WarmupBars("tokyo_fix")), NEW g, g = Generate("tokyo_fix", c)
  PROVE  /\ c.position # NoPosition /\ OutsideTheWindow(Last(c.clock)) => g.action = "exit"
         /\ g.action = "entry" => InWindow(Last(c.clock))
<1>1. g = TokyoFix(c)
  BY DEF Generate
<1>2. Hold.action = "hold" /\ Exit.action = "exit"
  BY DEF Hold, Exit, Signal
<1> QED
  BY <1>1, <1>2 DEF TokyoFix, IsEntryBar

-----------------------------------------------------------------------------
(* What a backtest does to an account *)

\* Nothing but market orders, and none of them raised.
Plain(a) == a.raised = FALSE /\ \A i \in DOMAIN a.orders : a.orders[i].type = "market"

\* Units, money and cash are what the orders and the trades made of them.
Balanced(a) == InBalance(a) /\ MoneyKept(a)

LEMMA BooksKeepBalance ==
  ASSUME NEW a, NEW b, KeepsBooks(a, b), Balanced(a)
  PROVE  Balanced(b)
BY DEF KeepsBooks, Balanced

\* Nothing but the position and the trades of s, and the books stay in balance.
Around(s, a, b) ==
  /\ b \in Accounts /\ b.bars = a.bars /\ a.last_id <= b.last_id /\ Plain(b)
  /\ Balanced(a) => Balanced(b)
  /\ \A r \in Symbols : r # s => b.positions[r] = a.positions[r]

\* The position of s stays, but for its stop; it is closed whole; there was none, and an order
\* opens one or is refused.
Stays(s, a, b) ==
  LET p == a.positions[s]
      q == b.positions[s]
  IN  /\ b.closed = a.closed /\ b.cash = a.cash
      /\ q # NoPosition => /\ p # NoPosition /\ q.id = p.id /\ q.initial = p.initial
                           /\ q.resized = p.resized /\ (q.stop = p.stop \/ q.stop \in Int)

Quits(s, a, b) ==
  LET p == a.positions[s]
  IN  /\ p # NoPosition /\ b.positions[s] = NoPosition
      /\ \E t \in Trades :
           /\ b.closed = Append(a.closed, t) /\ b.cash = a.cash + t.pnl
           /\ t.id = p.id /\ t.initial = p.initial /\ t.resized = p.resized /\ t.closed_at = Now(a)

Enters(s, a, b) ==
  LET q == b.positions[s]
  IN  /\ a.positions[s] = NoPosition /\ b.closed = a.closed /\ b.cash = a.cash
      /\ q # NoPosition => /\ q.id = a.last_id + 1 /\ q.id = b.last_id /\ q.resized = FALSE
                           /\ q.stop \in Int /\ q.initial \in Int

Moves(s, a, b) == Around(s, a, b) /\ (Stays(s, a, b) \/ Quits(s, a, b) \/ Enters(s, a, b))

LEMMA NothingPending ==
  ASSUME NEW a \in Accounts, NEW s \in Symbols, Plain(a)
  PROVE  ProcessPendingOrders(a, s) = a
<1> DEFINE seq == [i \in DOMAIN a.orders |-> i]
           m == Len(a.orders)
<1>1. m \in Nat /\ DOMAIN a.orders = 1..m /\ DOMAIN seq = 1..m
  BY LenProperties DEF Accounts
<1>2. ProcessPendingOrders(a, s) = Loop!Folded(s, a, seq)
  BY DEF ProcessPendingOrders, Loop!Folded, FoldLeft, MapThenFoldSet, Max,
         Loop!FoldLeft, Loop!MapThenFoldSet, Loop!Max, PendingStep
<1>3. \A i \in 1..m : \A b \in {a} : PendingStep(s, b, seq[i]) \in {a}
  BY <1>1 DEF PendingStep, Pending, Plain
<1> HIDE DEF seq
<1>4. Loop!Folded(s, a, seq) \in {a}
  BY <1>1, <1>3, Loop!FoldKeeps
<1> QED
  BY <1>2, <1>4

LEMMA ReducesQuits ==
  ASSUME NEW a \in Accounts, NEW s \in Symbols, NEW p, p = a.positions[s], p # NoPosition,
         NEW price \in Int, NEW reason \in Reasons, NEW last \in Nat,
         NEW b, Reduces(a, b, s, p.quantity, price, reason, last)
  PROVE  Quits(s, a, b) /\ \A r \in Symbols : r # s => b.positions[r] = a.positions[r]
<1> DEFINE t == Trade(a, s, p.quantity, price, reason, last)
<1>1. p \in Positions /\ p.quantity \in Nat \ {0}
  BY DEF Accounts, Positions
<1>2. t \in Trades /\ t.id = p.id /\ t.initial = p.initial /\ t.resized = p.resized /\ t.closed_at = Now(a)
  <2> DEFINE quantity == p.quantity
  <2>1. a.positions[s] # NoPosition /\ quantity \in Nat \ {0}
    BY <1>1
  <2> HIDE DEF quantity
  <2> DEFINE u == Trade(a, s, quantity, price, reason, last)
             held == a.positions[s]
  <2>2. /\ u \in Trades /\ u.id = held.id /\ u.initial = held.initial /\ u.resized = held.resized
        /\ u.closed_at = Now(a)
    BY <2>1, TradeType
  <2> QED
    BY <2>2 DEF quantity
<1>3. b.positions[s] = NoPosition
  <2>1. Rest(p, p.quantity) = NoPosition
    BY <1>1, RestType
  <2> QED
    BY <2>1 DEF Reduces
<1>4. b.closed = Append(a.closed, t) /\ b.cash = a.cash + t.pnl
  BY DEF Reduces
<1> HIDE DEF t
<1> QED
  BY <1>2, <1>3, <1>4 DEF Quits, Reduces, OthersKept

LEMMA AdvanceMoves ==
  ASSUME NEW a \in Accounts, Rested(a), Settled(a), Plain(a), NEW s \in Symbols, NEW bar \in Bars,
         NEW w, w = WithBar(a, s, bar), NEW b, b = Advance(a, s, bar)
  PROVE  /\ w \in Accounts /\ Around(s, w, b) /\ (Stays(s, w, b) \/ Quits(s, w, b))
         /\ b.last_id = a.last_id /\ b.positions[s] \in {a.positions[s], NoPosition}
<1> DEFINE n == Len(w.bars[s]) - 1
           tracked == TrackExcursion(w, s)
           p == w.positions[s]
           bar2 == Last(w.bars[s])
<1>1. /\ Standing(w, s, n) /\ w.last_id = a.last_id /\ w.positions = a.positions
      /\ w.orders = a.orders /\ w.raised = a.raised
  BY ShownKeeps
<1>2. w \in Accounts /\ n \in Nat /\ n + 1 = Len(w.bars[s]) /\ Plain(w)
  <2>1. w \in Accounts /\ Len(w.bars[s]) >= 1
    BY <1>1 DEF Standing, Displays
  <2>2. Len(w.bars[s]) \in Nat
    BY <2>1 DEF Accounts
  <2> QED
    BY <1>1, <2>1, <2>2 DEF Plain
<1>3. b = ProcessExits(tracked, s)
  <2>1. ProcessPendingOrders(w, s) = w /\ w.raised = FALSE
    BY <1>2, NothingPending DEF Plain
  <2> QED
    BY <2>1 DEF Advance, WithBar
<1>4. /\ tracked \in Accounts /\ tracked.bars = w.bars /\ tracked.positions = w.positions
      /\ tracked.orders = w.orders /\ tracked.closed = w.closed /\ tracked.cash = w.cash
      /\ tracked.last_id = w.last_id /\ tracked.raised = w.raised
  <2>1. tracked \in Accounts
    BY <1>1, <1>2, TrackKeeps DEF Standing
  <2> QED
    BY <1>2, <2>1 DEF TrackExcursion, Accounts
<1>5. KeepsBooks(w, tracked)
  BY <1>2, TrackBooks
<1> HIDE DEF n, tracked
<1>6. ASSUME p # NoPosition, NEW price \in Int, NEW reason \in {"stop_loss", "take_profit"}, b = Closed(tracked, s, price, reason)
      PROVE  Around(s, w, b) /\ Quits(s, w, b) /\ b.last_id = a.last_id /\ b.positions[s] = NoPosition
  <2> DEFINE last == Len(tracked.bars[s])
             q == tracked.positions[s]
  <2>1. last \in Nat /\ q # NoPosition /\ q.quantity \in Nat \ {0} /\ reason \in Reasons
    BY <1>2, <1>4, <1>6 DEF Accounts, Positions, Reasons
  <2>2. b = Reduce(tracked, s, q.quantity, price, reason, last)
    BY <1>6 DEF Closed
  <2>3. Reduces(tracked, b, s, q.quantity, price, reason, last)
    <3> HIDE DEF last, q
    <3> QED
      BY <1>4, <1>6, <2>1, <2>2, ReduceChanges DEF q
  <2>4. Quits(s, tracked, b) /\ \A r \in Symbols : r # s => b.positions[r] = tracked.positions[r]
    <3> HIDE DEF last
    <3> QED
      BY <1>4, <1>6, <2>1, <2>3, ReducesQuits
  <2>5. Now(tracked) = Now(w)
    BY <1>4 DEF Now
  <2>6. Quits(s, w, b)
    BY <1>4, <2>4, <2>5 DEF Quits
  <2>7. Around(s, w, b)
    <3>1. b.last_id \in Nat
      BY <2>3 DEF Reduces, Accounts
    <3>2. KeepsBooks(tracked, b)
      <4> HIDE DEF last
      <4> QED
        BY <1>4, <1>6, <2>1, <2>3, ExitBooks
    <3>3. Balanced(w) => Balanced(b)
      BY <1>5, <3>2, BooksKeepBalance
    <3> QED
      BY <1>2, <1>4, <2>3, <2>4, <3>1, <3>3 DEF Around, Reduces, Plain
  <2> QED
    BY <1>1, <1>4, <2>3, <2>4, <2>6, <2>7 DEF Reduces, Quits
<1>7. CASE b = tracked
  <2>1. Around(s, w, b)
    <3>1. w.last_id \in Nat
      BY <1>2 DEF Accounts
    <3>2. Balanced(w) => Balanced(b)
      BY <1>5, <1>7, BooksKeepBalance
    <3> QED
      BY <1>2, <1>4, <1>7, <3>1, <3>2 DEF Around, Plain
  <2> QED
    BY <1>1, <1>2, <1>4, <1>7, <2>1 DEF Stays
<1>8. \/ b = tracked
      \/ p # NoPosition /\ \E price \in Int, reason \in {"stop_loss", "take_profit"} : b = Closed(tracked, s, price, reason)
  <2>1. CASE p # NoPosition /\ StopHit(p, bar2)
    <3>1. b = Closed(tracked, s, p.stop, "stop_loss")
      BY <1>3, <1>4, <2>1 DEF ProcessExits
    <3>2. p.stop \in Int
      BY <1>2, <2>1 DEF StopHit, Accounts, Positions, Prices
    <3> QED
      BY <2>1, <3>1, <3>2
  <2>2. CASE p # NoPosition /\ ~StopHit(p, bar2) /\ TargetHit(p, bar2)
    <3>1. b = Closed(tracked, s, p.target, "take_profit")
      BY <1>3, <1>4, <2>2 DEF ProcessExits
    <3>2. p.target \in Int
      BY <1>2, <2>2 DEF TargetHit, Accounts, Positions, Prices
    <3> QED
      BY <2>2, <3>1, <3>2
  <2>3. CASE p = NoPosition \/ (~StopHit(p, bar2) /\ ~TargetHit(p, bar2))
    BY <1>3, <1>4, <2>3 DEF ProcessExits
  <2> QED
    BY <2>1, <2>2, <2>3
<1> QED
  BY <1>2, <1>6, <1>7, <1>8

\* The whole position against itself, by a reduce-only order.
LEMMA WholeExitMoves ==
  ASSUME NEW a \in Accounts, Rested(a), Plain(a), NEW s \in Symbols, NEW p, p = a.positions[s],
         p # NoPosition, NEW r, Proper(r), r.type = "market", r.reduce_only = TRUE, r.side = -p.side,
         r.quantity = p.quantity, NEW b, b = Market(a, s, r)
  PROVE  Around(s, a, b) /\ Quits(s, a, b)
<1> DEFINE w == WithOrder(a, s, r)
           m == Len(a.orders) + 1
           o == w.orders[m]
           price == Quote(a, s, r.side) + Slippage * r.side
           c == Against(w, o, price, "exit")
           after == Fill(w, m, price, "exit")
<1>1. /\ p \in Positions /\ p.quantity \in Nat \ {0} /\ p.side \in {1, -1} /\ -p.side \in {1, -1}
      /\ -p.side # p.side
  BY DEF Accounts, Positions
<1>2. r.side \in {1, -1}
  BY <1>1
<1>4. /\ w \in Accounts /\ w.bars = a.bars /\ w.positions = a.positions /\ w.closed = a.closed
      /\ w.last_id = a.last_id + 1 /\ w.raised = a.raised /\ w.cash = a.cash
      /\ DOMAIN w.orders = DOMAIN a.orders \union {m} /\ m \notin DOMAIN a.orders
      /\ o = Order(a, s, r) /\ \A i \in DOMAIN a.orders : w.orders[i] = a.orders[i]
  <2> HIDE DEF m
  <2>1. m = Len(a.orders) + 1
    BY DEF m
  <2> QED
    BY <2>1, OrderKeeps
<1>5. b = IF after.raised THEN [a EXCEPT !.last_id = @ + 1] ELSE after
  BY DEF Market, WithOrder
<1>6. /\ o.symbol = s /\ o.side = -p.side /\ o.quantity = p.quantity /\ o.reduce_only = TRUE
      /\ o.type = "market"
  BY <1>4 DEF Order
<1>7. o \in Orders
  BY <1>4, ElementOfSeq DEF Accounts
<1>8. price \in Int /\ Len(w.bars[s]) >= 1
  <2>1. Close(a, s) \in Int /\ Len(a.bars[s]) >= 1
    BY LastBar DEF Close, Rested, Displays
  <2>2. HalfSpread \in Nat /\ Slippage \in Nat
    BY AccountAssumption
  <2>3. w.bars = a.bars
    BY <1>4
  <2> HIDE DEF w, m, o, c, after
  <2> QED
    BY <1>2, <2>1, <2>2, <2>3 DEF Quote
<1>9. after = Filled(c, m, Lesser(p.quantity, o.quantity), price)
  BY <1>1, <1>4, <1>6 DEF Fill, NothingToReduce
<1> HIDE DEF w, m, price, after, c
<1>10. Reduces(w, c, s, p.quantity, price, "exit", BarsMet(w, o))
  <2>1. w.positions[o.symbol] = p /\ "exit" \in Reasons
    BY <1>4, <1>6 DEF Reasons
  <2>2. PICK quantity \in Nat \ {0} :
          /\ quantity = Lesser(p.quantity, o.quantity)
          /\ Reduces(w, c, s, quantity, price, "exit", BarsMet(w, o))
    <3> HIDE DEF o
    <3> QED
      BY <1>4, <1>6, <1>7, <1>8, <2>1, AgainstChanges DEF c
  <2>3. quantity = p.quantity
    BY <1>1, <1>6, <2>2 DEF Lesser
  <2> QED
    BY <2>2, <2>3
<1>11. Quits(s, w, c) /\ \A x \in Symbols : x # s => c.positions[x] = w.positions[x]
  <2>1. BarsMet(w, o) \in Nat /\ "exit" \in Reasons
    BY <1>6, <1>8, <1>4 DEF BarsMet, Reasons, Accounts
  <2>2. p = w.positions[s]
    BY <1>4
  <2> HIDE DEF o
  <2> QED
    BY <1>4, <1>8, <1>10, <2>1, <2>2, ReducesQuits
<1>12. Marks(c, after, m, "filled") /\ after.raised = c.raised
  <2>1. c \in Accounts /\ m \in DOMAIN c.orders /\ Lesser(p.quantity, o.quantity) \in Nat
    BY <1>1, <1>4, <1>6, <1>10 DEF Reduces, Lesser
  <2> QED
    BY <1>8, <1>9, <2>1, StatusChanges
<1>13. b = after
  BY <1>4, <1>5, <1>10, <1>12 DEF Plain, Reduces
<1>14. /\ b.bars = a.bars /\ b.closed = c.closed /\ b.cash = c.cash /\ b.positions = c.positions
       /\ b.last_id = a.last_id + 1 /\ b.raised = FALSE
  BY <1>4, <1>10, <1>12, <1>13 DEF Marks, Reduces, Plain
<1>15. Quits(s, a, b)
  <2>1. Now(a) = Now(w)
    BY <1>4 DEF Now
  <2> QED
    BY <1>4, <1>11, <1>14, <2>1 DEF Quits
<1>16. Plain(b)
  <2>1. \A i \in DOMAIN b.orders : b.orders[i].type = "market"
    BY <1>4, <1>6, <1>10, <1>12, <1>13 DEF Marks, Reduces, Plain
  <2> QED
    BY <1>14, <2>1 DEF Plain
<1>17. Balanced(a) => Balanced(b)
  <2>1. a.positions[s].side # r.side
    BY <1>1
  <2> QED
    BY <2>1, MarketBooks DEF Balanced
<1>18. Around(s, a, b)
  <2>1. b \in Accounts /\ a.last_id \in Nat
    BY <1>12, <1>13 DEF Marks, Accounts
  <2> QED
    BY <1>4, <1>11, <1>14, <1>16, <1>17, <2>1 DEF Around
<1> QED
  BY <1>15, <1>18

\* OrderManager.close_position
LEMMA ExitMoves ==
  ASSUME NEW a \in Accounts, Rested(a), Plain(a), NEW s \in Symbols, NEW p, p = a.positions[s],
         p # NoPosition, NEW r, r = Request(-p.side, p.quantity, NoPrice, NoPrice, TRUE),
         NEW b, b = Market(a, s, r)
  PROVE  /\ Proper(r) /\ r.type = "market" /\ StopRuleHolds(r, Quote(a, s, r.side))
         /\ Around(s, a, b) /\ Quits(s, a, b)
<1>1. p.quantity \in Nat \ {0} /\ -p.side \in {1, -1}
  <2>1. p \in Positions
    BY DEF Accounts
  <2>2. p.quantity \in Nat \ {0} /\ p.side \in {1, -1}
    BY <2>1 DEF Positions
  <2> QED
    BY <2>2
<1>2. /\ r.type = "market" /\ r.side = -p.side /\ r.quantity = p.quantity /\ r.trigger = NoPrice
      /\ r.stop = NoPrice /\ r.target = NoPrice /\ r.reduce_only = TRUE
  BY DEF Request
<1>3. Proper(r) /\ StopRuleHolds(r, Quote(a, s, r.side))
  BY <1>1, <1>2 DEF Proper, OrderTypes, Prices, StopRuleHolds
<1>4. Around(s, a, b) /\ Quits(s, a, b)
  BY <1>2, <1>3, WholeExitMoves
<1> QED
  BY <1>2, <1>3, <1>4

\* An entry where there is no position: refused for want of margin, or filled.
LEMMA EntryMoves ==
  ASSUME NEW a \in Accounts, Rested(a), Plain(a), NEW s \in Symbols, a.positions[s] = NoPosition,
         NEW r, Proper(r), r.type = "market", r.reduce_only = FALSE, r.stop \in Int,
         NEW b, b = Market(a, s, r)
  PROVE  Around(s, a, b) /\ Enters(s, a, b)
<1> DEFINE w == WithOrder(a, s, r)
           m == Len(a.orders) + 1
           o == w.orders[m]
           price == Quote(a, s, r.side) + Slippage * r.side
           c == OpenPosition(w, o, o.quantity, price)
           after == Fill(w, m, price, "signal")
<1>1. r.side \in {1, -1}
  BY DEF Proper
<1>2. /\ w \in Accounts /\ w.bars = a.bars /\ w.positions = a.positions /\ w.closed = a.closed
      /\ w.last_id = a.last_id + 1 /\ w.raised = a.raised /\ w.cash = a.cash
      /\ DOMAIN w.orders = DOMAIN a.orders \union {m} /\ m \notin DOMAIN a.orders
      /\ o = Order(a, s, r) /\ \A i \in DOMAIN a.orders : w.orders[i] = a.orders[i]
  <2> HIDE DEF m
  <2>1. m = Len(a.orders) + 1
    BY DEF m
  <2> QED
    BY <2>1, OrderKeeps
<1>3. b = IF after.raised THEN [a EXCEPT !.last_id = @ + 1] ELSE after
  BY DEF Market, WithOrder
<1>4. /\ o.symbol = s /\ o.stop = r.stop /\ o.reduce_only = FALSE /\ o.type = "market"
      /\ o.id = a.last_id + 1
  BY <1>2 DEF Order
<1>5. o \in Orders /\ o.quantity \in Nat \ {0}
  BY <1>2, ElementOfSeq DEF Accounts, Orders
<1>6. price \in Int /\ Len(w.bars[s]) >= 1
  <2>1. Close(a, s) \in Int /\ Len(a.bars[s]) >= 1
    BY LastBar DEF Close, Rested, Displays
  <2> QED
    BY <1>1, <1>2, <2>1, AccountAssumption DEF Quote
<1>7. after = Rejected(w, m) \/ after = Filled(c, m, o.quantity, price)
  BY <1>2, <1>4 DEF Fill, NothingToReduce
<1> HIDE DEF w, m, price, after, c
<1>8. a.last_id \in Nat
  BY DEF Accounts
<1>9. Balanced(a) => Balanced(b)
  BY MarketBooks DEF Balanced
<1>10. CASE after.raised
  <2>1. b = [a EXCEPT !.last_id = a.last_id + 1]
    BY <1>3, <1>10
  <2>2. /\ b \in Accounts /\ b.bars = a.bars /\ b.positions = a.positions /\ b.orders = a.orders
        /\ b.closed = a.closed /\ b.cash = a.cash /\ b.last_id = a.last_id + 1 /\ b.raised = a.raised
    <3>1. a.last_id + 1 \in Nat
      BY <1>8
    <3> QED
      BY <2>1, <3>1 DEF Accounts
  <2> QED
    BY <1>8, <1>9, <2>2 DEF Around, Enters, Plain
<1>11. CASE ~after.raised
  <2>1. b = after
    BY <1>3, <1>11
  <2>2. after # Rejected(w, m)
    <3>1. 0 \in Nat /\ 0 \in Int /\ m \in DOMAIN w.orders
      BY <1>2
    <3>2. Rejected(w, m).raised
      BY <1>2, <3>1, StatusChanges
    <3> QED
      BY <1>11, <3>2
  <2>3. Increases(w, c, o, o.quantity, price)
    <3> HIDE DEF o
    <3> QED
      BY <1>2, <1>4, <1>5, <1>6, OpenChanges DEF c
  <2>4. Marks(c, after, m, "filled") /\ after.raised = c.raised
    <3>1. c \in Accounts /\ m \in DOMAIN c.orders
      BY <1>2, <2>3 DEF Increases
    <3> QED
      BY <1>5, <1>6, <1>7, <2>2, <3>1, StatusChanges
  <2>5. /\ b \in Accounts /\ b.bars = a.bars /\ b.closed = a.closed /\ b.cash = a.cash
        /\ b.positions = c.positions /\ b.last_id = a.last_id + 1 /\ b.raised = FALSE
        /\ \A x \in Symbols : x # s => c.positions[x] = a.positions[x]
        /\ c.positions[s] = Opened(w, o, o.quantity, price)
    BY <1>2, <1>4, <2>1, <2>3, <2>4 DEF Marks, Increases, OthersKept, Plain
  <2>6. Plain(b)
    <3>1. \A i \in DOMAIN b.orders : b.orders[i].type = "market"
      BY <1>2, <1>4, <2>1, <2>3, <2>4 DEF Marks, Increases, Plain
    <3> QED
      BY <2>5, <3>1 DEF Plain
  <2>7. Enters(s, a, b)
    BY <1>4, <2>5 DEF Enters, Opened
  <2> QED
    BY <1>8, <1>9, <2>5, <2>6, <2>7 DEF Around
<1> QED
  BY <1>10, <1>11

LEMMA StopMoves ==
  ASSUME NEW a \in Accounts, Plain(a), NEW s \in Symbols, NEW stop \in Int,
         NEW b, b = StopMoved(a, s, stop), b \in Accounts
  PROVE  Around(s, a, b) /\ Stays(s, a, b) /\ (a.positions[s] = NoPosition => b = a)
<1>1. a.last_id \in Nat
  BY DEF Accounts
<1>2. Balanced(a) => Balanced(b)
  BY StopMovedBooks, BooksKeepBalance
<1>3. CASE b = a
  BY <1>1, <1>3 DEF Around, Stays
<1>4. CASE b # a
  <2> DEFINE p == a.positions[s]
             q == [p EXCEPT !.stop = stop]
  <2>1. p # NoPosition /\ b = [a EXCEPT !.positions = [a.positions EXCEPT ![s] = q]]
    BY <1>4 DEF StopMoved, Accounts
  <2>2. /\ q.id = p.id /\ q.initial = p.initial /\ q.resized = p.resized /\ q.stop = stop
    BY <2>1 DEF Accounts, Positions
  <2> HIDE DEF q
  <2>3. /\ b.bars = a.bars /\ b.orders = a.orders /\ b.closed = a.closed /\ b.cash = a.cash
        /\ b.last_id = a.last_id /\ b.raised = a.raised /\ b.positions[s] = q
        /\ \A r \in Symbols : r # s => b.positions[r] = a.positions[r]
    BY <2>1 DEF Accounts
  <2> QED
    BY <1>1, <1>2, <2>1, <2>2, <2>3 DEF Around, Stays, Plain
<1> QED
  BY <1>3, <1>4 DEF StopMoved

-----------------------------------------------------------------------------
(* What a backtest keeps of its positions, trades and money *)

\* Each position has a stop, was opened by one order and never resized, and is no trade's.
PositionsTidy(a) ==
  \A s \in Symbols : a.positions[s] # NoPosition =>
    LET p == a.positions[s]
    IN  /\ p.stop \in Int /\ p.initial \in Int /\ p.resized = FALSE /\ p.id <= a.last_id
        /\ \A r \in Symbols : r # s /\ a.positions[r] # NoPosition => a.positions[r].id # p.id
        /\ \A i \in DOMAIN a.closed : a.closed[i].id # p.id

TradesTidy(a) ==
  \A i \in DOMAIN a.closed :
    /\ a.closed[i].initial \in Int /\ a.closed[i].resized = FALSE /\ a.closed[i].id <= a.last_id
    /\ \A j \in DOMAIN a.closed : i # j => a.closed[i].id # a.closed[j].id

Tidy(a) == Plain(a) /\ PositionsTidy(a) /\ TradesTidy(a) /\ Balanced(a)

\* The trades of b are those of a, and some of this time.
Lengthens(a, b, time) ==
  /\ Len(a.closed) <= Len(b.closed)
  /\ \A i \in DOMAIN b.closed :
       IF i \in DOMAIN a.closed THEN b.closed[i] = a.closed[i] ELSE b.closed[i].closed_at = time

LEMMA LengthensOn ==
  ASSUME NEW a \in Accounts, NEW b \in Accounts, NEW c \in Accounts, NEW time,
         Lengthens(a, b, time), Lengthens(b, c, time)
  PROVE  Lengthens(a, c, time)
<1>1. /\ DOMAIN a.closed = 1..Len(a.closed) /\ Len(a.closed) \in Nat
      /\ DOMAIN b.closed = 1..Len(b.closed) /\ Len(b.closed) \in Nat
      /\ DOMAIN c.closed = 1..Len(c.closed) /\ Len(c.closed) \in Nat
  BY LenProperties DEF Accounts
<1> QED
  BY <1>1 DEF Lengthens

LEMMA MovesKeepTidy ==
  ASSUME NEW a \in Accounts, NEW b \in Accounts, NEW s \in Symbols, Tidy(a), Moves(s, a, b)
  PROVE  Tidy(b) /\ Lengthens(a, b, Now(a))
<1>1. /\ a.last_id \in Nat /\ b.last_id \in Nat /\ a.last_id <= b.last_id /\ Plain(b)
      /\ a.closed \in Seq(Trades) /\ DOMAIN a.closed = 1..Len(a.closed) /\ Len(a.closed) \in Nat
      /\ \A r \in Symbols : r # s => b.positions[r] = a.positions[r]
  BY LenProperties DEF Accounts, Moves, Around
<1>2. \A i \in DOMAIN a.closed : a.closed[i].id \in Nat
  <2>1. \A i \in DOMAIN a.closed : a.closed[i] \in Trades
    BY <1>1, ElementOfSeq
  <2> QED
    BY <2>1 DEF Trades
<1>3. \A r \in Symbols : /\ a.positions[r] # NoPosition => a.positions[r].id \in Nat
                         /\ b.positions[r] # NoPosition => b.positions[r].id \in Nat
  BY DEF Accounts, Positions
<1>4. PositionsTidy(a) /\ TradesTidy(a)
  BY DEF Tidy
<1>5. Balanced(b)
  BY DEF Tidy, Moves, Around
<1>6. CASE Stays(s, a, b)
  <2>1. b.closed = a.closed /\ b.cash = a.cash
    BY <1>6 DEF Stays
  <2>2. PositionsTidy(b)
    <3> SUFFICES ASSUME NEW r \in Symbols, b.positions[r] # NoPosition
                 PROVE  LET p == b.positions[r]
                        IN  /\ p.stop \in Int /\ p.initial \in Int /\ p.resized = FALSE /\ p.id <= b.last_id
                            /\ \A x \in Symbols : x # r /\ b.positions[x] # NoPosition => b.positions[x].id # p.id
                            /\ \A i \in DOMAIN b.closed : b.closed[i].id # p.id
      BY DEF PositionsTidy
    <3>1. \A x \in Symbols : b.positions[x] # NoPosition =>
            /\ a.positions[x] # NoPosition /\ b.positions[x].id = a.positions[x].id
            /\ b.positions[x].initial = a.positions[x].initial
            /\ b.positions[x].resized = a.positions[x].resized
            /\ (b.positions[x].stop = a.positions[x].stop \/ b.positions[x].stop \in Int)
      BY <1>1, <1>6 DEF Stays
    <3> QED
      BY <1>1, <1>3, <1>4, <2>1, <3>1 DEF PositionsTidy
  <2>3. TradesTidy(b)
    BY <1>1, <1>2, <1>4, <2>1 DEF TradesTidy
  <2> QED
    BY <1>1, <1>5, <2>1, <2>2, <2>3 DEF Tidy, Lengthens
<1>7. CASE Enters(s, a, b)
  <2>1. b.closed = a.closed /\ b.cash = a.cash /\ a.positions[s] = NoPosition
    BY <1>7 DEF Enters
  <2>2. b.positions[s] # NoPosition =>
          /\ b.positions[s].id = a.last_id + 1 /\ b.positions[s].id = b.last_id
          /\ b.positions[s].resized = FALSE /\ b.positions[s].stop \in Int /\ b.positions[s].initial \in Int
    BY <1>7 DEF Enters
  <2>3. PositionsTidy(b)
    <3> SUFFICES ASSUME NEW r \in Symbols, b.positions[r] # NoPosition
                 PROVE  LET p == b.positions[r]
                        IN  /\ p.stop \in Int /\ p.initial \in Int /\ p.resized = FALSE /\ p.id <= b.last_id
                            /\ \A x \in Symbols : x # r /\ b.positions[x] # NoPosition => b.positions[x].id # p.id
                            /\ \A i \in DOMAIN b.closed : b.closed[i].id # p.id
      BY DEF PositionsTidy
    <3>1. CASE r = s
      <4>1. \A x \in Symbols : x # s /\ b.positions[x] # NoPosition => b.positions[x].id <= a.last_id
        BY <1>1, <1>4 DEF PositionsTidy
      <4>2. \A i \in DOMAIN b.closed : b.closed[i].id <= a.last_id
        BY <1>4, <2>1 DEF TradesTidy
      <4>3. \A x \in Symbols : x # s /\ b.positions[x] # NoPosition => b.positions[x].id # b.positions[s].id
        BY <1>1, <1>3, <2>2, <3>1, <4>1
      <4>4. \A i \in DOMAIN b.closed : b.closed[i].id # b.positions[s].id
        BY <1>1, <1>2, <2>1, <2>2, <3>1, <4>2
      <4> QED
        BY <1>1, <2>2, <3>1, <4>3, <4>4
    <3>2. CASE r # s
      <4>1. b.positions[r] = a.positions[r] /\ a.positions[r].id <= a.last_id
        BY <1>1, <1>4, <3>2 DEF PositionsTidy
      <4>2. b.positions[s] # NoPosition => b.positions[s].id # b.positions[r].id
        BY <1>1, <1>3, <2>2, <4>1
      <4>3. LET p == a.positions[r]
            IN  /\ p.stop \in Int /\ p.initial \in Int /\ p.resized = FALSE
                /\ \A x \in Symbols : x # r /\ a.positions[x] # NoPosition => a.positions[x].id # p.id
                /\ \A i \in DOMAIN a.closed : a.closed[i].id # p.id
        BY <1>4, <4>1 DEF PositionsTidy
      <4>4. \A x \in Symbols : x # r /\ b.positions[x] # NoPosition => b.positions[x].id # b.positions[r].id
        BY <1>1, <4>1, <4>2, <4>3
      <4>5. b.positions[r].id <= b.last_id
        BY <1>1, <1>3, <4>1
      <4>6. \A i \in DOMAIN b.closed : b.closed[i].id # b.positions[r].id
        BY <2>1, <4>1, <4>3
      <4>7. b.positions[r].stop \in Int /\ b.positions[r].initial \in Int /\ b.positions[r].resized = FALSE
        BY <4>1, <4>3
      <4> QED
        BY <4>4, <4>5, <4>6, <4>7
    <3> QED
      BY <3>1, <3>2
  <2>4. TradesTidy(b)
    BY <1>1, <1>2, <1>4, <2>1 DEF TradesTidy
  <2> QED
    BY <1>1, <1>5, <2>1, <2>3, <2>4 DEF Tidy, Lengthens
<1>8. CASE Quits(s, a, b)
  <2> DEFINE p == a.positions[s]
             n == Len(a.closed)
  <2>1. p # NoPosition /\ b.positions[s] = NoPosition
    BY <1>8 DEF Quits
  <2>2. PICK t \in Trades :
          /\ b.closed = Append(a.closed, t) /\ b.cash = a.cash + t.pnl
          /\ t.id = p.id /\ t.initial = p.initial /\ t.resized = p.resized /\ t.closed_at = Now(a)
    BY <1>8 DEF Quits
  <2>3. /\ p.stop \in Int /\ p.initial \in Int /\ p.resized = FALSE /\ p.id <= a.last_id
        /\ \A x \in Symbols : x # s /\ a.positions[x] # NoPosition => a.positions[x].id # p.id
        /\ \A i \in DOMAIN a.closed : a.closed[i].id # p.id
    BY <1>4, <2>1 DEF PositionsTidy
  <2>4. /\ DOMAIN b.closed = 1..(n + 1) /\ b.closed[n + 1] = t /\ Len(b.closed) = n + 1
        /\ \A i \in 1..n : b.closed[i] = a.closed[i]
    BY <1>1, <2>2, AppendProperties
  <2>5. PositionsTidy(b)
    <3> SUFFICES ASSUME NEW r \in Symbols, b.positions[r] # NoPosition
                 PROVE  LET q == b.positions[r]
                        IN  /\ q.stop \in Int /\ q.initial \in Int /\ q.resized = FALSE /\ q.id <= b.last_id
                            /\ \A x \in Symbols : x # r /\ b.positions[x] # NoPosition => b.positions[x].id # q.id
                            /\ \A i \in DOMAIN b.closed : b.closed[i].id # q.id
      BY DEF PositionsTidy
    <3>1. r # s /\ b.positions[r] = a.positions[r]
      BY <1>1, <2>1
    <3>2. /\ a.positions[r].stop \in Int /\ a.positions[r].initial \in Int /\ a.positions[r].resized = FALSE
          /\ a.positions[r].id <= a.last_id
          /\ \A x \in Symbols : x # r /\ a.positions[x] # NoPosition => a.positions[x].id # a.positions[r].id
          /\ \A i \in DOMAIN a.closed : a.closed[i].id # a.positions[r].id
      BY <1>4, <3>1 DEF PositionsTidy
    <3>3. \A i \in DOMAIN b.closed : b.closed[i].id # a.positions[r].id
      BY <1>1, <2>2, <2>3, <2>4, <3>1, <3>2
    <3>4. a.positions[r].id <= b.last_id
      BY <1>1, <1>3, <3>1, <3>2
    <3> QED
      BY <1>1, <2>1, <3>1, <3>2, <3>3, <3>4
  <2>6. TradesTidy(b)
    <3>1. \A i \in 1..n : a.closed[i].initial \in Int /\ a.closed[i].resized = FALSE /\ a.closed[i].id <= b.last_id
      BY <1>1, <1>2, <1>4 DEF TradesTidy
    <3>2. t.initial \in Int /\ t.resized = FALSE /\ t.id <= b.last_id /\ \A i \in 1..n : a.closed[i].id # t.id
      BY <1>1, <1>3, <2>1, <2>2, <2>3
    <3>3. \A i, j \in 1..n : i # j => a.closed[i].id # a.closed[j].id
      BY <1>1, <1>4 DEF TradesTidy
    <3>4. \A i \in 1..(n + 1) : i \in 1..n \/ i = n + 1
      BY <1>1
    <3> HIDE DEF n
    <3>5. \A i \in 1..(n + 1) :
            b.closed[i].initial \in Int /\ b.closed[i].resized = FALSE /\ b.closed[i].id <= b.last_id
      BY <2>4, <3>1, <3>2, <3>4
    <3>6. \A i, j \in 1..(n + 1) : i # j => b.closed[i].id # b.closed[j].id
      BY <2>4, <3>2, <3>3, <3>4
    <3> QED
      BY <2>4, <3>5, <3>6 DEF TradesTidy
  <2>7. Lengthens(a, b, Now(a))
    BY <1>1, <2>2, <2>4 DEF Lengthens
  <2> QED
    BY <1>1, <1>5, <2>5, <2>6, <2>7 DEF Tidy
<1> QED
  BY <1>6, <1>7, <1>8 DEF Moves

-----------------------------------------------------------------------------
(* One symbol of a step *)

\* An account between two calls of a backtest.
Orderly(a) == a \in Accounts /\ Rested(a) /\ Settled(a) /\ Tidy(a)

\* From x to y, in the same bar, by what concerns s alone.
Onward(s, x, y) ==
  /\ Orderly(y) /\ Continues(x, y) /\ Lengthens(x, y, Now(x)) /\ y.bars = x.bars
  /\ \A r \in Symbols : r # s => y.positions[r] = x.positions[r]

LEMMA OnwardByMove ==
  ASSUME NEW x, Orderly(x), NEW s \in Symbols, NEW y \in Accounts, Rested(y), Settled(y),
         Continues(x, y), Moves(s, x, y)
  PROVE  Onward(s, x, y)
<1>1. Tidy(y) /\ Lengthens(x, y, Now(x))
  BY MovesKeepTidy DEF Orderly
<1> QED
  BY <1>1 DEF Onward, Orderly, Moves, Around

LEMMA OnwardByNothing ==
  ASSUME NEW x, Orderly(x), NEW s \in Symbols
  PROVE  Onward(s, x, x)
<1>1. Continues(x, x)
  BY LittleChanges DEF Orderly
<1>2. Lengthens(x, x, Now(x))
  <2>1. Len(x.closed) \in Nat
    BY LenProperties DEF Orderly, Accounts
  <2> QED
    BY <2>1 DEF Lengthens
<1> QED
  BY <1>1, <1>2 DEF Onward

LEMMA ClosesPosition ==
  ASSUME NEW x, Orderly(x), NEW s \in Symbols, NEW position, position # NoPosition,
         x.positions[s] \in {position, NoPosition}, NEW y, y = ClosePosition(x, s, position)
  PROVE  Onward(s, x, y) /\ y.positions[s] = NoPosition
<1>1. CASE x.positions[s] = NoPosition
  <2>1. y = x
    BY <1>1 DEF ClosePosition
  <2> QED
    BY <1>1, <2>1, OnwardByNothing
<1>2. CASE x.positions[s] # NoPosition
  <2>1. position = x.positions[s] /\ position.quantity \in Nat /\ x \in Accounts
    BY <1>2 DEF Orderly, Accounts, Positions
  <2>2. Lesser(position.quantity, position.quantity) = position.quantity
    BY <2>1 DEF Lesser
  <2> DEFINE r == Request(-position.side, position.quantity, NoPrice, NoPrice, TRUE)
  <2>3. y = Market(x, s, r)
    BY <1>2, <2>1, <2>2 DEF ClosePosition
  <2> HIDE DEF r
  <2>4. Rested(x) /\ Settled(x) /\ Plain(x)
    BY DEF Orderly, Tidy
  <2>5. /\ Proper(r) /\ r.type = "market" /\ StopRuleHolds(r, Quote(x, s, r.side))
        /\ Around(s, x, y) /\ Quits(s, x, y)
    BY <2>1, <2>3, <2>4, ExitMoves DEF r
  <2>6. y \in Accounts /\ Rested(y) /\ Settled(y) /\ Continues(x, y)
    BY <2>1, <2>3, <2>4, <2>5, MarketKeeps
  <2>7. Onward(s, x, y)
    BY <2>5, <2>6, OnwardByMove DEF Moves
  <2> QED
    BY <2>5, <2>7 DEF Quits
<1> QED
  BY <1>1, <1>2

LEMMA EntryGoesOn ==
  ASSUME NEW x, Orderly(x), NEW s \in Symbols, x.positions[s] = NoPosition, NEW signal,
         signal.side \in {1, -1}, signal.stop \in Int, signal.target \in Prices,
         NEW quantity \in Nat, NEW y, y = HandleEntry(x, s, signal, quantity)
  PROVE  Onward(s, x, y)
<1> DEFINE r == Request(signal.side, quantity, signal.stop, signal.target, FALSE)
<1>1. CASE y = x
  BY <1>1, OnwardByNothing
<1>2. CASE y # x
  <2>1. /\ quantity # 0 /\ StopRuleHolds(r, Quote(x, s, signal.side)) /\ y = Market(x, s, r)
    BY <1>2 DEF HandleEntry
  <2>2. /\ r.type = "market" /\ r.side = signal.side /\ r.quantity = quantity /\ r.trigger = NoPrice
        /\ r.stop = signal.stop /\ r.target = signal.target /\ r.reduce_only = FALSE
    BY DEF Request
  <2> HIDE DEF r
  <2>3. Proper(r) /\ r.stop \in Int
    BY <2>1, <2>2 DEF Proper, OrderTypes, Prices
  <2>4. x \in Accounts /\ Rested(x) /\ Settled(x) /\ Plain(x)
    BY DEF Orderly, Tidy
  <2>5. Around(s, x, y) /\ Enters(s, x, y)
    BY <2>1, <2>2, <2>3, <2>4, EntryMoves
  <2>6. y \in Accounts /\ Rested(y) /\ Settled(y) /\ Continues(x, y)
    BY <2>1, <2>2, <2>3, <2>4, MarketKeeps
  <2> QED
    BY <2>5, <2>6, OnwardByMove DEF Moves
<1> QED
  BY <1>1, <1>2

LEMMA StopGoesOn ==
  ASSUME NEW x, Orderly(x), NEW s \in Symbols, NEW stop \in Int, NEW y, y = StopMoved(x, s, stop)
  PROVE  Onward(s, x, y)
<1>1. x \in Accounts /\ Rested(x) /\ Settled(x) /\ Plain(x)
  BY DEF Orderly, Tidy
<1>2. y \in Accounts /\ Rested(y) /\ Settled(y) /\ Continues(x, y)
  BY <1>1, StopMovedKeeps
<1>3. Around(s, x, y) /\ Stays(s, x, y)
  BY <1>1, <1>2, StopMoves
<1> QED
  BY <1>2, <1>3, OnwardByMove DEF Moves

\* What the strategy is shown ends with the newest bar and has as many as it waits for.
LEMMA FunctionIsSeq ==
  ASSUME NEW T, NEW m \in Nat, NEW f \in [1..m -> T]
  PROVE  f \in Seq(T) /\ Len(f) = m
OBVIOUS

LEMMA ContextShape ==
  ASSUME NEW a \in Accounts, NEW s \in Symbols, strategy \in Strategies, NEW position,
         NEW n \in Nat, n = Len(a.bars[s]), n >= WarmupBars(strategy),
         calendar \in [1..MaxBars -> [day : Nat, minute : Nat]], n <= MaxBars,
         NEW c, c = Context(a, s, position)
  PROVE  /\ c.bars \in Seq(Bars) /\ ~(Len(c.bars) < WarmupBars(strategy))
         /\ Last(c.clock) = calendar[n] /\ c.position = position
<1> DEFINE most == Max({WarmupBars(strategy), Baseline})
           from == Greater(1, n - (most + Spare) + 1)
<1>1. WarmupBars(strategy) \in Nat /\ WarmupBars(strategy) >= 2 /\ Baseline \in Nat /\ Spare \in Nat
      /\ MaxBars \in Nat
  <2>1. AtrPeriod \in Nat
    BY StrategyAssumption
  <2>2. Baseline \in Nat /\ Spare \in Nat /\ MaxBars \in Nat
    BY BacktestAssumption, AccountAssumption
  <2> QED
    BY <2>1, <2>2, WarmupType
<1>2. most \in Nat /\ most >= WarmupBars(strategy)
  <2>1. \E m \in {WarmupBars(strategy), Baseline} : \A k \in {WarmupBars(strategy), Baseline} : m >= k
    BY <1>1
  <2> QED
    BY <1>1, <2>1 DEF Max
<1>3. /\ c.bars = SubSeq(a.bars[s], from, n) /\ c.clock = SubSeq(calendar, from, n)
      /\ c.position = position
  BY DEF Context
<1> HIDE DEF most
<1>4. from \in 1..n /\ n - from + 1 >= WarmupBars(strategy)
  <2> DEFINE warm == WarmupBars(strategy)
  <2>1. warm \in Nat /\ warm >= 2 /\ Spare \in Nat /\ most \in Nat /\ most >= warm /\ n >= warm
    BY <1>1, <1>2
  <2> HIDE DEF warm
  <2>2. from = IF 1 >= n - (most + Spare) + 1 THEN 1 ELSE n - (most + Spare) + 1
    BY DEF Greater
  <2> HIDE DEF from
  <2>3. from \in 1..n /\ n - from + 1 >= warm
    BY <2>1, <2>2
  <2> QED
    BY <2>3 DEF warm
<1> HIDE DEF from
<1>5. a.bars[s] \in Seq(Bars) /\ \A i \in from..n : a.bars[s][i] \in Bars
  <2>1. a.bars[s] \in Seq(Bars)
    BY DEF Accounts
  <2>2. \A i \in 1..n : a.bars[s][i] \in Bars
    BY <2>1, ElementOfSeq
  <2> QED
    BY <1>4, <2>1, <2>2
<1>6. c.bars \in Seq(Bars) /\ Len(c.bars) = n - from + 1
  BY <1>3, <1>4, <1>5, SubSeqProperties
<1>7. Last(c.clock) = calendar[n]
  <2> DEFINE T == [day : Nat, minute : Nat]
  <2>1. calendar \in Seq(T) /\ Len(calendar) = MaxBars
    <3>1. calendar \in [1..MaxBars -> T]
      OBVIOUS
    <3>2. MaxBars \in Nat
      BY <1>1
    <3> HIDE DEF T
    <3> QED
      BY <3>1, <3>2, FunctionIsSeq, Zenon
  <2> HIDE DEF T
  <2>2. \A i \in from..n : calendar[i] \in T
    BY <1>1, <1>4, <2>1, ElementOfSeq
  <2>3. /\ c.clock \in Seq(T) /\ Len(c.clock) = n - from + 1
        /\ \A i \in 1..(n - from + 1) : c.clock[i] = calendar[from + i - 1]
    <3> DEFINE clock == SubSeq(calendar, from, n)
    <3>1. from \in Int /\ n \in Int /\ from <= n
      BY <1>4
    <3>2. /\ clock \in Seq(T) /\ Len(clock) = n - from + 1
          /\ \A i \in 1..(n - from + 1) : clock[i] = calendar[from + i - 1]
      BY <2>2, <3>1, SubSeqProperties
    <3>3. c.clock = clock
      BY <1>3
    <3> HIDE DEF clock
    <3> QED
      BY <3>2, <3>3
  <2>4. n - from + 1 \in 1..(n - from + 1) /\ from + (n - from + 1) - 1 = n
    BY <1>4
  <2>5. c.clock[n - from + 1] = calendar[from + (n - from + 1) - 1]
    BY <2>3, <2>4
  <2>6. Last(c.clock) = c.clock[n - from + 1]
    BY <2>3 DEF Last
  <2> QED
    BY <2>4, <2>5, <2>6
<1> QED
  BY <1>1, <1>3, <1>4, <1>6, <1>7

\* A fix position that a bar leaves behind is in the window.
LEMMA HandleGoesOn ==
  ASSUME NEW x, Orderly(x), NEW s \in Symbols, NEW name \in Strategies, NEW c, c.bars \in Seq(Bars),
         NEW position, c.position = position, x.positions[s] \in {position, NoPosition},
         NEW quantity \in Nat, NEW y, y = Handle(x, s, Generate(name, c), position, quantity)
  PROVE  /\ Onward(s, x, y)
         /\ /\ name = "tokyo_fix" /\ ~(Len(c.bars) < WarmupBars(name))
            /\ Last(c.clock).minute \in Nat /\ y.positions[s] # NoPosition
            => InWindow(Last(c.clock))
<1> DEFINE g == Generate(name, c)
<1>1. Sound(c, g)
  BY SignalSound
<1>2. /\ name = "tokyo_fix" /\ ~(Len(c.bars) < WarmupBars(name)) =>
           /\ position # NoPosition /\ OutsideTheWindow(Last(c.clock)) => g.action = "exit"
           /\ g.action = "entry" => InWindow(Last(c.clock))
  BY FixSignal
<1>3. Last(c.clock).minute \in Nat /\ ~OutsideTheWindow(Last(c.clock)) => InWindow(Last(c.clock))
  <2>1. EntryTime \in Int /\ ExitTime \in Int
    BY StrategyAssumption
  <2> QED
    BY <2>1 DEF OutsideTheWindow, InWindow
<1> HIDE DEF g
<1>4. y = Handle(x, s, g, position, quantity)
  BY DEF g
<1>5. CASE y = x /\ g.action # "exit"
  <2>1. Onward(s, x, y)
    BY <1>5, OnwardByNothing
  <2> QED
    BY <1>2, <1>3, <1>5, <2>1
<1>6. CASE g.action = "hold"
  <2>1. y = x
    BY <1>4, <1>6 DEF Handle
  <2> QED
    BY <1>5, <1>6, <2>1
<1>7. CASE g.action = "exit"
  <2>1. y = IF position = NoPosition THEN x ELSE ClosePosition(x, s, position)
    BY <1>4, <1>7 DEF Handle, HandleExit
  <2>2. CASE position = NoPosition
    BY <2>1, <2>2, OnwardByNothing
  <2>3. CASE position # NoPosition
    BY <2>1, <2>3, ClosesPosition
  <2> QED
    BY <2>2, <2>3
<1>8. CASE g.action = "update_stop"
  <2>1. y = IF position = NoPosition THEN x ELSE StopMoved(x, s, g.stop)
    BY <1>4, <1>8 DEF Handle, HandleStopUpdate
  <2>2. g.stop \in Int
    BY <1>1, <1>8 DEF Sound
  <2>3. Onward(s, x, y)
    BY <2>1, <2>2, OnwardByNothing, StopGoesOn
  <2>4. position = NoPosition => y.positions[s] = NoPosition
    BY <2>1
  <2> QED
    BY <1>2, <1>3, <1>8, <2>3, <2>4
<1>9. CASE g.action = "entry"
  <2>1. y = HandleEntry(x, s, g, quantity)
    BY <1>4, <1>9 DEF Handle
  <2>2. position = NoPosition /\ g.side \in {1, -1} /\ g.stop \in Int /\ g.target \in Prices
    BY <1>1, <1>9 DEF Sound
  <2>3. Onward(s, x, y)
    BY <2>1, <2>2, EntryGoesOn
  <2> QED
    BY <1>2, <1>9, <2>3
<1> QED
  BY <1>1, <1>6, <1>7, <1>8, <1>9 DEF Sound

\* From a to b, by the next bar of s, which is number n.
Processed(s, bar, n, a, b) ==
  /\ Orderly(b) /\ Continues(a, b) /\ Lengthens(a, b, n) /\ b.bars = [a.bars EXCEPT ![s] = Append(@, bar)]
  /\ \A r \in Symbols : r # s => b.positions[r] = a.positions[r]
  /\ strategy = "tokyo_fix" /\ b.positions[s] # NoPosition => InWindow(calendar[n])

LEMMA SymbolIsProcessed ==
  ASSUME NEW a, Orderly(a), NEW s \in Symbols, NEW position, position = a.positions[s],
         NEW bar \in Bars, NEW quantity \in Nat, NEW n \in Nat, n = Len(a.bars[s]) + 1,
         n >= WarmupBars(strategy), n <= MaxBars, strategy \in Strategies,
         calendar \in [1..MaxBars -> [day : Nat, minute : Nat]],
         Now(WithBar(a, s, bar)) = n, NEW b, b = ProcessSymbol(a, s, position, bar, quantity)
  PROVE  Processed(s, bar, n, a, b)
<1> DEFINE w == WithBar(a, s, bar)
           x == Advance(a, s, bar)
           c == Context(x, s, position)
<1>1. a \in Accounts /\ Rested(a) /\ Settled(a) /\ Tidy(a) /\ Plain(a)
  BY DEF Orderly, Tidy
<1>2. x \in Accounts /\ Rested(x) /\ Settled(x) /\ Continues(a, x) /\ x.last_id = a.last_id
  BY <1>1, AdvanceKeeps
<1>3. /\ w \in Accounts /\ Around(s, w, x) /\ (Stays(s, w, x) \/ Quits(s, w, x))
      /\ x.positions[s] \in {position, NoPosition}
  BY <1>1, AdvanceMoves
<1>4. /\ w.last_id = a.last_id /\ w.positions = a.positions /\ w.orders = a.orders
      /\ w.closed = a.closed /\ w.cash = a.cash /\ w.raised = a.raised
  BY <1>1, ShownKeeps
<1>5. w.bars = [a.bars EXCEPT ![s] = Append(@, bar)]
  BY <1>1 DEF WithBar, Accounts
<1> HIDE DEF w, x
<1>6. Tidy(w)
  <2>1. \A r \in Symbols : Alike(a.positions[r], w.positions[r])
    BY <1>4 DEF Alike
  <2>2. Balanced(w)
    BY <1>1, <1>4, <2>1, AlikeBooks, BooksKeepBalance DEF Tidy
  <2> QED
    BY <1>1, <1>4, <2>2 DEF Tidy, Plain, PositionsTidy, TradesTidy
<1>7. Tidy(x) /\ Lengthens(w, x, Now(w))
  <2>1. Moves(s, w, x)
    BY <1>3 DEF Moves
  <2> QED
    BY <1>2, <1>3, <1>6, <2>1, MovesKeepTidy
<1>8. /\ Orderly(x) /\ x.bars = w.bars /\ Now(x) = n /\ Lengthens(a, x, n)
      /\ \A r \in Symbols : r # s => x.positions[r] = a.positions[r]
  <2>1. x.bars = w.bars
    BY <1>3 DEF Around
  <2>2. Now(w) = n
    BY DEF w
  <2>3. Now(x) = n
    BY <2>1, <2>2 DEF Now
  <2>4. Lengthens(a, x, n)
    <3>1. Lengthens(w, x, n)
      BY <1>7, <2>2
    <3> QED
      BY <1>4, <3>1 DEF Lengthens
  <2>5. \A r \in Symbols : r # s => x.positions[r] = a.positions[r]
    BY <1>3, <1>4 DEF Around
  <2> QED
    BY <1>2, <1>7, <2>1, <2>3, <2>4, <2>5 DEF Orderly
<1>9. ASSUME Onward(s, x, b), strategy = "tokyo_fix" /\ b.positions[s] # NoPosition => InWindow(calendar[n])
      PROVE  Processed(s, bar, n, a, b)
  <2>1. Orderly(b) /\ b.bars = x.bars /\ \A r \in Symbols : r # s => b.positions[r] = a.positions[r]
    BY <1>8, <1>9 DEF Onward
  <2>2. Continues(a, b)
    <3>1. b \in Accounts /\ Named(a) /\ Numbered(b) /\ Continues(x, b)
      BY <1>1, <1>9, <2>1 DEF Orderly, Rested, Onward
    <3> QED
      BY <1>1, <1>2, <3>1, ContinuesOn
  <2>3. Lengthens(a, b, n)
    <3>1. Lengthens(x, b, n)
      BY <1>8, <1>9 DEF Onward
    <3> QED
      BY <1>1, <1>2, <1>8, <2>1, <3>1, LengthensOn DEF Orderly
  <2> QED
    BY <1>5, <1>8, <1>9, <2>1, <2>2, <2>3 DEF Processed
<1>10. Len(x.bars[s]) = n
  <2>1. a.bars[s] \in Seq(Bars) /\ s \in DOMAIN a.bars
    BY <1>1 DEF Accounts
  <2>2. x.bars[s] = Append(a.bars[s], bar)
    BY <1>5, <1>8, <2>1
  <2>3. Len(Append(a.bars[s], bar)) = Len(a.bars[s]) + 1
    BY <2>1, AppendProperties
  <2> QED
    BY <2>2, <2>3
<1>11. /\ c.bars \in Seq(Bars) /\ ~(Len(c.bars) < WarmupBars(strategy))
       /\ Last(c.clock) = calendar[n] /\ c.position = position
  BY <1>2, <1>10, ContextShape
<1>12. calendar[n].minute \in Nat
  <2>1. n >= 1
    <3>1. WarmupBars(strategy) \in Nat /\ AtrPeriod \in Nat
      BY WarmupType, StrategyAssumption
    <3> QED
      BY <3>1, WarmupType
  <2>2. n \in 1..MaxBars
    BY <2>1, AccountAssumption
  <2> QED
    BY <2>2
<1> HIDE DEF c
<1> DEFINE forced == IF position # NoPosition /\ Breached(position, Close(x, s))
                     THEN ClosePosition(x, s, position) ELSE x
<1>13. b = IF forced # x THEN forced ELSE Handle(x, s, Generate(strategy, c), position, quantity)
  BY DEF ProcessSymbol, x, c
<1> HIDE DEF forced
<1>14. CASE forced # x
  <2>1. b = ClosePosition(x, s, position) /\ position # NoPosition
    BY <1>13, <1>14 DEF forced
  <2>2. Onward(s, x, b) /\ b.positions[s] = NoPosition
    BY <1>3, <1>8, <2>1, ClosesPosition
  <2> QED
    BY <1>9, <2>2
<1>15. CASE forced = x
  <2>1. b = Handle(x, s, Generate(strategy, c), position, quantity)
    BY <1>13, <1>15
  <2>2. /\ Onward(s, x, b)
        /\ /\ strategy = "tokyo_fix" /\ ~(Len(c.bars) < WarmupBars(strategy))
           /\ Last(c.clock).minute \in Nat /\ b.positions[s] # NoPosition
           => InWindow(Last(c.clock))
    BY <1>3, <1>8, <1>11, <2>1, HandleGoesOn
  <2> QED
    BY <1>9, <1>11, <1>12, <2>2
<1> QED
  BY <1>14, <1>15

-----------------------------------------------------------------------------
(* A step: all symbols, one after the other *)

\* p has the positions at the beginning of the step, and the bars and the sizes of it.
StepOf(p, a, s) == ProcessSymbol(a, s, p.positions[s], p.next[s], p.size[s])

Stepping == INSTANCE FoldProofs WITH Step <- StepOf

Level == \A s \in Symbols : Len(bars[s]) = Shown

Ready ==
  /\ strategy \in Strategies /\ calendar \in [1..MaxBars -> [day : Nat, minute : Nat]]
  /\ Shown \in Nat /\ Shown >= WarmupBars(strategy) /\ Shown + 1 <= MaxBars
  /\ Level /\ Orderly(Account)

InWindowAt(a, s, n) == strategy = "tokyo_fix" /\ a.positions[s] # NoPosition => InWindow(calendar[n])

Met(a, j) ==
  Len(a.bars[SymbolOrder[j]]) = Shown + 1 /\ InWindowAt(a, SymbolOrder[j], Shown + 1)

Unmet(a, j) ==
  Len(a.bars[SymbolOrder[j]]) = Shown /\ a.positions[SymbolOrder[j]] = positions[SymbolOrder[j]]

\* Where the loop over the symbols can be after the first k.
Midway(k) ==
  {a \in Accounts :
     /\ Orderly(a) /\ Continues(Account, a) /\ Lengthens(Account, a, Shown + 1)
     /\ \A j \in DOMAIN SymbolOrder : IF j <= k THEN Met(a, j) ELSE Unmet(a, j)}

LEMMA OrderOfSymbols ==
  /\ DOMAIN SymbolOrder = 1..Len(SymbolOrder) /\ Len(SymbolOrder) \in Nat \ {0}
  /\ \A j \in DOMAIN SymbolOrder : SymbolOrder[j] \in Symbols
  /\ \A i, j \in DOMAIN SymbolOrder : SymbolOrder[i] = SymbolOrder[j] => i = j
  /\ \A s \in Symbols : \E j \in DOMAIN SymbolOrder : s = SymbolOrder[j]
<1>1. SymbolOrder \in Seq(Symbols) /\ SymbolOrder # <<>>
  BY BacktestAssumption
<1>2. DOMAIN SymbolOrder = 1..Len(SymbolOrder) /\ Len(SymbolOrder) \in Nat \ {0}
  BY <1>1
<1>3. \A j \in DOMAIN SymbolOrder : SymbolOrder[j] \in Symbols
  BY <1>1, <1>2, ElementOfSeq
<1>4. \A i, j \in DOMAIN SymbolOrder : SymbolOrder[i] = SymbolOrder[j] => i = j
  BY BacktestAssumption DEF IsInjective
<1>5. \A s \in Symbols : \E j \in DOMAIN SymbolOrder : s = SymbolOrder[j]
  BY BacktestAssumption DEF Range
<1> QED
  BY <1>2, <1>3, <1>4, <1>5

LEMMA NowIs ==
  ASSUME NEW a, NEW n \in Nat, NEW s \in Symbols, Len(a.bars[s]) = n,
         \A r \in Symbols : Len(a.bars[r]) \in Nat /\ Len(a.bars[r]) <= n
  PROVE  Now(a) = n
<1> DEFINE D == {Len(a.bars[r]) : r \in Symbols}
<1>1. n \in D /\ \A k \in D : k \in Nat /\ n >= k
  OBVIOUS
<1>2. Now(a) = Max(D)
  BY DEF Now
<1> HIDE DEF D
<1>3. Max(D) \in D /\ \A k \in D : Max(D) >= k
  BY <1>1 DEF Max
<1>4. Max(D) >= n /\ n >= Max(D) /\ Max(D) \in Nat
  BY <1>1, <1>3
<1> QED
  BY <1>2, <1>4

LEMMA NextSymbol ==
  ASSUME Ready, NEW p, p.positions = positions, p.next \in [Symbols -> Bars],
         p.size \in [Symbols -> Nat], NEW k \in 0..(Len(SymbolOrder) - 1), NEW a \in Midway(k)
  PROVE  StepOf(p, a, SymbolOrder[k + 1]) \in Midway(k + 1)
<1> DEFINE s == SymbolOrder[k + 1]
           n == Shown + 1
           bar == p.next[s]
           b == StepOf(p, a, s)
           w == WithBar(a, s, bar)
<1>1. k + 1 \in DOMAIN SymbolOrder /\ s \in Symbols /\ bar \in Bars /\ p.size[s] \in Nat
  BY OrderOfSymbols
<1>2. /\ a \in Accounts /\ Orderly(a) /\ Continues(Account, a) /\ Lengthens(Account, a, n)
      /\ \A j \in DOMAIN SymbolOrder : IF j <= k THEN Met(a, j) ELSE Unmet(a, j)
  BY DEF Midway
<1>3. Unmet(a, k + 1)
  BY <1>1, <1>2
<1>4. p.positions[s] = a.positions[s] /\ n = Len(a.bars[s]) + 1 /\ n \in Nat
  BY <1>3 DEF Unmet, Ready
<1>5. n >= WarmupBars(strategy) /\ n <= MaxBars
  <2>1. WarmupBars(strategy) \in Nat /\ MaxBars \in Nat
    <3>1. AtrPeriod \in Nat
      BY StrategyAssumption
    <3> QED
      BY <3>1, WarmupType, AccountAssumption DEF Ready
  <2> QED
    BY <2>1 DEF Ready
<1> HIDE DEF n, s
<1>6. /\ w.bars = [a.bars EXCEPT ![s] = Append(@, bar)]
      /\ Len(w.bars[s]) = n /\ \A r \in Symbols : r # s => w.bars[r] = a.bars[r]
  <2>1. a.bars[s] \in Seq(Bars) /\ s \in DOMAIN a.bars
    BY <1>1, <1>2 DEF Accounts
  <2>2. w.bars = [a.bars EXCEPT ![s] = Append(@, bar)]
    BY <1>2 DEF WithBar, Accounts
  <2> HIDE DEF bar
  <2> QED
    BY <1>1, <1>4, <2>1, <2>2, AppendProperties
<1>7. Now(w) = n
  <2>1. \A r \in Symbols : Len(w.bars[r]) \in Nat /\ Len(w.bars[r]) <= n
    <3> TAKE r \in Symbols
    <3>1. CASE r = s
      BY <1>4, <1>6, <3>1
    <3>2. CASE r # s
      <4>1. PICK j \in DOMAIN SymbolOrder : r = SymbolOrder[j]
        BY OrderOfSymbols
      <4>2. Len(a.bars[r]) = Shown + 1 \/ Len(a.bars[r]) = Shown
        BY <1>2, <4>1 DEF Met, Unmet
      <4>3. Shown \in Nat /\ n = Shown + 1
        BY DEF Ready, n
      <4> QED
        BY <1>6, <3>2, <4>2, <4>3
    <3> QED
      BY <3>1, <3>2
  <2> HIDE DEF w
  <2> QED
    BY <1>1, <1>4, <1>6, <2>1, NowIs
<1>8. Processed(s, bar, n, a, b)
  <2>1. b = ProcessSymbol(a, s, p.positions[s], bar, p.size[s])
    BY DEF StepOf
  <2> HIDE DEF bar, b
  <2>2. strategy \in Strategies /\ calendar \in [1..MaxBars -> [day : Nat, minute : Nat]]
    BY DEF Ready
  <2> QED
    BY <1>1, <1>2, <1>4, <1>5, <1>7, <2>1, <2>2, SymbolIsProcessed
<1> HIDE DEF b, bar
<1>9. /\ Orderly(b) /\ b \in Accounts /\ Continues(a, b) /\ Lengthens(a, b, n) /\ b.bars = w.bars
      /\ \A r \in Symbols : r # s => b.positions[r] = a.positions[r]
      /\ InWindowAt(b, s, n)
  BY <1>6, <1>8 DEF Processed, Orderly, InWindowAt
<1>10. Account \in Accounts /\ Named(Account) /\ Numbered(b)
  BY <1>9 DEF Ready, Orderly, Rested
<1>11. Continues(Account, b)
  BY <1>2, <1>9, <1>10, ContinuesOn
<1>12. Lengthens(Account, b, n)
  BY <1>2, <1>9, <1>10, LengthensOn
<1>13. \A j \in DOMAIN SymbolOrder : IF j <= k + 1 THEN Met(b, j) ELSE Unmet(b, j)
  <2> TAKE j \in DOMAIN SymbolOrder
  <2>1. j \in Int /\ k \in Int
    BY OrderOfSymbols
  <2>2. CASE j = k + 1
    BY <1>6, <1>9, <2>1, <2>2 DEF Met, s, n
  <2>3. CASE j # k + 1
    <3> DEFINE r == SymbolOrder[j]
    <3>1. r \in Symbols /\ r # s
      BY <1>1, <2>3, OrderOfSymbols DEF s
    <3> HIDE DEF r
    <3>2. b.positions[r] = a.positions[r] /\ b.bars[r] = a.bars[r]
      BY <1>6, <1>9, <3>1
    <3>3. IF j <= k THEN Met(a, j) ELSE Unmet(a, j)
      BY <1>2
    <3> QED
      BY <2>1, <2>3, <3>2, <3>3 DEF Met, Unmet, InWindowAt, r
  <2> QED
    BY <2>2, <2>3
<1>14. b \in Midway(k + 1)
  BY <1>9, <1>11, <1>12, <1>13 DEF Midway, n
<1> QED
  BY <1>14 DEF b, s

\* The account at the end of a step.
LEMMA StepGoesOn ==
  ASSUME Ready, NEW p, p.positions = positions, p.next \in [Symbols -> Bars],
         p.size \in [Symbols -> Nat]
  PROVE  Stepping!Folded(p, Account, SymbolOrder) \in Midway(Len(SymbolOrder))
<1> DEFINE m == Len(SymbolOrder)
<1>1. m \in Nat /\ DOMAIN SymbolOrder = 1..m
  BY OrderOfSymbols
<1>2. PICK v : Stepping!Values(p, Account, SymbolOrder, m, v)
  BY <1>1, Stepping!FoldSteps
<1>3. /\ v[0] = Account /\ Stepping!Folded(p, Account, SymbolOrder) = v[m]
      /\ \A k \in 0..(m - 1) : v[k + 1] = StepOf(p, v[k], SymbolOrder[k + 1])
  BY <1>2 DEF Stepping!Values
<1> DEFINE T == {k \in 0..m : v[k] \in Midway(k)}
<1>4. Account \in Midway(0)
  <2>1. Account \in Accounts /\ Orderly(Account)
    BY DEF Ready, Orderly
  <2>2. Continues(Account, Account)
    BY <2>1, LittleChanges
  <2>3. Lengthens(Account, Account, Shown + 1)
    <3>1. Len(Account.closed) \in Nat
      BY <2>1, LenProperties DEF Accounts
    <3> QED
      BY <3>1 DEF Lengthens
  <2>4. \A j \in DOMAIN SymbolOrder : ~(j <= 0) /\ Unmet(Account, j)
    <3>1. Account.bars = bars /\ Account.positions = positions
      BY DEF Account
    <3> QED
      BY <3>1, OrderOfSymbols DEF Unmet, Ready, Level
  <2> QED
    BY <2>1, <2>2, <2>3, <2>4 DEF Midway
<1>5. 0 \in T
  BY <1>1, <1>3, <1>4
<1>6. ASSUME NEW k \in 0..(m - 1), k \in T
      PROVE  k + 1 \in T
  <2>1. v[k] \in Midway(k) /\ k \in 0..(Len(SymbolOrder) - 1)
    BY <1>6
  <2>2. v[k + 1] \in Midway(k + 1)
    BY <1>3, <2>1, NextSymbol
  <2> QED
    BY <1>1, <2>2
<1> HIDE DEF T
<1>7. 0..m \subseteq T
  BY <1>1, <1>5, <1>6, Stepping!UpTo
<1>8. m \in T
  BY <1>1, <1>7
<1> QED
  BY <1>3, <1>8 DEF T

-----------------------------------------------------------------------------
(* The trades that reach the store *)

SyncStep(p, kept, t) ==
  IF \E k \in Range(kept) : Key(k) = Key(t) THEN kept ELSE Append(kept, t)

Syncing == INSTANCE FoldProofs WITH Step <- SyncStep

\* The store that has a prefix of the trades is given the others.
LEMMA SyncedIsAll ==
  ASSUME NEW trades \in Seq(Trades), NEW k \in 0..Len(trades),
         \A i, j \in DOMAIN trades : i # j => trades[i].id # trades[j].id
  PROVE  Synced(SubSeq(trades, 1, k), trades) = trades
<1> DEFINE m == Len(trades)
           base == SubSeq(trades, 1, k)
<1>1. m \in Nat /\ DOMAIN trades = 1..m /\ \A i \in 1..m : trades[i] \in Trades
  BY LenProperties, ElementOfSeq
<1>2. Synced(base, trades) = Syncing!Folded(0, base, trades)
  BY DEF Synced, FoldLeft, MapThenFoldSet, Max, Syncing!Folded, Syncing!FoldLeft,
         Syncing!MapThenFoldSet, Syncing!Max, SyncStep
<1>3. PICK v : Syncing!Values(0, base, trades, m, v)
  BY <1>1, Syncing!FoldSteps
<1>4. /\ v[0] = base /\ Syncing!Folded(0, base, trades) = v[m]
      /\ \A i \in 1..m : v[i] = SyncStep(0, v[i - 1], trades[i])
  BY <1>3 DEF Syncing!Values
<1>5. \A n \in 0..m : /\ SubSeq(trades, 1, n) \in Seq(Trades) /\ Len(SubSeq(trades, 1, n)) = n
                      /\ \A i \in 1..n : SubSeq(trades, 1, n)[i] = trades[i]
  <2> TAKE n \in 0..m
  <2>1. \A i \in 1..n : trades[i] \in Trades
    BY <1>1
  <2> QED
    BY <1>1, <2>1, SubSeqProperties
<1> DEFINE T == {i \in 0..m : v[i] = SubSeq(trades, 1, Greater(k, i))}
<1>6. 0 \in T
  BY <1>1, <1>4 DEF Greater
<1>7. ASSUME NEW i \in 0..(m - 1), i \in T
      PROVE  i + 1 \in T
  <2> DEFINE n == Greater(k, i)
             t == trades[i + 1]
             kept == SubSeq(trades, 1, n)
  <2>1. v[i] = kept /\ n \in 0..m /\ i + 1 \in 1..m /\ (i + 1) - 1 = i
    BY <1>1, <1>7 DEF Greater
  <2>2. v[i + 1] = SyncStep(0, kept, t)
    BY <1>4, <2>1
  <2>3. kept \in Seq(Trades) /\ DOMAIN kept = 1..n /\ \A j \in 1..n : kept[j] = trades[j]
    BY <1>5, <2>1, LenProperties
  <2> HIDE DEF kept
  <2>4. CASE i + 1 <= k
    <3>1. n = k /\ i + 1 \in 1..n /\ Greater(k, i + 1) = n
      BY <1>1, <2>1, <2>4 DEF Greater
    <3>2. t \in Range(kept)
      BY <2>3, <3>1 DEF Range
    <3>3. v[i + 1] = kept
      BY <2>2, <3>2 DEF SyncStep
    <3> QED
      BY <1>1, <3>1, <3>3 DEF kept
  <2>5. CASE ~(i + 1 <= k)
    <3>1. n = i /\ Greater(k, i + 1) = i + 1
      BY <1>1, <2>1, <2>5 DEF Greater
    <3>2. \A j \in 1..n : kept[j].id # t.id
      BY <1>1, <2>1, <2>3, <3>1
    <3>3. ~\E x \in Range(kept) : Key(x) = Key(t)
      BY <2>3, <3>2 DEF Range, Key
    <3>4. v[i + 1] = Append(kept, t)
      BY <2>2, <3>3 DEF SyncStep
    <3>5. SubSeq(trades, 1, i + 1) = Append(kept, t)
      <4>1. SubSeq(trades, 1, i + 1) = SubSeq(trades, 1, i) \o <<trades[i + 1]>>
        <5>1. 1 \in 1..m /\ i + 1 \in 1..m /\ (i + 1) - 1 = i
          BY <1>1, <2>1
        <5> QED
          BY <5>1, SubSeqRecursiveSecond
      <4>2. t \in Trades
        BY <1>1, <2>1
      <4> QED
        BY <2>3, <3>1, <4>1, <4>2, AppendIsConcat DEF kept
    <3>6. v[i + 1] = SubSeq(trades, 1, Greater(k, i + 1))
      BY <3>1, <3>4, <3>5, Zenon
    <3>7. i + 1 \in 0..m
      BY <1>1, <2>1
    <3> QED
      BY <3>6, <3>7
  <2> QED
    BY <2>4, <2>5
<1> HIDE DEF T
<1>8. 0..m \subseteq T
  BY <1>1, <1>6, <1>7, Syncing!UpTo
<1>9. v[m] = SubSeq(trades, 1, Greater(k, m)) /\ Greater(k, m) = m
  <2>1. m \in T
    BY <1>1, <1>8
  <2>2. Greater(k, m) = m
    <3>1. k \in 0..m
      OBVIOUS
    <3> HIDE DEF m
    <3> QED
      BY <1>1, <3>1 DEF Greater
  <2> QED
    BY <2>1, <2>2 DEF T
<1> QED
  BY <1>2, <1>4, <1>9, SubSeqFull

-----------------------------------------------------------------------------
(* The inductive invariant of a backtest *)

Arguments ==
  /\ strategy \in Strategies /\ calendar \in [1..MaxBars -> [day : Nat, minute : Nat]]
  /\ length \in 1..MaxBars

\* Enough bars for the strategy, unless the series has too few for a backtest.
Clocked ==
  /\ Level /\ Shown >= Lesser(WarmupBars(strategy), length) /\ Shown <= length
  /\ connected => length >= WarmupBars(strategy) + MinSteps /\ result = NoResult

ClosedInTime == \A i \in DOMAIN closed : closed[i].closed_at <= Shown

\* What a backtest has ended with, and ends with once.
Reported ==
  result \notin {NoResult, ConfigError} =>
    /\ result.summary = Summarized(closed) /\ result.trades = closed
    /\ result.final = Equity(Account)

Book ==
  /\ Safe /\ Tidy(Account) /\ Arguments /\ Clocked /\ ClosedInTime /\ Reported
  /\ TradesReachTheStore /\ FixPositionsStayInTheWindow

LEMMA ShownType ==
  ASSUME Safe
  PROVE  Shown \in Nat /\ Shown >= 1
<1>1. SymbolOrder[1] \in Symbols
  BY OrderOfSymbols
<1>2. bars[SymbolOrder[1]] \in Seq(Bars) /\ Len(bars[SymbolOrder[1]]) >= 1
  BY <1>1 DEF Safe, Account, Accounts, IInv, Rested, Displays
<1> QED
  BY <1>2 DEF Shown

LEMMA WarmupNumbers ==
  ASSUME NEW name \in Strategies
  PROVE  WarmupBars(name) \in Nat \ {0} /\ MinSteps \in Nat \ {0} /\ MaxBars \in Nat
<1>1. AtrPeriod \in Nat
  BY StrategyAssumption
<1>2. MinSteps \in Nat \ {0} /\ MaxBars \in Nat
  BY BacktestAssumption, AccountAssumption
<1> QED
  BY <1>1, <1>2, WarmupType

LEMMA BookInit ==
  ASSUME BInit
  PROVE  Book
<1> DEFINE n == Lesser(WarmupBars(strategy), length)
<1>1. Arguments
  BY BacktestAssumption DEF BInit, Arguments
<1>2. n \in Nat \ {0} /\ n <= length
  <2>1. WarmupBars(strategy) \in Nat \ {0} /\ length \in Nat \ {0}
    BY <1>1, WarmupNumbers DEF Arguments
  <2> QED
    BY <2>1 DEF Lesser
<1>3. InitWith(n)
  BY DEF BInit
<1> HIDE DEF n
<1>4. Safe
  BY <1>2, <1>3, InitSafe
<1>5. Tidy(Account)
  <2>1. /\ Account.raised = FALSE /\ Account.orders = <<>> /\ Account.closed = <<>>
        /\ Account.cash = InitialBalance /\ \A s \in Symbols : Account.positions[s] = NoPosition
    BY <1>3 DEF InitWith, Account
  <2>2. Balanced(Account)
    BY <2>1, NoBooks DEF Balanced
  <2> QED
    BY <2>1, <2>2 DEF Tidy, Plain, PositionsTidy, TradesTidy
<1>6. \A s \in Symbols : Len(bars[s]) = n
  <2>1. \A s \in Symbols : bars[s] \in [1..n -> Bars]
    BY <1>3 DEF InitWith
  <2> QED
    BY <1>2, <2>1
<1>7. Shown = n
  BY <1>6, OrderOfSymbols DEF Shown
<1>8. Clocked
  BY <1>2, <1>3, <1>6, <1>7 DEF Clocked, Level, InitWith, n
<1>9. closed = <<>> /\ stored = <<>> /\ result = NoResult /\ \A s \in Symbols : positions[s] = NoPosition
  BY <1>3 DEF BInit, InitWith
<1>10. TradesReachTheStore
  <2>1. SubSeq(closed, 1, 0) = <<>>
    BY SubSeqEmpty
  <2>2. 0 \in 0..Len(closed) /\ DOMAIN closed = {}
    BY <1>9
  <2> QED
    BY <1>9, <2>1, <2>2 DEF TradesReachTheStore
<1> QED
  BY <1>1, <1>4, <1>5, <1>8, <1>9, <1>10 DEF Book, ClosedInTime, Reported, FixPositionsStayInTheWindow

\* The account and the store stay as they are.
LEMMA BookStays ==
  ASSUME Book, UNCHANGED <<account, last_id, arguments, stored>>, connected' \in BOOLEAN,
         connected' => length >= WarmupBars(strategy) + MinSteps /\ result' = NoResult, Reported'
  PROVE  Book' /\ Continues(Account, Account')
<1>1. /\ bars' = bars /\ positions' = positions /\ orders' = orders /\ cash' = cash /\ closed' = closed
      /\ excursions' = excursions /\ last_id' = last_id /\ strategy' = strategy
      /\ calendar' = calendar /\ length' = length /\ stored' = stored
  BY DEF account, arguments
<1>2. Account' = Account /\ Shown' = Shown
  BY <1>1 DEF Account, Shown
<1>3. Account \in Accounts /\ Rested(Account) /\ Settled(Account)
  BY DEF Book, Safe, IInv
<1>4. Safe' /\ Continues(Account, Account')
  <2>1. Becomes(Account)
    BY <1>1 DEF Becomes, Account
  <2>2. Continues(Account, Account)
    BY <1>3, LittleChanges
  <2> QED
    BY <1>3, <2>1, <2>2, BecomesKeeps
<1>5. Tidy(Account)'
  BY <1>2 DEF Book
<1>6. Arguments' /\ ClosedInTime'
  BY <1>1, <1>2 DEF Book, Arguments, ClosedInTime
<1>7. Clocked'
  BY <1>1, <1>2 DEF Book, Clocked, Level
<1>8. TradesReachTheStore'
  BY <1>1, <1>2 DEF Book, TradesReachTheStore
<1>9. FixPositionsStayInTheWindow'
  BY <1>1, <1>2 DEF Book, FixPositionsStayInTheWindow
<1> QED
  BY <1>4, <1>5, <1>6, <1>7, <1>8, <1>9 DEF Book

LEMMA ReadyForStep ==
  ASSUME Book, connected, Shown < length
  PROVE  Ready /\ length \in Nat /\ MaxBars \in Nat
<1>1. Arguments /\ Clocked /\ Safe /\ Tidy(Account)
  BY DEF Book
<1>2. WarmupBars(strategy) \in Nat \ {0} /\ MinSteps \in Nat \ {0} /\ MaxBars \in Nat
  BY <1>1, WarmupNumbers DEF Arguments
<1>3. length \in Nat /\ length <= MaxBars
  BY <1>1, <1>2 DEF Arguments
<1>4. Shown \in Nat
  BY <1>1, ShownType
<1>5. Shown >= WarmupBars(strategy)
  <2>1. Lesser(WarmupBars(strategy), length) = WarmupBars(strategy)
    BY <1>1, <1>2, <1>3 DEF Clocked, Lesser
  <2> QED
    BY <1>1, <2>1 DEF Clocked
<1>6. Shown + 1 <= MaxBars
  BY <1>2, <1>3, <1>4
<1>7. Orderly(Account)
  BY <1>1 DEF Orderly, Safe, IInv
<1> QED
  BY <1>1, <1>2, <1>3, <1>4, <1>5, <1>6, <1>7 DEF Ready, Arguments, Clocked

LEMMA BookStep ==
  ASSUME Book, Step
  PROVE  Book' /\ Continues(Account, Account')
<1>1. Ready /\ length \in Nat /\ MaxBars \in Nat
  BY ReadyForStep DEF Step
<1>2. PICK next \in Joint, size \in Sizes :
        Becomes(FoldLeft(LAMBDA a, s : ProcessSymbol(a, s, positions[s], next[s], size[s]),
                         Account, SymbolOrder))
  BY DEF Step
<1> DEFINE p == [positions |-> positions, next |-> next, size |-> size]
           b == Stepping!Folded(p, Account, SymbolOrder)
           m == Len(SymbolOrder)
           n == Shown + 1
<1>3. FoldLeft(LAMBDA a, s : ProcessSymbol(a, s, positions[s], next[s], size[s]), Account, SymbolOrder) = b
  BY DEF FoldLeft, MapThenFoldSet, Max, Stepping!Folded, Stepping!FoldLeft,
         Stepping!MapThenFoldSet, Stepping!Max, StepOf
<1>4. p.positions = positions /\ p.next \in [Symbols -> Bars] /\ p.size \in [Symbols -> Nat]
  BY BacktestAssumption
<1> HIDE DEF p
<1>5. b \in Midway(m)
  BY <1>1, <1>4, StepGoesOn
<1>6. Becomes(b)
  BY <1>2, <1>3
<1> HIDE DEF b
<1>7. /\ b \in Accounts /\ Rested(b) /\ Settled(b) /\ Tidy(b) /\ Continues(Account, b) /\ Lengthens(Account, b, n)
      /\ \A j \in DOMAIN SymbolOrder : IF j <= m THEN Met(b, j) ELSE Unmet(b, j)
  BY <1>5 DEF Midway, Orderly
<1>8. \A s \in Symbols : Len(b.bars[s]) = n /\ InWindowAt(b, s, n)
  <2> TAKE s \in Symbols
  <2>1. PICK j \in DOMAIN SymbolOrder : s = SymbolOrder[j]
    BY OrderOfSymbols
  <2>2. j <= m
    BY OrderOfSymbols
  <2>3. Met(b, j)
    BY <1>7, <2>2
  <2> QED
    BY <2>1, <2>3 DEF Met
<1> HIDE DEF n, m
<1>9. /\ connected' = connected /\ strategy' = strategy /\ calendar' = calendar /\ length' = length
      /\ result' = result /\ stored' = Synced(stored, closed)
  BY DEF Step, arguments
<1>10. /\ bars' = b.bars /\ positions' = b.positions /\ orders' = b.orders /\ cash' = b.cash
       /\ closed' = b.closed /\ excursions' = b.excursions /\ last_id' = b.last_id
  BY <1>6 DEF Becomes
<1>11. Safe' /\ Continues(Account, Account')
  <2>1. connected' \in BOOLEAN
    BY <1>9 DEF Book, Safe
  <2> QED
    BY <1>6, <1>7, <2>1, BecomesKeeps
<1>12. Shown' = n /\ n = Shown + 1 /\ Shown \in Nat /\ Shown < length
  <2>1. SymbolOrder[1] \in Symbols
    BY OrderOfSymbols
  <2>2. Shown' = n
    BY <1>8, <1>10, <2>1 DEF Shown
  <2> QED
    BY <1>1, <2>2 DEF Ready, n, Step
<1>13. Level'
  BY <1>8, <1>10, <1>12 DEF Level
<1>14. Clocked'
  <2>1. WarmupBars(strategy) \in Nat
    BY WarmupNumbers DEF Book, Arguments
  <2>2. n >= Lesser(WarmupBars(strategy), length) /\ n <= length
    BY <1>1, <1>12, <2>1 DEF Book, Clocked, Lesser
  <2> QED
    BY <1>9, <1>12, <1>13, <2>2 DEF Book, Clocked
<1>15. Tidy(Account)'
  <2> DEFINE c == Account'
  <2>1. /\ c.positions = b.positions /\ c.orders = b.orders /\ c.cash = b.cash /\ c.closed = b.closed
        /\ c.last_id = b.last_id /\ c.raised = FALSE
    BY <1>10 DEF Account
  <2> HIDE DEF c
  <2>2. \A s \in Symbols : Alike(b.positions[s], c.positions[s])
    BY <2>1 DEF Alike
  <2>3. Balanced(c)
    BY <1>7, <2>1, <2>2, AlikeBooks, BooksKeepBalance DEF Tidy
  <2>4. Tidy(c)
    BY <1>7, <2>1, <2>3 DEF Tidy, Plain, PositionsTidy, TradesTidy
  <2> QED
    BY <2>4 DEF c
<1>16. /\ closed \in Seq(Trades) /\ b.closed \in Seq(Trades) /\ Len(closed) \in Nat /\ Len(b.closed) \in Nat
       /\ DOMAIN closed = 1..Len(closed) /\ DOMAIN b.closed = 1..Len(b.closed)
       /\ Len(closed) <= Len(b.closed) /\ \A i \in 1..Len(closed) : b.closed[i] = closed[i]
       /\ \A i \in DOMAIN b.closed : i \notin DOMAIN closed => b.closed[i].closed_at = n
  <2>1. Account.closed = closed
    BY DEF Account
  <2>2. closed \in Seq(Trades) /\ b.closed \in Seq(Trades)
    BY <1>7, <2>1 DEF Book, Safe, Accounts
  <2>3. Len(closed) \in Nat /\ Len(b.closed) \in Nat /\ DOMAIN closed = 1..Len(closed)
        /\ DOMAIN b.closed = 1..Len(b.closed)
    BY <2>2, LenProperties
  <2> QED
    BY <1>7, <2>1, <2>2, <2>3 DEF Lengthens
<1>17. \A i \in DOMAIN closed : closed[i].closed_at \in Nat /\ closed[i].closed_at <= Shown
  <2>1. \A i \in DOMAIN closed : closed[i] \in Trades
    BY <1>16, ElementOfSeq
  <2>2. \A i \in DOMAIN closed : closed[i].closed_at \in Nat
    BY <2>1 DEF Trades
  <2> QED
    BY <2>2 DEF Book, ClosedInTime
<1>18. ClosedInTime'
  <2>1. \A i \in DOMAIN b.closed : b.closed[i].closed_at <= n
    BY <1>12, <1>16, <1>17
  <2> QED
    BY <1>10, <1>12, <2>1 DEF ClosedInTime
<1>19. stored' = closed
  <2>1. PICK k \in 0..Len(closed) : stored = SubSeq(closed, 1, k)
    BY DEF Book, TradesReachTheStore
  <2>2. \A i, j \in DOMAIN closed : i # j => closed[i].id # closed[j].id
    BY DEF Book, Tidy, TradesTidy, Account
  <2> QED
    BY <1>9, <1>16, <2>1, <2>2, SyncedIsAll
<1>20. TradesReachTheStore'
  <2> DEFINE k == Len(closed)
  <2>1. SubSeq(b.closed, 1, k) = closed
    <3>1. \A i \in 1..k : b.closed[i] \in Trades
      BY <1>16, ElementOfSeq
    <3>2. /\ SubSeq(b.closed, 1, k) \in Seq(Trades) /\ Len(SubSeq(b.closed, 1, k)) = k
          /\ \A i \in 1..k : SubSeq(b.closed, 1, k)[i] = closed[i]
      BY <1>16, <3>1, SubSeqProperties
    <3> QED
      BY <1>16, <3>2, SeqEqual
  <2>2. \A i \in DOMAIN b.closed : b.closed[i].closed_at < n <=> i <= k
    BY <1>12, <1>16, <1>17
  <2>3. k \in 0..Len(b.closed)
    BY <1>16
  <2> QED
    BY <1>10, <1>12, <1>19, <2>1, <2>2, <2>3 DEF TradesReachTheStore
<1>21. FixPositionsStayInTheWindow'
  BY <1>8, <1>9, <1>10, <1>12 DEF InWindowAt, FixPositionsStayInTheWindow
<1>22. Arguments'
  BY <1>9 DEF Book, Arguments
<1>23. Reported'
  <2>1. result = NoResult
    BY DEF Book, Clocked, Step
  <2> QED
    BY <1>9, <2>1 DEF Reported
<1> QED
  BY <1>11, <1>14, <1>15, <1>18, <1>20, <1>21, <1>22, <1>23 DEF Book

LEMMA BookNext ==
  ASSUME Book, [BNext]_btvars
  PROVE  Book' /\ Continues(Account, Account')
<1>1. CASE Begin
  <2>1. UNCHANGED <<account, last_id, arguments, stored, result>> /\ connected' = TRUE /\ result = NoResult
    BY <1>1 DEF Begin, Connect
  <2>2. Reported'
    BY <2>1 DEF Reported
  <2> QED
    BY <1>1, <2>1, <2>2, BookStays DEF Begin
<1>2. CASE TooShort
  <2>1. UNCHANGED <<account, last_id, arguments, stored, connected>> /\ result' = ConfigError
    BY <1>2 DEF TooShort, vars
  <2>2. Reported'
    BY <2>1 DEF Reported
  <2>3. ~connected
    <3>1. WarmupBars(strategy) \in Nat /\ MinSteps \in Nat /\ length \in Nat
      BY WarmupNumbers DEF Book, Arguments
    <3> QED
      BY <1>2, <3>1 DEF Book, Clocked, TooShort
  <2>4. connected' \in BOOLEAN
    BY <2>1 DEF Book, Safe
  <2> QED
    BY <2>1, <2>2, <2>3, <2>4, BookStays
<1>3. CASE Step
  BY <1>3, BookStep
<1>4. CASE Finish
  <2>1. UNCHANGED <<account, last_id, arguments, stored>> /\ connected' = FALSE
    BY <1>4 DEF Finish, Disconnect
  <2>2. Reported'
    <3>1. Account' = Account /\ closed' = closed
      BY <2>1 DEF account, Account
    <3>2. Equity(Account)' = Equity(Account)
      BY <3>1
    <3>3. result' = [summary |-> Summarized(closed), trades |-> closed, final |-> Equity(Account)]
      BY <1>4 DEF Finish
    <3> QED
      BY <3>1, <3>2, <3>3 DEF Reported
  <2> QED
    BY <2>1, <2>2, BookStays
<1>5. CASE UNCHANGED btvars
  <2>1. UNCHANGED <<account, last_id, arguments, stored, connected, result>>
    BY <1>5 DEF btvars, vars
  <2>2. Reported'
    <3>1. Account' = Account /\ closed' = closed
      BY <2>1 DEF account, Account
    <3> QED
      BY <2>1, <3>1 DEF Book, Reported
  <2>3. connected' \in BOOLEAN
    BY <2>1 DEF Book, Safe
  <2>4. connected' => length >= WarmupBars(strategy) + MinSteps /\ result' = NoResult
    BY <2>1 DEF Book, Clocked
  <2> QED
    BY <2>1, <2>2, <2>3, <2>4, BookStays
<1> QED
  BY <1>1, <1>2, <1>3, <1>4, <1>5 DEF BNext

LEMMA SpecBook == BSpec => []Book
<1>1. Book /\ [BNext]_btvars => Book'
  BY BookNext
<1> QED
  BY <1>1, BookInit, PTL DEF BSpec

-----------------------------------------------------------------------------
(* The result *)

SummaryStep(p, sum, t) ==
  LET cumulative == sum.net + t.pnl
      peak       == Greater(sum.peak, cumulative)
  IN  [net |-> cumulative, peak |-> peak,
       drawdown |-> Greater(sum.drawdown, peak - cumulative),
       wins |-> sum.wins + (IF t.pnl > 0 THEN 1 ELSE 0),
       losses |-> sum.losses + (IF t.pnl < 0 THEN 1 ELSE 0)]

Summing == INSTANCE FoldProofs WITH Step <- SummaryStep

Nothing == [net |-> 0, peak |-> 0, drawdown |-> 0, wins |-> 0, losses |-> 0]

\* What a summary says of the running totals e, up to the k-th trade.
Tells(sum, e, k) ==
  /\ sum.net = e[k] /\ sum.peak \in Int /\ sum.drawdown \in Int
  /\ sum.wins \in Int /\ sum.losses \in Int /\ sum.wins + sum.losses <= k
  /\ \E i \in 0..k : sum.peak = e[i]
  /\ \A i \in 0..k : e[i] <= sum.peak
  /\ \E j \in 0..k : \E i \in 0..j : sum.drawdown = e[i] - e[j]
  /\ \A j \in 0..k : \A i \in 0..j : e[i] - e[j] <= sum.drawdown

LEMMA SummaryTells ==
  ASSUME NEW n \in Nat, NEW e \in [0..n -> Int], NEW k \in 0..(n - 1), NEW sum, Tells(sum, e, k),
         NEW t, t.pnl \in Int, e[k + 1] = e[k] + t.pnl
  PROVE  Tells(SummaryStep(0, sum, t), e, k + 1)
<1> DEFINE c == e[k + 1]
           new == SummaryStep(0, sum, t)
<1>1. /\ sum.net = e[k] /\ sum.peak \in Int /\ sum.drawdown \in Int
      /\ sum.wins \in Int /\ sum.losses \in Int /\ sum.wins + sum.losses <= k
      /\ \E i \in 0..k : sum.peak = e[i]
      /\ \A i \in 0..k : e[i] <= sum.peak
      /\ \E j \in 0..k : \E i \in 0..j : sum.drawdown = e[i] - e[j]
      /\ \A j \in 0..k : \A i \in 0..j : e[i] - e[j] <= sum.drawdown
  BY DEF Tells
<1>2. /\ k + 1 \in 0..n /\ c \in Int /\ k \in Nat /\ 0..k \subseteq 0..(k + 1) /\ k + 1 \in 0..(k + 1)
      /\ \A i \in 0..(k + 1) : i \in 0..k \/ i = k + 1
      /\ \A i \in 0..(k + 1) : e[i] \in Int
  OBVIOUS
<1>3. /\ new.net = c /\ new.peak = Greater(sum.peak, c)
      /\ new.drawdown = Greater(sum.drawdown, Greater(sum.peak, c) - c)
      /\ new.wins = sum.wins + (IF t.pnl > 0 THEN 1 ELSE 0)
      /\ new.losses = sum.losses + (IF t.pnl < 0 THEN 1 ELSE 0)
  BY <1>1 DEF SummaryStep
<1> HIDE DEF new
<1>4. /\ new.wins \in Int /\ new.losses \in Int /\ new.wins + new.losses <= k + 1
  <2> DEFINE w == IF t.pnl > 0 THEN 1 ELSE 0
             l == IF t.pnl < 0 THEN 1 ELSE 0
  <2>1. w \in Int /\ l \in Int /\ w + l <= 1
    OBVIOUS
  <2>2. new.wins = sum.wins + w /\ new.losses = sum.losses + l
    BY <1>3
  <2> HIDE DEF w, l, c
  <2>3. sum.wins \in Int /\ sum.losses \in Int /\ sum.wins + sum.losses <= k
    BY DEF Tells
  <2>4. k \in Int
    OBVIOUS
  <2>5. new.wins \in Int /\ new.losses \in Int
    BY <2>1, <2>2, <2>3
  <2>6. (sum.wins + w) + (sum.losses + l) = (sum.wins + sum.losses) + (w + l)
    BY <2>1, <2>3
  <2>7. (sum.wins + sum.losses) + (w + l) <= k + 1
    <3> DEFINE x == sum.wins + sum.losses
               y == w + l
    <3>1. x \in Int /\ y \in Int /\ x <= k /\ y <= 1
      BY <2>1, <2>3
    <3> HIDE DEF x, y
    <3>2. x + y <= k + 1
      BY <2>4, <3>1
    <3> QED
      BY <3>2 DEF x, y
  <2> QED
    BY <2>2, <2>5, <2>6, <2>7
<1> HIDE DEF c
<1>5. new.peak \in Int /\ new.peak >= sum.peak /\ new.peak >= c /\ new.peak \in {sum.peak, c}
  BY <1>1, <1>2, <1>3 DEF Greater
<1>6. (\E i \in 0..(k + 1) : new.peak = e[i]) /\ \A i \in 0..(k + 1) : e[i] <= new.peak
  <2>1. \E i \in 0..(k + 1) : new.peak = e[i]
    BY <1>1, <1>2, <1>5 DEF c
  <2>2. \A i \in 0..(k + 1) : e[i] <= new.peak
    <3> TAKE i \in 0..(k + 1)
    <3>1. CASE i = k + 1
      BY <1>5, <3>1 DEF c
    <3>2. CASE i \in 0..k
      <4>1. e[i] <= sum.peak
        BY <1>1, <3>2
      <4>2. e[i] \in Int
        BY <1>2
      <4>3. sum.peak \in Int /\ new.peak \in Int /\ new.peak >= sum.peak
        BY <1>1, <1>5
      <4> QED
        BY <4>1, <4>2, <4>3
    <3> QED
      BY <1>2, <3>1, <3>2
  <2> QED
    BY <2>1, <2>2
<1>7. /\ new.drawdown \in Int /\ new.drawdown >= sum.drawdown /\ new.drawdown >= new.peak - c
      /\ new.drawdown \in {sum.drawdown, new.peak - c}
  BY <1>1, <1>2, <1>3, <1>5 DEF Greater
<1>8. \E j \in 0..(k + 1) : \E i \in 0..j : new.drawdown = e[i] - e[j]
  <2>1. CASE new.drawdown = sum.drawdown
    BY <1>1, <1>2, <2>1
  <2>2. CASE new.drawdown = new.peak - c
    <3>1. PICK i \in 0..(k + 1) : new.peak = e[i]
      BY <1>6
    <3> QED
      BY <1>2, <2>2, <3>1 DEF c
  <2> QED
    BY <1>7, <2>1, <2>2
<1>9. \A j \in 0..(k + 1) : \A i \in 0..j : e[i] - e[j] <= new.drawdown
  <2> TAKE j \in 0..(k + 1)
  <2> TAKE i \in 0..j
  <2>1. CASE j = k + 1
    <3>1. i \in 0..(k + 1)
      BY <2>1
    <3>2. e[i] <= new.peak /\ e[i] \in Int
      BY <1>2, <1>6, <3>1
    <3>3. e[j] = c
      BY <2>1 DEF c
    <3> QED
      BY <1>2, <1>5, <1>7, <3>2, <3>3
  <2>2. CASE j \in 0..k
    <3>1. e[i] - e[j] <= sum.drawdown /\ e[i] \in Int /\ e[j] \in Int
      <4>1. i \in 0..(k + 1)
        BY <2>2
      <4> QED
        BY <1>1, <1>2, <2>2, <4>1
    <3>2. sum.drawdown \in Int /\ new.drawdown \in Int /\ new.drawdown >= sum.drawdown
      BY <1>1, <1>7
    <3> QED
      BY <3>1, <3>2
  <2> QED
    BY <1>2, <2>1, <2>2
<1>10. Tells(new, e, k + 1)
  BY <1>3, <1>4, <1>5, <1>6, <1>7, <1>8, <1>9 DEF Tells, c
<1> QED
  BY <1>10 DEF new

LEMMA SummaryIs ==
  ASSUME NEW trades \in Seq(Trades), NEW n, n = Len(trades),
         NEW e, e = [k \in 0..n |-> Earned(SubSeq(trades, 1, k))]
  PROVE  e \in [0..n -> Int] /\ Tells(Summarized(trades), e, n)
<1>1. n \in Nat /\ DOMAIN trades = 1..n /\ \A i \in 1..n : trades[i] \in Trades
  BY LenProperties, ElementOfSeq
<1>2. \A k \in 0..n : SubSeq(trades, 1, k) \in Seq(Trades)
  <2> TAKE k \in 0..n
  <2>1. \A i \in 1..k : trades[i] \in Trades
    BY <1>1
  <2> QED
    BY <1>1, <2>1, SubSeqProperties
<1>3. e \in [0..n -> Int]
  BY <1>2, EarnedType
<1>4. e[0] = 0
  <2>1. SubSeq(trades, 1, 0) = <<>>
    BY SubSeqEmpty
  <2>2. Earned(<<>>) = 0
    BY Earning!FoldOfEmpty DEF Earned
  <2>3. e[0] = Earned(SubSeq(trades, 1, 0))
    BY <1>1
  <2> QED
    BY <2>1, <2>2, <2>3
<1>5. \A k \in 0..(n - 1) : e[k + 1] = e[k] + trades[k + 1].pnl
  <2> TAKE k \in 0..(n - 1)
  <2>1. e[k] = Earned(SubSeq(trades, 1, k)) /\ e[k + 1] = Earned(SubSeq(trades, 1, k + 1))
    BY <1>1
  <2>2. Earning!Folded(0, 0, SubSeq(trades, 1, k + 1))
          = PnlStep(0, Earning!Folded(0, 0, SubSeq(trades, 1, k)), trades[k + 1])
    BY Earning!FoldOfPrefix
  <2> QED
    BY <2>1, <2>2 DEF Earned, PnlStep
<1>6. Summarized(trades) = Summing!Folded(0, Nothing, trades)
  BY DEF Summarized, FoldLeft, MapThenFoldSet, Max, Summing!Folded, Summing!FoldLeft,
         Summing!MapThenFoldSet, Summing!Max, SummaryStep, Nothing
<1>7. PICK v : Summing!Values(0, Nothing, trades, n, v)
  BY <1>1, Summing!FoldSteps
<1>8. /\ v[0] = Nothing /\ Summing!Folded(0, Nothing, trades) = v[n]
      /\ \A k \in 1..n : v[k] = SummaryStep(0, v[k - 1], trades[k])
  BY <1>7 DEF Summing!Values
<1> DEFINE T == {k \in 0..n : Tells(v[k], e, k)}
<1>9. 0 \in T
  <2>1. Tells(Nothing, e, 0)
    BY <1>4 DEF Tells, Nothing
  <2> QED
    BY <1>1, <1>8, <2>1
<1>10. ASSUME NEW k \in 0..(n - 1), k \in T
       PROVE  k + 1 \in T
  <2>1. k + 1 \in 1..n /\ (k + 1) - 1 = k
    BY <1>1
  <2>2. v[k + 1] = SummaryStep(0, v[k], trades[k + 1])
    BY <1>8, <2>1
  <2>3. trades[k + 1].pnl \in Int
    BY <1>1, <2>1 DEF Trades
  <2>4. Tells(v[k], e, k) /\ e[k + 1] = e[k] + trades[k + 1].pnl
    BY <1>5, <1>10
  <2>5. Tells(v[k + 1], e, k + 1)
    BY <1>1, <1>3, <2>2, <2>3, <2>4, SummaryTells
  <2> QED
    BY <1>1, <2>1, <2>5
<1> HIDE DEF T
<1>11. 0..n \subseteq T
  BY <1>1, <1>9, <1>10, Summing!UpTo
<1>12. n \in T
  BY <1>1, <1>11
<1> QED
  BY <1>3, <1>6, <1>8, <1>12 DEF T

\* The greatest of the falls is the one that bounds them.
LEMMA DeepestFall ==
  ASSUME NEW n \in Nat, NEW e \in [0..n -> Int], NEW sum, Tells(sum, e, n), NEW falls,
         \A x : x \in falls <=> \E j \in 0..n : \E i \in 0..j : x = e[i] - e[j]
  PROVE  sum.drawdown = Max(falls)
<1>1. \A x \in falls : x \in Int /\ x <= sum.drawdown
  <2> TAKE x \in falls
  <2>1. PICK j \in 0..n : \E i \in 0..j : x = e[i] - e[j]
    OBVIOUS
  <2>2. PICK i \in 0..j : x = e[i] - e[j]
    BY <2>1
  <2>3. i \in 0..n
    BY <2>2
  <2>4. e[i] \in Int /\ e[j] \in Int
    BY <2>3
  <2>5. e[i] - e[j] <= sum.drawdown
    BY DEF Tells
  <2> QED
    BY <2>2, <2>4, <2>5
<1>2. sum.drawdown \in falls /\ sum.drawdown \in Int
  BY DEF Tells
<1>3. \E x \in falls : \A y \in falls : x >= y
  BY <1>1, <1>2
<1>4. Max(falls) \in falls /\ \A y \in falls : Max(falls) >= y
  BY <1>3 DEF Max
<1> QED
  BY <1>1, <1>2, <1>4

-----------------------------------------------------------------------------
(* What a backtest guarantees *)

\* runner.py:257, orders.py:208: whatever symbols, bars, calendars and sizes there are, no
\* backtest leaves a position without a stop, adds to one, closes one in part or trades one twice.
THEOREM BacktestPositionsAreWhole == BSpec => []PositionsAreWhole
<1>1. Book => PositionsAreWhole
  <2> SUFFICES ASSUME Book
               PROVE  PositionsAreWhole
    OBVIOUS
  <2>1. PositionsTidy(Account) /\ TradesTidy(Account) /\ Account.positions = positions
        /\ Account.closed = closed
    BY DEF Book, Tidy, Account
  <2>2. NoPrice \notin Int
    BY QuotesAssumption
  <2>3. \A s \in Symbols : positions[s] # NoPosition => positions[s].stop # NoPrice /\ ~positions[s].resized
    BY <2>1, <2>2 DEF PositionsTidy
  <2>4. \A i \in DOMAIN closed :
          /\ closed[i].initial # NoPrice /\ ~closed[i].resized
          /\ \A j \in DOMAIN closed : i # j => closed[i].id # closed[j].id
    BY <2>1, <2>2 DEF TradesTidy
  <2>5. \A t \in Range(closed) : \E i \in DOMAIN closed : t = closed[i]
    BY DEF Range
  <2> QED
    BY <2>3, <2>4, <2>5 DEF PositionsAreWhole
<1> QED
  BY <1>1, SpecBook, PTL

\* tokyo_fix.py:112-118: for every calendar, a position of the fix that a step leaves open is
\* open in a bar of the window.
THEOREM FixStaysInTheWindow == BSpec => []FixPositionsStayInTheWindow
<1>1. Book => FixPositionsStayInTheWindow
  BY DEF Book
<1> QED
  BY <1>1, SpecBook, PTL

\* runner.py:502-508: for every series, the store has each trade closed before the last step,
\* once, and in the order of the closes.
THEOREM StoreFollowsTheTrades == BSpec => []TradesReachTheStore
<1>1. Book => TradesReachTheStore
  BY DEF Book
<1> QED
  BY <1>1, SpecBook, PTL

\* engine.py:264-302: the final equity is the deposit, the trades and the open positions, and
\* the drawdown is the deepest fall of the running total, whatever the trades were.
THEOREM ResultIsTheAccount == BSpec => []ResultAddsUp
<1>1. Book => ResultAddsUp
  <2> SUFFICES ASSUME Book, result \notin {NoResult, ConfigError}
               PROVE  LET total(n) == Sum(SubSeq(closed, 1, n), LAMBDA t : t.pnl)
                          falls    == UNION {{total(i) - total(j) : i \in 0..j} : j \in 0..Len(closed)}
                      IN  /\ result.final = InitialBalance + result.summary.net + Worth(Account)
                          /\ result.summary.drawdown = Max(falls)
                          /\ result.summary.wins + result.summary.losses <= Len(result.trades)
    BY DEF ResultAddsUp
  <2> DEFINE n == Len(closed)
             e == [k \in 0..n |-> Earned(SubSeq(closed, 1, k))]
             sum == Summarized(closed)
             total(k) == Sum(SubSeq(closed, 1, k), LAMBDA t : t.pnl)
             falls == UNION {{total(i) - total(j) : i \in 0..j} : j \in 0..Len(closed)}
  <2>1. closed \in Seq(Trades) /\ n \in Nat
    <3>1. closed \in Seq(Trades)
      BY DEF Book, Safe, Account, Accounts
    <3> QED
      BY <3>1, LenProperties
  <2>2. result.summary = sum /\ result.trades = closed /\ result.final = Equity(Account)
    BY DEF Book, Reported
  <2>3. e \in [0..n -> Int] /\ Tells(sum, e, n)
    BY <2>1, SummaryIs
  <2>4. \A k \in 0..n : total(k) = e[k]
    <3> TAKE k \in 0..n
    <3> DEFINE ones == SubSeq(closed, 1, k)
    <3>1. Sum(ones, LAMBDA t : t.pnl) = Earned(ones)
      <4> HIDE DEF ones
      <4> QED
        BY DEF Sum, Earned, FoldLeft, MapThenFoldSet, Max, Earning!Folded, Earning!FoldLeft,
               Earning!MapThenFoldSet, Earning!Max, PnlStep
    <3>2. e[k] = Earned(ones)
      OBVIOUS
    <3> QED
      BY <3>1, <3>2
  <2>10. e[n] = Earned(SubSeq(closed, 1, n))
    <3>1. n \in 0..n
      BY <2>1
    <3> QED
      BY <3>1
  <2> HIDE DEF e, sum, total
  <2>5. \A x : x \in falls <=> \E j \in 0..n : \E i \in 0..j : x = e[i] - e[j]
    <3>1. \A j \in 0..n : \A i \in 0..j : i \in 0..n
      BY <2>1
    <3>2. \A j \in 0..n : \A i \in 0..j : total(i) - total(j) = e[i] - e[j]
      BY <2>4, <3>1
    <3>3. \A x : x \in falls <=> \E j \in 0..n : \E i \in 0..j : x = total(i) - total(j)
      OBVIOUS
    <3> HIDE DEF falls
    <3> TAKE x
    <3>4. ASSUME x \in falls
          PROVE  \E j \in 0..n : \E i \in 0..j : x = e[i] - e[j]
      <4>1. PICK j \in 0..n : \E i \in 0..j : x = total(i) - total(j)
        BY <3>3, <3>4
      <4>2. PICK i \in 0..j : x = total(i) - total(j)
        BY <4>1
      <4>3. x = e[i] - e[j]
        BY <3>2, <4>2
      <4> QED
        BY <4>3
    <3>5. ASSUME NEW j \in 0..n, NEW i \in 0..j, x = e[i] - e[j]
          PROVE  x \in falls
      <4>1. x = total(i) - total(j)
        BY <3>2, <3>5
      <4> QED
        BY <3>3, <4>1
    <3> QED
      BY <3>4, <3>5
  <2> HIDE DEF falls
  <2>6. sum.drawdown = Max(falls)
    BY <2>1, <2>3, <2>5, DeepestFall
  <2>7. sum.net = e[n] /\ sum.wins + sum.losses <= n
    BY <2>3 DEF Tells
  <2>8. e[n] = Earned(closed)
    <3>1. SubSeq(closed, 1, n) = closed
      BY <2>1, SubSeqFull
    <3> QED
      BY <2>10, <3>1
  <2>9. Equity(Account) = InitialBalance + sum.net + Worth(Account)
    <3>1. Account.cash = InitialBalance + Earned(closed)
      BY DEF Book, Tidy, Balanced, InBalance, CashKept, Account
    <3> QED
      BY <2>7, <2>8, <3>1 DEF Equity
  <2> QED
    BY <2>2, <2>6, <2>7, <2>9 DEF total, falls
<1> QED
  BY <1>1, SpecBook, PTL

\* paper.py:387-389, 248-249: what is promised of the account holds in a backtest of any length
\* too, where the strategy and not a caller sends the orders.
THEOREM BacktestAccountIsKept ==
  BSpec => [](ReduceOnlyNeverOpens /\ StopsBoundLosses /\ ExcursionsAreTheTrades)
<1>1. Book => ReduceOnlyNeverOpens /\ StopsBoundLosses /\ ExcursionsAreTheTrades
  BY SafeNames, SafeBounds, SafeMeasures DEF Book
<1> QED
  BY <1>1, SpecBook, PTL

\* paper.py:425-462: for every strategy and series, the signed units of each symbol are what its
\* orders and exits moved, the balance is the deposit and the results of the trades, and those
\* results are what the units cost and brought, to the last unit of the quote.
THEOREM BacktestBooksBalance == BSpec => []BooksBalance
<1>1. Book => BooksBalance
  BY BalanceShows DEF Book, Tidy, Balanced
<1> QED
  BY <1>1, SpecBook, PTL

\* paper.py:286-302: no step of a backtest makes a stop worse but by adding to the position, or
\* changes an order that is done.
THEOREM BacktestMovesOneWay == BSpec => StopsAndOrdersMoveOneWay
<1>1. Book /\ [BNext]_btvars => OneWay
  BY BookNext, ContinuesOneWay
<1>2. Book /\ [BNext]_btvars => [OneWay]_vars
  BY <1>1
<1> QED
  BY <1>2, SpecBook, PTL DEF BSpec, StopsAndOrdersMoveOneWay, OneWay
=============================================================================
