----------------------------- MODULE ShadowBroker -----------------------------
(***************************************************************************)
(* brokers/shadow.py on top of brokers/paper.py: a simulated account that    *)
(* trades on the prices of a real exchange for months, its state file, and   *)
(* the runner's report of its closed trades to the store (sqlite.py).  The   *)
(* runner sends market orders only, so no order is ever pending.  Bars are   *)
(* closed upstream whether or not the process runs.                          *)
(***************************************************************************)
EXTENDS Integers, Sequences, SequencesExt

CONSTANTS
  Symbols,
  Bars,            \* [low, high] of a closed bar
  EntryPrices,     \* quotes an entry is filled at
  ExitPrices,      \* quotes an exit is filled at
  StopPrices,      \* stops the strategy asks for
  Quantities,      \* quantities of an order
  Stop, Target,    \* stop and target of an entry, by side and price
  InitialBalance,
  MaxBars,         \* bound: bars closed per symbol
  MaxTrades,       \* bound: trades closed
  MaxStarts,       \* bound: starts of the process
  NoFile, NoPosition

NoPrice == -1
NoId == 0          \* an empty broker_position_id

Positions ==
  [side : {1, -1}, quantity : Nat \ {0}, entry : Nat, stop : Int, target : Int, id : Nat]

Trades == [symbol : Symbols, quantity : Nat \ {0}, pnl : Int, id : Nat, closed_at : Nat]

\* Every strategy gives its entries a stop.
ASSUME ShadowAssumption ==
  /\ Bars \subseteq [low : Int, high : Int]
  /\ EntryPrices \union ExitPrices \union StopPrices \subseteq Nat
  /\ Quantities \subseteq Nat \ {0} /\ InitialBalance \in Int
  /\ \A side \in {1, -1}, price \in EntryPrices :
       Stop[<<side, price>>] \in Nat /\ Target[<<side, price>>] \in Nat \union {NoPrice}
  /\ {MaxBars, MaxTrades, MaxStarts} \subseteq Nat
  /\ NoPosition \notin Positions

VARIABLES
  bars,        \* upstream: the closed bars of each symbol
  connected,
  cursor,      \* _cursor: bars already seen
  positions,   \* _positions
  cash,        \* _cash
  closed,      \* _closed_trades
  last_id,     \* _id_counter
  file,        \* shadow_state.json
  seen,        \* StrategyRunner._seen_trades
  rows,        \* the dedup_key of every row of the store's table of trades
  starts,
  clock,       \* one more for every trade closed: gives each its closed_at
  \* History:
  tightest,    \* the tightest stop each open position ever had
  watched,     \* the bars seen of each symbol when its position was opened or restored
  written      \* no write of the file was lost since it was read or written last

account == <<cursor, positions, cash, closed, last_id>>
vars    == <<bars, connected, account, file, seen, rows, starts, clock, tightest, watched, written>>

-----------------------------------------------------------------------------
(* The state file: no ids, no cursor *)

Bare(record) == [record EXCEPT !.id = NoId]

Payload(ps, c, ts) ==
  [cash      |-> c,
   positions |-> [s \in Symbols |-> IF ps[s] = NoPosition THEN NoPosition ELSE Bare(ps[s])],
   closed    |-> [i \in DOMAIN ts |-> Bare(ts[i])]]

\* _persist: an OSError is logged, and the file stays as it was.
Persist ==
  \/ file' = Payload(positions', cash', closed') /\ written' = TRUE
  \/ UNCHANGED file /\ written' = FALSE

Empty == [s \in Symbols |-> NoPosition]

Init ==
  /\ bars = [s \in Symbols |-> <<>>]
  /\ connected = FALSE /\ starts = 0 /\ clock = 0
  /\ cursor = [s \in Symbols |-> 0]
  /\ positions = Empty /\ cash = InitialBalance /\ closed = <<>> /\ last_id = 0
  /\ file = NoFile /\ seen = {} /\ rows = {}
  /\ tightest = [s \in Symbols |-> NoPrice] /\ written = TRUE
  /\ watched = [s \in Symbols |-> 0]

BarCloses(s, bar) ==
  /\ Len(bars[s]) < MaxBars
  /\ bars' = [bars EXCEPT ![s] = Append(@, bar)]
  /\ UNCHANGED <<connected, account, file, seen, rows, starts, clock, tightest, watched, written>>

\* _restore: what the file holds, or the initial account.
Restore ==
  IF file = NoFile THEN UNCHANGED <<positions, cash, closed>>
  ELSE positions' = file.positions /\ cash' = file.cash /\ closed' = file.closed

\* connect: the bars closed so far count as seen.
Connect ==
  /\ ~connected /\ starts < MaxStarts
  /\ connected' = TRUE /\ starts' = starts + 1
  /\ cursor' = [s \in Symbols |-> Len(bars[s])]
  /\ Restore
  /\ watched' = cursor' /\ written' = TRUE
  /\ UNCHANGED <<bars, last_id, file, seen, rows, clock, tightest>>

\* The process ends, in order or killed: nothing is written on the way out.
Disconnect ==
  /\ connected
  /\ connected' = FALSE
  /\ cursor' = [s \in Symbols |-> 0]
  /\ positions' = Empty /\ cash' = InitialBalance /\ closed' = <<>> /\ last_id' = 0
  /\ seen' = {}
  /\ UNCHANGED <<bars, file, rows, starts, clock, tightest, watched, written>>

-----------------------------------------------------------------------------
(* Fills *)

\* Mutant: a partial close earns what the whole position would have earned.
ReduceBookingAll(s, quantity, price) ==
  LET held == positions[s]
      earned(n) == (price - held.entry) * held.side * n
  IN  /\ clock < MaxTrades
      /\ clock' = clock + 1
      /\ cash' = cash + earned(held.quantity)
      /\ closed' = Append(closed, [symbol |-> s, quantity |-> quantity, pnl |-> earned(quantity),
                                   id |-> held.id, closed_at |-> clock'])
      /\ positions' = [positions EXCEPT ![s] =
           IF quantity = held.quantity THEN NoPosition ELSE [held EXCEPT !.quantity = @ - quantity]]

\* _reduce_position
Reduce(s, quantity, price) ==
  LET held == positions[s]
      pnl  == (price - held.entry) * held.side * quantity
  IN  /\ clock < MaxTrades
      /\ clock' = clock + 1
      /\ cash' = cash + pnl
      /\ closed' = Append(closed, [symbol |-> s, quantity |-> quantity, pnl |-> pnl,
                                   id |-> held.id, closed_at |-> clock'])
      /\ positions' = [positions EXCEPT ![s] =
           IF quantity = held.quantity THEN NoPosition ELSE [held EXCEPT !.quantity = @ - quantity]]

Open(s, side, quantity, price) ==
  /\ positions' = [positions EXCEPT ![s] =
       [side |-> side, quantity |-> quantity, entry |-> price,
        stop |-> Stop[<<side, price>>], target |-> Target[<<side, price>>], id |-> last_id']]
  /\ tightest' = [tightest EXCEPT ![s] = Stop[<<side, price>>]]
  /\ watched' = [watched EXCEPT ![s] = cursor[s]]
  /\ UNCHANGED <<cash, closed, clock>>

\* place_order of an entry the risk manager let through: there is no position, since
\* max_positions_per_symbol is 1.  A refusal for want of margin changes nothing.
EnterMarket(s, side, quantity, price) ==
  /\ connected /\ positions[s] = NoPosition
  /\ last_id' = last_id + 1
  /\ Open(s, side, quantity, price)
  /\ Persist
  /\ UNCHANGED <<bars, connected, cursor, seen, rows, starts>>

\* Mutant: only entries are persisted.
ExitMarketUnsaved(s, quantity, price) ==
  /\ connected /\ positions[s] # NoPosition
  /\ Reduce(s, IF quantity <= positions[s].quantity THEN quantity ELSE positions[s].quantity, price)
  /\ last_id' = last_id + 1
  /\ UNCHANGED <<bars, connected, cursor, file, seen, rows, starts, tightest, watched, written>>

\* Mutant: the quantity is not cut to what there is.
ExitMarketUncut(s, quantity, price) ==
  /\ connected /\ positions[s] # NoPosition
  /\ Reduce(s, quantity, price)
  /\ last_id' = last_id + 1
  /\ Persist
  /\ UNCHANGED <<bars, connected, cursor, seen, rows, starts, tightest, watched>>

\* place_order with reduce_only: refused without a position, cut to what is there.
ExitMarket(s, quantity, price) ==
  /\ connected /\ positions[s] # NoPosition
  /\ Reduce(s, IF quantity <= positions[s].quantity THEN quantity ELSE positions[s].quantity, price)
  /\ last_id' = last_id + 1
  /\ Persist
  /\ UNCHANGED <<bars, connected, cursor, seen, rows, starts, tightest, watched>>

Tighter(side, new, old) == old = NoPrice \/ new * side >= old * side

\* update_position_stop is PaperBroker's: it does not persist.
UpdateStop(s, stop) ==
  /\ connected /\ positions[s] # NoPosition
  /\ Tighter(positions[s].side, stop, positions[s].stop)
  /\ positions' = [positions EXCEPT ![s].stop = stop]
  /\ tightest' = [tightest EXCEPT ![s] = IF Tighter(positions[s].side, stop, @) THEN stop ELSE @]
  /\ UNCHANGED <<bars, connected, cursor, cash, closed, last_id, file, seen, rows, starts, clock,
                 watched, written>>

-----------------------------------------------------------------------------
(* get_ohlcv: every bar closed since the last call is checked, the oldest     *)
(* first; in a bar that touches both, the stop comes first.                   *)

Reaches(bar, price, side) == IF side = 1 THEN bar.high >= price ELSE bar.low <= price

StopHit(p, bar) == p.stop # NoPrice /\ Reaches(bar, p.stop, -p.side)
TargetHit(p, bar) == p.target # NoPrice /\ Reaches(bar, p.target, p.side)

\* Mutant: whatever was closed meanwhile, the newest bar alone is checked.
UnseenNewestOnly(s) == IF cursor[s] = Len(bars[s]) THEN <<>> ELSE <<Last(bars[s])>>

Unseen(s) == SubSeq(bars[s], cursor[s] + 1, Len(bars[s]))

Touched(p, new) == {i \in DOMAIN new : StopHit(p, new[i]) \/ TargetHit(p, new[i])}

ExitPrice(p, new) ==
  LET first == CHOOSE i \in Touched(p, new) : \A j \in Touched(p, new) : i <= j
  IN  IF StopHit(p, new[first]) THEN p.stop ELSE p.target

GetOhlcv(s) ==
  LET held == positions[s]
  IN  /\ connected /\ cursor[s] < Len(bars[s])
      /\ cursor' = [cursor EXCEPT ![s] = Len(bars[s])]
      /\ IF held # NoPosition /\ Touched(held, Unseen(s)) # {}
         THEN Reduce(s, held.quantity, ExitPrice(held, Unseen(s))) /\ Persist
         ELSE UNCHANGED <<positions, cash, closed, file, clock, written>>
      /\ UNCHANGED <<bars, connected, last_id, seen, rows, starts, tightest, watched>>

-----------------------------------------------------------------------------
(* _sync_closed_trades: the set of seen keys, and record_trade's dedup_key    *)

Key(trade) ==
  <<IF trade.id = NoId THEN trade.symbol ELSE trade.id, trade.closed_at, trade.pnl>>

Report ==
  LET new == {Key(closed[i]) : i \in DOMAIN closed} \ seen
  IN  /\ connected /\ new # {}
      /\ seen' = seen \union new
      /\ rows' = rows \union new
      /\ UNCHANGED <<bars, connected, account, file, starts, clock, tightest, watched, written>>

Next ==
  \/ Connect \/ Disconnect \/ Report
  \/ \E s \in Symbols :
       \/ \E bar \in Bars : BarCloses(s, bar)
       \/ GetOhlcv(s)
       \/ \E side \in {1, -1}, quantity \in Quantities, price \in EntryPrices :
            EnterMarket(s, side, quantity, price)
       \/ \E quantity \in Quantities, price \in ExitPrices : ExitMarket(s, quantity, price)
       \/ \E stop \in StopPrices : UpdateStop(s, stop)

Spec == Init /\ [][Next]_vars

-----------------------------------------------------------------------------
(* Properties *)

TypeOK ==
  /\ bars \in [Symbols -> Seq(Bars)]
  /\ connected \in BOOLEAN /\ written \in BOOLEAN
  /\ {starts, clock, last_id} \subseteq Nat
  /\ {cursor, watched} \subseteq [Symbols -> Nat]
  /\ \A s \in Symbols : cursor[s] <= Len(bars[s]) /\ watched[s] <= Len(bars[s])
  /\ positions \in [Symbols -> Positions \union {NoPosition}]
  /\ cash \in Int /\ closed \in Seq(Trades)
  /\ file = NoFile \/ file \in [cash : Int, closed : Seq(Trades),
                                 positions : [Symbols -> Positions \union {NoPosition}]]
  /\ seen \subseteq rows
  /\ tightest \in [Symbols -> Int]

Earned(ts) == FoldLeft(LAMBDA sum, trade : sum + trade.pnl, InitialBalance, ts)

\* The simulated balance is the initial one and what its closed trades earned, in memory
\* and in the file, although the file is written in steps that may fail one by one and
\* restarts go back to whatever the last good write was.
AccountAddsUp ==
  /\ cash = Earned(closed)
  /\ file # NoFile => file.cash = Earned(file.closed)

\* The stop a position was opened with is the most it can lose: no bar that the process
\* saw since reaches that price while the position is still held, however many bars
\* were closed between two polls and whatever stops the strategy asked for.
StopsAreExecuted ==
  \A s \in Symbols : positions[s] # NoPosition =>
    LET p == positions[s]
    IN  \A i \in watched[s] + 1 .. cursor[s] :
          ~Reaches(bars[s][i], Stop[<<p.side, p.entry>>], -p.side)

Unprotected(p) == IF p = NoPosition THEN p ELSE [Bare(p) EXCEPT !.stop = NoPrice]

\* forward-test.md:186, the account: a restart finds the balance, the closed trades and
\* the positions as they are now, unless the last write of the file failed.
RestartKeepsAccount ==
  connected /\ written /\ file # NoFile =>
    /\ file.cash = cash
    /\ file.closed = Payload(positions, cash, closed).closed
    /\ \A s \in Symbols : Unprotected(file.positions[s]) = Unprotected(positions[s])

\* The same for the stops: a restart finds none looser than it was (paper.py:184).
\* Refuted: update_position_stop does not write the file.
RestartKeepsStops ==
  \A s \in Symbols : positions[s] # NoPosition =>
    Tighter(positions[s].side, positions[s].stop, tightest[s])

\* sqlite.py:326-327: a trade the broker returns again is not recorded twice.  Refuted: the
\* id of the trade, which is in its key, is not in the file.
TradesStoredOnce ==
  \A r, q \in rows : r[2] = q[2] => r = q
=============================================================================
