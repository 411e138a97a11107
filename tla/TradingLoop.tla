------------------------------ MODULE TradingLoop ------------------------------
(***************************************************************************)
(* StrategyRunner (core/runner.py) with the OrderManager (core/orders.py)   *)
(* it submits through and the RiskManager it asks, against a broker whose    *)
(* positions change on their own: stops are executed and trades are closed   *)
(* by hand between any two awaits of the loop, and every call may fail.      *)
(*                                                                          *)
(* One run is one instant of the risk manager's clock (Now): what a change   *)
(* of day or week does is the subject of RiskManager.  An order is a market  *)
(* order, filled or refused by the time the call ends; an order whose answer *)
(* is lost may have been filled.                                             *)
(***************************************************************************)
EXTENDS Sizing, FiniteSets, Sequences, SequencesExt

CONSTANTS
  SymbolOrder,            \* settings.symbols: every symbol, in the order of the loop
  Now,
  ReferenceEquity,
  Directions,             \* directions the strategy may enter: 1 buys, -1 sells
  Terms,                  \* the prices, balance and market data of an entry, by direction
  Pnls,
  ReportsClosedTrades,    \* BaseBroker.supports_closed_trades
  PositionErrorsAreEmpty, \* get_positions answers [] when the call fails (ccxt, bingx)
  ReduceOnlyIsKept,       \* the exchange refuses to let a reduce-only order open a position
  MaxTrades,              \* bound: trades closed
  MaxUnits,               \* bound: units held of a symbol
  MaxStarts,              \* bound: starts of the process
  MaxVanished,            \* bound: units of a symbol that failing calls make vanish
  None

\* An entry as the strategy asks for it, with the balance and the market data it is
\* judged by.
EntryRequests ==
  [symbol : Symbols, reduce_only : {FALSE}, side : {"buy", "sell"}, quantity : Nat,
   price : Nat \ {0}, stop_loss : Nat \union {NoPrice},
   equity : Int, used_margin : Int, available : Int,
   open_positions : Nat, same_symbol : Nat, spread : Nat, atr : Nat, atr_baseline : Nat]

\* What an order the runner prepares is made of.
Orders ==
  [symbol : Symbols, units : Int \ {0}, reduce_only : BOOLEAN, forced : BOOLEAN, live : Int]

\* The symbols are not empty and none is listed twice (settings.py:255-258).
ASSUME LoopAssumption ==
  /\ SymbolOrder \in Seq(Symbols) /\ ToSet(SymbolOrder) = Symbols /\ SymbolOrder # <<>>
  /\ IsInjective(SymbolOrder)
  /\ Now \in Times /\ ReferenceEquity \in Int
  /\ Directions \subseteq {1, -1} /\ Pnls \subseteq Int
  /\ \A d \in Directions : Terms[d] \in EntryRequests
  /\ {ReportsClosedTrades, PositionErrorsAreEmpty, ReduceOnlyIsKept} \subseteq BOOLEAN
  /\ {MaxTrades, MaxUnits, MaxStarts, MaxVanished} \subseteq Nat
  /\ None \notin Orders

VARIABLES
  position,  \* the broker: units held of each symbol, negative when short
  history,   \* the broker: closed trades, the oldest first
  pc,        \* the await the runner is at
  fetched,   \* _sync_closed_trades: how many trades of history the broker has answered
  seen,      \* _seen_trades: how many of those the risk manager was told about
  snapshot,  \* step()'s positions, shared by every symbol of the step
  previous,  \* _previous_positions
  closures,  \* _infer_closed_trades: units of each symbol it has still to book
  todo,      \* the symbols this step has still to process
  order,     \* the order being prepared or sent
  risk,      \* the risk manager's state
  saved,     \* risk_state.json
  starts,
  booked,    \* history: units of each symbol reported to the risk manager as closed
  vanished   \* history: units still held when the answer [] of a failing call made the
             \* runner take them for closed

broker == <<position, history>>
trades == <<fetched, seen, previous, closures>>
books  == <<risk, saved, booked, vanished>>
vars   == <<broker, pc, trades, snapshot, todo, order, books, starts>>

Flat == [s \in Symbols |-> 0]
Units(n) == IF n < 0 THEN -n ELSE n
Sign(n) == IF n < 0 THEN -1 ELSE 1
SameSide(m, n) == (m > 0 /\ n > 0) \/ (m < 0 /\ n < 0)
Running == pc # "down"

-----------------------------------------------------------------------------
(* The broker *)

\* A fill of n units of s on top of what is held: the opposite side is closed first,
\* and a closed trade is reported for that part.
Filled(s, n, pnl) ==
  LET held   == position[s]
      closed == IF SameSide(held, -n) THEN Least(Units(held), Units(n)) ELSE 0
  IN  /\ Units(held + n) <= MaxUnits
      /\ position' = [position EXCEPT ![s] = held + n]
      /\ IF closed = 0 THEN UNCHANGED history
         ELSE /\ Len(history) < MaxTrades
              /\ history' = Append(history, [symbol |-> s, quantity |-> closed, pnl |-> pnl])

\* What the exchange makes of a reduce-only order of n units.
Reducing(s, n) ==
  IF ~ReduceOnlyIsKept THEN n
  ELSE IF SameSide(position[s], -n) THEN Sign(n) * Least(Units(n), Units(position[s]))
  ELSE 0

\* The exchange executes a stop or a target, or somebody closes a position by hand,
\* possibly in part.
ClosedOutside(s, quantity, pnl) ==
  /\ quantity <= Units(position[s])
  /\ Filled(s, -Sign(position[s]) * quantity, pnl)
  /\ UNCHANGED <<pc, trades, snapshot, todo, order, books, starts>>

-----------------------------------------------------------------------------
(* run(): at a loop boundary the process polls, or stops *)

Init ==
  /\ position = Flat /\ history = <<>>
  /\ pc = "down" /\ todo = <<>> /\ snapshot = Flat /\ order = None
  /\ fetched = 0 /\ seen = 0 /\ previous = Flat /\ closures = Flat
  /\ risk = Roll(RiskStateDefault, Now) /\ saved = risk
  /\ starts = 0 /\ booked = Flat /\ vanished = Flat

Start ==
  /\ pc = "down" /\ starts < MaxStarts
  /\ pc' = "boundary" /\ starts' = starts + 1
  /\ UNCHANGED <<broker, trades, snapshot, todo, order, books>>

Poll ==
  /\ pc = "boundary"
  /\ pc' = "sync"
  /\ UNCHANGED <<broker, trades, snapshot, todo, order, books, starts>>

StopAtBoundary ==
  /\ pc = "boundary"
  /\ pc' = "stopping"
  /\ UNCHANGED <<broker, trades, snapshot, todo, order, books, starts>>

\* Nothing of a process survives it but the file.
Ended ==
  /\ pc' = "down" /\ todo' = <<>> /\ snapshot' = Flat /\ order' = None
  /\ fetched' = 0 /\ seen' = 0 /\ previous' = Flat /\ closures' = Flat

Shutdown ==
  /\ pc = "stopping"
  /\ Ended
  /\ saved' = risk
  /\ UNCHANGED <<broker, risk, booked, vanished, starts>>

\* The entries counted since the last save go with the process.
Crash ==
  /\ Running
  /\ Ended
  /\ risk' = saved
  /\ UNCHANGED <<broker, saved, booked, vanished, starts>>

-----------------------------------------------------------------------------
(* step(): closed trades reported by the broker *)

\* Mutant: a halted manager is told of no more trades.
FetchUnlessHalted ==
  /\ pc = "sync" /\ ~Halted(risk)
  /\ ReportsClosedTrades
  /\ fetched' = Len(history)
  /\ pc' = "book"
  /\ UNCHANGED <<broker, seen, previous, closures, snapshot, todo, order, books, starts>>

FetchClosedTrades ==
  /\ pc = "sync"
  /\ ReportsClosedTrades
  /\ fetched' = Len(history)
  /\ pc' = "book"
  /\ UNCHANGED <<broker, seen, previous, closures, snapshot, todo, order, books, starts>>

\* The call fails (bingx answers [] then), or the broker has no such call.
NoClosedTrades ==
  /\ pc = "sync"
  /\ pc' = "snapshot"
  /\ UNCHANGED <<broker, trades, snapshot, todo, order, books, starts>>

RecordTradeClosed(symbol, quantity, pnl) ==
  /\ risk' = TradeClosed(risk, Now, ReferenceEquity, symbol, pnl)
  /\ saved' = risk'
  /\ booked' = [booked EXCEPT ![symbol] = @ + quantity]
  /\ UNCHANGED vanished

\* Mutant: everything the answer holds is marked as seen with its first trade.
BookFirstOnly ==
  /\ pc = "book" /\ seen < fetched
  /\ LET trade == history[seen + 1]
     IN  RecordTradeClosed(trade.symbol, trade.quantity, trade.pnl)
  /\ seen' = fetched
  /\ UNCHANGED <<broker, pc, fetched, previous, closures, snapshot, todo, order, starts>>

BookTrade ==
  /\ pc = "book" /\ seen < fetched
  /\ LET trade == history[seen + 1]
     IN  RecordTradeClosed(trade.symbol, trade.quantity, trade.pnl)
  /\ seen' = seen + 1
  /\ UNCHANGED <<broker, pc, fetched, previous, closures, snapshot, todo, order, starts>>

TradesBooked ==
  /\ pc = "book" /\ seen >= fetched
  /\ pc' = "snapshot"
  /\ UNCHANGED <<broker, trades, snapshot, todo, order, books, starts>>

-----------------------------------------------------------------------------
(* step(): the snapshot of the positions, and what its difference to the last *)
(* one says was closed                                                        *)

ClosedBetween(before, after) ==
  IF SameSide(before, after)
  THEN IF Units(before) > Units(after) THEN Units(before) - Units(after) ELSE 0
  ELSE Units(before)

Snapshotted(positions) ==
  /\ pc = "snapshot"
  /\ snapshot' = positions /\ previous' = positions
  /\ IF ReportsClosedTrades
     THEN pc' = "symbol" /\ todo' = SymbolOrder /\ UNCHANGED closures
     ELSE /\ pc' = "infer"
          /\ closures' = [s \in Symbols |-> ClosedBetween(previous[s], positions[s])]
          /\ UNCHANGED todo
  /\ UNCHANGED <<broker, fetched, seen, order, risk, saved, booked, starts>>

TakeSnapshot == Snapshotted(position) /\ UNCHANGED vanished

\* What the runner remembers of a symbol and is held all the same.
StillHeld(s) == Units(previous[s]) - ClosedBetween(previous[s], position[s])

\* The call fails, and the adapter answers that nothing is held.
EmptySnapshot ==
  /\ PositionErrorsAreEmpty
  /\ Snapshotted(Flat)
  /\ vanished' = IF ReportsClosedTrades THEN vanished
                 ELSE [s \in Symbols |-> vanished[s] + StillHeld(s)]
  /\ \A s \in Symbols : vanished'[s] <= MaxVanished

\* get_balance or get_positions raises: step() does not catch it, and run() ends.
SnapshotFails ==
  /\ pc = "snapshot"
  /\ pc' = "stopping"
  /\ UNCHANGED <<broker, trades, snapshot, todo, order, books, starts>>

\* Mutant: the remembered positions are only updated where nothing was closed.
InferKeepingPrevious(s, pnl) ==
  /\ pc = "infer" /\ closures[s] > 0
  /\ RecordTradeClosed(s, closures[s], pnl)
  /\ closures' = [closures EXCEPT ![s] = 0]
  /\ previous' = [previous EXCEPT ![s] = Sign(@) * closures[s]]
  /\ UNCHANGED <<broker, pc, fetched, seen, snapshot, todo, order, starts>>

\* The profit is estimated from the ticker of the moment.
InferClosedTrade(s, pnl) ==
  /\ pc = "infer" /\ closures[s] > 0
  /\ RecordTradeClosed(s, closures[s], pnl)
  /\ closures' = [closures EXCEPT ![s] = 0]
  /\ UNCHANGED <<broker, pc, fetched, seen, previous, snapshot, todo, order, starts>>

InferFails(s) ==
  /\ pc = "infer" /\ closures[s] > 0
  /\ closures' = [closures EXCEPT ![s] = 0]
  /\ UNCHANGED <<broker, pc, fetched, seen, previous, snapshot, todo, order, books, starts>>

Inferred ==
  /\ pc = "infer" /\ closures = Flat
  /\ pc' = "symbol" /\ todo' = SymbolOrder
  /\ UNCHANGED <<broker, trades, snapshot, order, books, starts>>

-----------------------------------------------------------------------------
(* step(): one symbol after the other.  "symbol" awaits the market data;      *)
(* "signal" is after a forced exit that was not sent.                         *)

Current == Head(todo)
Deciding == pc \in {"symbol", "signal"} /\ todo # <<>>

\* Mutant: the order of one symbol is still there at the next.
SymbolDoneWithOrder == pc' = "symbol" /\ todo' = Tail(todo) /\ UNCHANGED order

\* The next symbol, whatever came of this one.
SymbolDone == pc' = "symbol" /\ todo' = Tail(todo) /\ order' = None

\* No candles, a failing call, HOLD, a new stop, an exit of nothing.
NothingToDo ==
  /\ Deciding
  /\ SymbolDone
  /\ UNCHANGED <<broker, trades, snapshot, books, starts>>

Exiting(forced) ==
  /\ snapshot[Current] # 0
  /\ pc' = "close"
  /\ order' = [symbol |-> Current, units |-> -snapshot[Current],
               reduce_only |-> TRUE, forced |-> forced, live |-> 0]
  /\ UNCHANGED <<broker, trades, snapshot, todo, books, starts>>

\* _force_exit_if_needed: the price is beyond the position's stop or target.
ForceExit ==
  /\ pc = "symbol" /\ todo # <<>>
  /\ Exiting(TRUE)

SignalExit ==
  /\ Deciding
  /\ Exiting(FALSE)

OpenCount == Cardinality({s \in Symbols : snapshot[s] # 0})

\* Mutant: only positions of the order's own direction are counted.
RequestCountingOneSide(d) ==
  [Terms[d] EXCEPT !.symbol = Current, !.quantity = Sized(Terms[d]),
     !.open_positions = Cardinality({s \in Symbols : SameSide(snapshot[s], d)}),
     !.same_symbol = IF SameSide(snapshot[Current], d) THEN 1 ELSE 0]

Request(d) ==
  [Terms[d] EXCEPT !.symbol = Current, !.quantity = Sized(Terms[d]),
                   !.open_positions = OpenCount,
                   !.same_symbol = IF snapshot[Current] = 0 THEN 0 ELSE 1]

SignalEntry(d) ==
  /\ Deciding
  /\ IF Sized(Terms[d]) > 0 /\ Approves(risk, Now, Request(d))
     THEN /\ pc' = "entry"
          /\ order' = [symbol |-> Current, units |-> d * Request(d).quantity,
                       reduce_only |-> FALSE, forced |-> FALSE, live |-> 0]
          /\ UNCHANGED todo
     ELSE SymbolDone
  /\ UNCHANGED <<broker, trades, snapshot, books, starts>>

StepEnds ==
  /\ pc = "symbol" /\ todo = <<>>
  /\ pc' = "boundary"
  /\ UNCHANGED <<broker, trades, snapshot, todo, order, books, starts>>

-----------------------------------------------------------------------------
(* OrderManager.submit of an entry *)

EntryPlaced(pnl) ==
  /\ pc = "entry"
  /\ Filled(order.symbol, order.units, pnl)
  /\ risk' = OrderSubmitted(risk, Now)
  /\ SymbolDone
  /\ UNCHANGED <<trades, snapshot, saved, booked, vanished, starts>>

\* The answer is lost: submit reports an error and counts nothing.
EntryAnswerLost(pnl) ==
  /\ pc = "entry"
  /\ Filled(order.symbol, order.units, pnl)
  /\ SymbolDone
  /\ UNCHANGED <<trades, snapshot, books, starts>>

EntryRefused ==
  /\ pc = "entry"
  /\ SymbolDone
  /\ UNCHANGED <<broker, trades, snapshot, books, starts>>

-----------------------------------------------------------------------------
(* OrderManager.close_position *)

\* Not sent: an ordinary exit is over, a forced one lets the strategy decide.
NotSent ==
  /\ IF order.forced THEN pc' = "signal" /\ UNCHANGED todo
                     ELSE pc' = "symbol" /\ todo' = Tail(todo)
  /\ order' = None

\* Mutant: the quantity the runner remembers is sent, whatever is left of it.
CloseFindsUncut ==
  /\ pc = "close"
  /\ SameSide(position[order.symbol], -order.units)
  /\ pc' = "recheck"
  /\ order' = [order EXCEPT !.live = position[order.symbol]]
  /\ UNCHANGED <<broker, trades, snapshot, todo, books, starts>>

\* The positions are asked for again: what is left of the position is closed, and no
\* more than the caller knew of.
CloseFinds ==
  /\ pc = "close"
  /\ SameSide(position[order.symbol], -order.units)
  /\ pc' = "recheck"
  /\ LET live == position[order.symbol]
     IN  order' = [order EXCEPT !.live = live, !.units = Sign(@) * Least(Units(@), Units(live))]
  /\ UNCHANGED <<broker, trades, snapshot, todo, books, starts>>

\* The position is gone, or the call fails.
CloseGivesUp ==
  /\ pc = "close"
  /\ NotSent
  /\ UNCHANGED <<broker, trades, snapshot, books, starts>>

\* The broker adapter asks once more before it sends a reduce-only order.
ExitSent ==
  /\ pc = "recheck"
  /\ SameSide(position[order.symbol], -order.units)
  /\ pc' = "exit"
  /\ UNCHANGED <<broker, trades, snapshot, todo, order, books, starts>>

ExitNotSent ==
  /\ pc = "recheck"
  /\ NotSent
  /\ UNCHANGED <<broker, trades, snapshot, books, starts>>

ExitFilled(pnl) ==
  /\ pc = "exit"
  /\ Reducing(order.symbol, order.units) # 0
  /\ Filled(order.symbol, Reducing(order.symbol, order.units), pnl)
  /\ SymbolDone \/ NotSent    \* the latter when the answer is lost
  /\ UNCHANGED <<trades, snapshot, books, starts>>

ExitRefused ==
  /\ pc = "exit"
  /\ NotSent
  /\ UNCHANGED <<broker, trades, snapshot, books, starts>>

-----------------------------------------------------------------------------
Step ==
  \/ FetchClosedTrades \/ NoClosedTrades \/ BookTrade \/ TradesBooked
  \/ TakeSnapshot \/ EmptySnapshot \/ SnapshotFails
  \/ \E s \in Symbols, pnl \in Pnls : InferClosedTrade(s, pnl)
  \/ \E s \in Symbols : InferFails(s)
  \/ Inferred
  \/ NothingToDo \/ ForceExit \/ SignalExit \/ StepEnds
  \/ \E d \in Directions : SignalEntry(d)
  \/ \E pnl \in Pnls : EntryPlaced(pnl) \/ EntryAnswerLost(pnl) \/ ExitFilled(pnl)
  \/ EntryRefused
  \/ CloseFinds \/ CloseGivesUp \/ ExitSent \/ ExitNotSent \/ ExitRefused

Runner == Poll \/ Shutdown \/ Step

Next ==
  \/ Runner \/ Start \/ StopAtBoundary \/ Crash
  \/ \E s \in Symbols, pnl \in Pnls :
       \E quantity \in 1..Units(position[s]) : ClosedOutside(s, quantity, pnl)

Spec == Init /\ [][Next]_vars

\* The event loop runs the runner whenever an await of it is over, every call ends, and
\* a broker that is asked for its closed trades again and again answers some day.
FairSpec == Spec /\ WF_vars(Runner) /\ SF_vars(FetchClosedTrades)

-----------------------------------------------------------------------------
(* Properties *)

TypeOK ==
  /\ position \in [Symbols -> Int]
  /\ history \in Seq([symbol : Symbols, quantity : Nat \ {0}, pnl : Int])
  /\ pc \in {"down", "boundary", "sync", "book", "snapshot", "infer", "symbol", "signal",
             "entry", "close", "recheck", "exit", "stopping"}
  /\ fetched \in 0..Len(history) /\ seen \in 0..Len(history)
  /\ {snapshot, previous} \subseteq [Symbols -> Int] /\ closures \in [Symbols -> Nat]
  /\ todo \in Seq(Symbols)
  /\ order \in Orders \union {None}
  /\ order # None <=> pc \in {"entry", "close", "recheck", "exit"}
  /\ {risk, saved} \subseteq RiskStates
  /\ starts \in 0..MaxStarts
  /\ {booked, vanished} \subseteq [Symbols -> Nat]

Entering == pc' = "entry" /\ pc # "entry"

ReportedPnl(k) == FoldLeft(LAMBDA sum, trade : sum + trade.pnl, 0, SubSeq(history, 1, k))

\* The loss limits hold against what the broker reports: once the trades it answered
\* add up to the daily limit no entry is approved any more, neither in the step that
\* fetched them nor after profits that were fetched later (_sync_closed_trades comes
\* before the entries of its step, and books trade after trade).
LossesStopEntries ==
  [][Entering => \A k \in 1..fetched :
       ~Reached(ReportedPnl(k), MaxDailyLoss, ReferenceEquity)]_vars

ClosedUnits(s) ==
  FoldLeft(LAMBDA sum, trade : sum + (IF trade.symbol = s THEN trade.quantity ELSE 0), 0, history)

\* No closed unit is reported to the risk manager twice, and none that the broker has not
\* closed, whatever is closed in part, reopened or restarted in between.  Where a failing
\* get_positions is answered [] (ccxt_broker.py:277-279) what is still held is booked as
\* closed, and booked again when it is; the error is those units once, however often the
\* calls fail and whatever is done to the position meanwhile.
NothingBookedTwice == \A s \in Symbols : booked[s] <= ClosedUnits(s) + vanished[s]

\* The same without the allowance.  Refuted for ccxt, and for bingx without its history.
NothingBookedTooMuch == \A s \in Symbols : booked[s] <= ClosedUnits(s)

\* max_positions_per_symbol = 1 (README.md:215): a filled entry opens a position where
\* there is none; it never adds to one and never reverses one, although it was decided
\* on a snapshot taken some awaits earlier.
EntriesOpenFlatSymbols ==
  [][position' # position /\ pc = "entry" /\ pc' # "entry" =>
       position[order.symbol] = 0]_vars

\* What close_position asks the broker is worth its cost (orders.py:203-205): unless
\* the position changes after that question, an exit never opens or reverses anything,
\* also where reduce-only is ignored and the snapshot is older than a partial close.
ExitsOnlyReduce ==
  [][/\ position' # position /\ pc = "exit" /\ pc' # "exit"
     /\ position[order.symbol] = order.live
     => LET left == position'[order.symbol]
        IN  left = 0 \/ SameSide(left, order.live)]_vars

\* max_open_positions (README.md:214) against what is really held after an entry.  Refuted:
\* two symbols of one step are judged on one snapshot.
OpenPositionsCapped ==
  Cardinality({s \in Symbols : position[s] # 0}) <= MaxOpenPositions

\* Every trade the broker reports as closed reaches the loss counters, however many
\* calls fail on the way, unless the process ends.
ClosuresAreCounted ==
  \A k \in 1..MaxTrades : (Running /\ Len(history) >= k) ~> (seen >= k \/ ~Running)
=============================================================================
