------------------------------- MODULE Backtest -------------------------------
(***************************************************************************)
(* backtest/engine.py: a strategy on the paper broker, driven by the runner's   *)
(* step (core/runner.py) with nothing concurrent in it, so that a step is one   *)
(* action.  What PositionSizer and RiskManager say of an entry is left open      *)
(* here: a quantity, or 0; TradingLoop and RiskManager are about them.           *)
(***************************************************************************)
EXTENDS PaperBroker, Strategies

CONSTANTS
  SymbolOrder,  \* settings.symbols
  Joint,        \* what one bar may be in all symbols
  Cases,        \* strategy, calendar ([day, minute] of every bar), length of the series
  Sizes,        \* what an entry in each symbol is given; 0 refuses it
  MinSteps,     \* MIN_STEPS
  Baseline,     \* the runner's _baseline_period
  Spare,        \* what the runner asks for beyond it
  NoResult, ConfigError

ASSUME BacktestAssumption ==
  /\ SymbolOrder \in Seq(Symbols) /\ SymbolOrder # <<>>
  /\ Range(SymbolOrder) = Symbols /\ IsInjective(SymbolOrder)
  /\ Joint \subseteq [Symbols -> Bars] /\ Sizes \subseteq [Symbols -> Nat]
  /\ {MinSteps, Baseline, Spare} \subseteq Nat \ {0}
  /\ \A c \in Cases : /\ c.strategy \in Strategies /\ c.length \in 1..MaxBars
                       /\ c.calendar \in [1..MaxBars -> [day : Nat, minute : Nat]]

VARIABLES
  strategy, calendar, length,  \* the arguments
  stored,                      \* the trades table of the database
  result

arguments == <<strategy, calendar, length>>
btvars == <<vars, arguments, stored, result>>

BInit ==
  /\ \E c \in Cases : strategy = c.strategy /\ calendar = c.calendar /\ length = c.length
  /\ InitWith(Lesser(WarmupBars(strategy), length))
  /\ \A i \in DOMAIN bars[SymbolOrder[1]] : [s \in Symbols |-> bars[s][i]] \in Joint
  /\ stored = <<>> /\ result = NoResult

Shown == Len(bars[SymbolOrder[1]])

Begin ==
  /\ length >= WarmupBars(strategy) + MinSteps /\ result = NoResult
  /\ Connect
  /\ UNCHANGED <<arguments, stored, result>>

TooShort ==
  /\ length < WarmupBars(strategy) + MinSteps /\ result = NoResult
  /\ result' = ConfigError
  /\ UNCHANGED <<vars, arguments, stored>>

-----------------------------------------------------------------------------
(* One step of the runner *)

\* Mutant: trades are told apart by time and result only.
KeyWithoutId(t) == <<t.closed_at, t.pnl>>

\* _sync_closed_trades: a trade is known by the id of its position, its time and its result.
Key(t) == <<t.id, t.closed_at, t.pnl>>

Synced(known, trades) ==
  FoldLeft(LAMBDA kept, t : IF \E k \in Range(kept) : Key(k) = Key(t) THEN kept ELSE Append(kept, t),
           known, trades)

\* BrokerFeed.get_candles: the last bars of those the account shows.
Context(a, s, position) ==
  LET count == Max({WarmupBars(strategy), Baseline}) + Spare
      from  == Greater(1, Len(a.bars[s]) - count + 1)
  IN  [bars |-> SubSeq(a.bars[s], from, Len(a.bars[s])), from |-> from,
       clock |-> SubSeq(calendar, from, Len(a.bars[s])), position |-> position]

Request(side, quantity, stop, target, reduce_only) ==
  [type |-> "market", side |-> side, quantity |-> quantity, trigger |-> NoPrice,
   stop |-> stop, target |-> target, reduce_only |-> reduce_only]

\* Mutant: the order is sent on the position of the snapshot, as an order like any other.
ClosePositionOfTheSnapshot(a, s, position) ==
  Market(a, s, Request(-position.side, position.quantity, NoPrice, NoPrice, FALSE))

\* OrderManager.close_position asks for the position again before it sends anything.
ClosePosition(a, s, position) ==
  LET live == a.positions[s]
  IN  IF live = NoPosition \/ live.side # position.side THEN a
      ELSE Market(a, s, Request(-live.side, Lesser(position.quantity, live.quantity), NoPrice, NoPrice, TRUE))

\* _force_exit_if_needed, with the middle of the quote
Breached(p, price) ==
  \/ p.stop # NoPrice /\ (price - p.stop) * p.side <= 0
  \/ p.target # NoPrice /\ (price - p.target) * p.side >= 0

HandleExit(a, s, position) == IF position = NoPosition THEN a ELSE ClosePosition(a, s, position)

HandleStopUpdate(a, s, signal, position) ==
  IF position = NoPosition THEN a ELSE StopMoved(a, s, signal.stop)

\* _handle_entry; RiskManager wants the stop on the losing side of the price.
HandleEntry(a, s, signal, quantity) ==
  LET request == Request(signal.side, quantity, signal.stop, signal.target, FALSE)
  IN  IF quantity = 0 \/ ~StopRuleHolds(request, Quote(a, s, signal.side)) THEN a
      ELSE Market(a, s, request)

Handle(a, s, signal, position, quantity) ==
  CASE signal.action = "hold" -> a
    [] signal.action = "update_stop" -> HandleStopUpdate(a, s, signal, position)
    [] signal.action = "exit" -> HandleExit(a, s, position)
    [] signal.action = "entry" -> HandleEntry(a, s, signal, quantity)

\* _process_symbol: the position is the one of the beginning of the step, the bar is new.
ProcessSymbol(a, s, position, bar, quantity) ==
  LET shown  == Advance(a, s, bar)
      forced == IF position # NoPosition /\ Breached(position, Close(shown, s))
                THEN ClosePosition(shown, s, position) ELSE shown
  IN  IF forced # shown THEN forced
      ELSE Handle(shown, s, Generate(strategy, Context(shown, s, position)), position, quantity)

Step ==
  /\ connected /\ Shown < length
  /\ stored' = Synced(stored, closed)
  /\ \E next \in Joint, size \in Sizes :
       Becomes(FoldLeft(LAMBDA a, s : ProcessSymbol(a, s, positions[s], next[s], size[s]),
                        Account, SymbolOrder))
  /\ UNCHANGED <<connected, arguments, result>>

-----------------------------------------------------------------------------
(* The result *)

\* Mutant: the drawdown is measured from the start of the account and not from the peak.
SummarizedFromZero(trades) ==
  FoldLeft(LAMBDA sum, t :
             LET cumulative == sum.net + t.pnl
             IN  [net |-> cumulative, peak |-> 0, drawdown |-> Greater(sum.drawdown, -cumulative),
                  wins |-> sum.wins + (IF t.pnl > 0 THEN 1 ELSE 0),
                  losses |-> sum.losses + (IF t.pnl < 0 THEN 1 ELSE 0)],
           [net |-> 0, peak |-> 0, drawdown |-> 0, wins |-> 0, losses |-> 0], trades)

\* summarize (store/sqlite.py), and _walk (backtest/robustness.py)
Summarized(trades) ==
  FoldLeft(LAMBDA sum, t :
             LET cumulative == sum.net + t.pnl
                 peak       == Greater(sum.peak, cumulative)
             IN  [net |-> cumulative, peak |-> peak,
                  drawdown |-> Greater(sum.drawdown, peak - cumulative),
                  wins |-> sum.wins + (IF t.pnl > 0 THEN 1 ELSE 0),
                  losses |-> sum.losses + (IF t.pnl < 0 THEN 1 ELSE 0)],
           [net |-> 0, peak |-> 0, drawdown |-> 0, wins |-> 0, losses |-> 0], trades)

Finish ==
  /\ connected /\ Shown = length
  /\ result' = [summary |-> Summarized(closed), trades |-> closed, final |-> Equity(Account)]
  /\ Disconnect
  /\ UNCHANGED <<arguments, stored>>

BNext == Begin \/ TooShort \/ Step \/ Finish

BSpec == BInit /\ [][BNext]_btvars

-----------------------------------------------------------------------------
(* Properties *)

\* A position is never left without a stop, added to or closed in part: each has one order
\* that opened it, and whatever ended it first (the stop in the bar, the forced exit on
\* the snapshot's stop, the strategy's exit on the snapshot's position) nothing else was
\* traded in its place (runner.py:257, orders.py:208).
PositionsAreWhole ==
  /\ \A s \in Symbols : positions[s] # NoPosition =>
       positions[s].stop # NoPrice /\ ~positions[s].resized
  /\ \A t \in Range(closed) : t.initial # NoPrice /\ ~t.resized
  /\ \A i, j \in DOMAIN closed : i # j => closed[i].id # closed[j].id

\* tokyo_fix.py:112-118: after a step, a position of the fix is held in a bar of the window
\* only, whatever bars are missing from the calendar.
FixPositionsStayInTheWindow ==
  strategy = "tokyo_fix" =>
    \A s \in Symbols : positions[s] # NoPosition => InWindow(calendar[Shown])

\* Every trade that was closed before the bar of the last step is in the database, once,
\* in the order of the closes (runner.py:502-508).
TradesReachTheStore ==
  \E k \in 0..Len(closed) :
    /\ stored = SubSeq(closed, 1, k)
    /\ \A i \in DOMAIN closed : closed[i].closed_at < Shown <=> i <= k

\* What the result says adds up: the final equity is the deposit, what the trades made and
\* what the open positions are worth, and the drawdown is the deepest fall of the running
\* total from any earlier point of it, the start included (engine.py:264-302).
ResultAddsUp ==
  result \notin {NoResult, ConfigError} =>
    LET total(n) == Sum(SubSeq(closed, 1, n), LAMBDA t : t.pnl)
        falls    == UNION {{total(i) - total(j) : i \in 0..j} : j \in 0..Len(closed)}
    IN  /\ result.final = InitialBalance + result.summary.net + Worth(Account)
        /\ result.summary.drawdown = Max(falls)
        /\ result.summary.wins + result.summary.losses <= Len(result.trades)

\* engine.py:87-88: the database holds the result that `zerotrade report` reads.  Refuted:
\* what the bar of the last step closed is in the result only.
ReportIsTheResult ==
  result \notin {NoResult, ConfigError} => stored = result.trades
=============================================================================
