# ZeroTrade: formal models and proofs

This directory holds TLA+ models of ZeroTrade (`src/`, the Python trading bot), the TLC
configurations that check them on small instances, and TLAPS proofs of the properties that
matter most.  Paths below are relative to `src/src/zerotrade/` unless they begin with `src/`.

The subject is the part of ZeroTrade that moves money and must survive failures (the risk manager
and its file, the trading step, the life of the process, the simulated account of forward tests,
the verification of a real one) and the part that decisions rest on: the history that is fetched
and imported, the paper account, the strategies and the backtest that puts them together.

## 1. The system

| Component | State it keeps | Operations | Talks to |
|---|---|---|---|
| **RiskManager** `core/risk.py` | `RiskState` (day and week keys and totals, entries of the day, halt reason, last losses), reference equity; the first is also a JSON file | `evaluate`, `record_order_submitted`, `record_trade_closed`, `set_reference_equity`, `resume`, `save`, `load`, `summary` | called by OrderManager and StrategyRunner; `zerotrade resume` works on the same file from another process |
| **StrategyRunner** `core/runner.py` | stop event, seen trades, previous positions, day key of the last summary | `run`, `step`, `stop`, `_shutdown` and the handlers of a step | everything below |
| **OrderManager** `core/orders.py` | last known status of every order | `submit`, `cancel`, `cancel_all`, `refresh`, `sync_open_orders`, `close_position` | RiskManager, broker |
| **KillSwitch** `control.py` | the file `STOP` | `requested`, `request`, `clear` | written by `zerotrade stop`, the dashboard, `forward_stop.sh`; read by the loop |
| **Brokers** `brokers/` | the exchange's account, or a simulated one | the methods of `BaseBroker` | OANDA, ccxt, BingX, PaperBroker |
| **ShadowBroker** `brokers/shadow.py` on `paper.py` | simulated positions, cash, closed trades, bar cursor; a JSON file | `connect`, `get_ohlcv`, `place_order`, `update_position_stop`, ... | an upstream exchange, for prices only |
| **Store** `store/` | SQLite tables of signals, orders, trades, equity, events | `record_*`, queries | written by the runner, read by report and dashboard |
| **PositionSizer** `core/sizing.py` | none | `calculate` | the runner |
| **ExcursionTracker** `core/excursion.py` | best and worst unrealised result per position | `observe_*`, `snapshot`, `forget` | the runner, PaperBroker |
| **Notifier** `core/notifier.py` | none | `send` | the runner |
| **Market data** `data/` | a cache of bars; CSV files | `get_candles`, `fetch_candles`, `align_candles`, import and download | brokers, backtests |
| **PaperBroker** `brokers/paper.py` | series with a cursor, positions, orders, cash, closed trades | `get_ohlcv` (moves the clock), `place_order`, `cancel_order`, `update_position_stop`, ... | backtests; ShadowBroker inherits from it |
| **Strategies** `strategies/` | none | `generate` | bars, clock and the position in, one signal out |
| **Backtests** `backtest/` | none between runs | `run_backtest`, `optimize`, robustness | the runner's step on PaperBroker, a record store |
| **Verification** `verify.py` | a report | `run_verification`: places and closes one real order | a broker |
| **Assembly** `app.py`, `settings.py`, `cli.py` | none | commands, wiring, validation | all |
| **Views** `report.py`, `tui.py` | none | read the store | store, KillSwitch |

One process runs one asyncio event loop with one coroutine doing the trading.  Concurrency is
therefore not between threads of the program but between the program and what it cannot hold
still: the exchange, which executes stops between any two awaits; the operator's commands, which
are processes of their own on the same directory; and the machine, which may end the process
anywhere.

What is hard about it, and what makes each part correct:

* **RiskManager.**  Days and weeks change while the process runs, is down, or is half-way through
  `resume`; the file is written at some events and not at others.  Correct: losses are neither
  forgotten nor doubled, a limit once reached closes the gate for the day, the cap and the cooldown
  survive restarts.
* **The trading step.**  Decisions are taken on a snapshot several awaits old; every call may fail
  or answer late; some brokers do not report closed trades and some swallow failures.  Correct:
  reported losses act before the next entry, nothing is booked twice, entries open and exits close.
* **The process.**  A stop may be asked for at any time in two ways; a shutdown may fail in its
  middle; orders outlive processes.  Correct: it stops, knows what became of its orders, and leaves
  at the broker what should be there and nothing else.
* **The shadow account.**  Months long, across restarts, with a file that may fail to be written.
  Correct: it adds up, its stops are executed, and it comes back as it was.
* **The paper account.**  One bar fills, measures and closes, and orders come in any sequence.
  Correct: units and money are conserved, a stop bounds the loss, a measure belongs to its trade.
* **History.**  Pages are fetched while bars go on forming; servers ignore what they are asked;
  files begin and end in the middle of an interval; symbols have different holes.  Correct: a
  fetched file holds all of what was asked for, at most its newest bar unfinished; an import makes
  no bar of an interval that the end of its file cut; symbols share one time axis.
* **Backtests.**  The runner decides on the position of the beginning of a step, and the bar of the
  step may already have closed it.  Correct: one exit per position, every trade accounted for.
* **Verification.**  A real order at an exchange that executes and shows late, and may ignore
  reduce-only.  Correct: a report of success means nothing is left, and a close that opened a
  position is reported.
* **Sizing** is a calculation: what a sized order satisfies.

The list of hazards, each at its line, is in `PROJECT.json`.

## 2. Modules

```
RiskRules ──┬── RiskManager
            │        └ INSTANCE LossGate
            └── Sizing ───── TradingLoop
Quotes ──┬── PaperBroker ──┬── Backtest
         └── Strategies ───┘
Exchange ──── Verify
ShadowBroker          Lifecycle          History
MCRiskManager, MCTradingLoop, MCShadowBroker, MCPaperBroker, MCBacktest, MCHistory, MCVerify:
    instances for TLC
RiskManagerProofs, TradingLoopProofs, ShadowBrokerProofs, PaperBrokerProofs, VerifyProofs,
LifecycleProofs, HistoryProofs:
    theorems about the module of the same name; those about the rules and the sizes are with
    the modules that use them, and those about Backtest, which is a PaperBroker driven by a
    strategy, are in the second half of PaperBrokerProofs
FoldProofs:
    facts about folds, INSTANCEd by the proofs about sums of trades and loops over orders
```

**RiskRules** holds the calculations of `core/risk.py` that both the manager's own model and the
trading loop use: `Roll`, `TradeClosed`, `OrderSubmitted`, and `Approves`, the conjunction of all
rules of `evaluate`.  Money is an integer; a ratio such as `max_daily_loss` is an integer
percentage and is compared after multiplying out, so nothing is rounded.  `Decimal` arithmetic in
the code is exact for these operations within its 28 digits.

**RiskManager** puts them into the processes that use them.  `process` is the trading process:
`"unsaved"` is the moment an `OSError` of `save()` is unwinding the step.  `Start`, `StartFails`,
`Shutdown` and `Crash` are the ways in and out; `Evaluate`, `OrderPlaced`, `OrderFailed`,
`RecordTradeClosed`, `DailySummary` are the calls the runner and OrderManager make; `ResumeLoad` and
`ResumeSave` are the two halves of `zerotrade resume`, with anything in between.  The history
variables (`ledger`, `last_loss`, `placed`, `tripped`, `crash_day`, `durable`) record what really
happened; no action's guard reads them, except that `placed` bounds the exploration.

**LossGate** is the abstract specification: a day, whether it tripped, how many entries it saw.  It
knows nothing of files, keys, weeks or totals.  `RiskManager` implements it under the mapping
written at the end of the module.

**TradingLoop** is one trading day of StrategyRunner and OrderManager against a broker.  `pc` is the
await the coroutine is at, so that everything the broker does on its own (`ClosedOutside`) happens
between any two of them.  Each `pc` has its successful answer and its failures.  Three constants say
which adapter is in use: `ReportsClosedTrades`, `PositionErrorsAreEmpty`, `ReduceOnlyIsKept`.  The
adapters of `brokers/` are three of their combinations: OANDA (reports, raises, keeps), BingX with
its history (reports, answers `[]`), and ccxt, which is also BingX when its probe failed (does not
report, answers `[]`).  `vanished` is history: what was still held when an answer `[]` of a failed
call made the runner book it as closed.  The
strategy is any sequence of signals: each symbol of each step may be held, entered or exited.  What
day and week changes do is RiskManager's subject, so the clock stands still here.

**Sizing** is `PositionSizer.calculate` with the limit the runner derives from the balance
(`_max_quantity_by_margin`).  The code takes the least of several quotients and rounds it down to a
multiple of `quantity_step`; the module counts whole lots, rounding each quotient down, which is the
same number.  `TradingLoop` sizes its entries with it (`Request`).

**ShadowBroker** is the simulated account with its file, the bars closed upstream, and the runner's
report to the store.  `Persist` either writes the file or, as the code does on `OSError`, logs and
goes on.  Because the runner sends market orders only, no order ever waits for a price.

**Lifecycle** is `run()`, `_check_kill_switch` and `_shutdown`, the orders OrderManager tracks, the
STOP file and the signals.  A step's trading is reduced to opening or closing one position with the
stop order the exchange attaches to it.

**PaperBroker** is `brokers/paper.py` in full with the excursions it measures.  A call of the code is
an operator on a record `Account` (`Fill`, `Reduce`, `ProcessExits`, `Advance`...), so that the order
in which one bar is executed is the order of the applications, and an exception in the middle is the
field `raised`.  The rest of a series is not known in advance: `GetOhlcv` appends any bar.  Some
fields of positions and trades are history for the properties; the module says which.

**Strategies** holds the indicators and the three `generate`s as operators on a context.  **Backtest**
extends both: `Step` is one `runner.step()`, the symbols folded over the account in order, each
judged on the position the step began with.  What sizer and risk manager say of an entry is any
element of `Sizes`, since their own modules are about them; so a backtest with a halt is among its
behaviours.

**History** is a fetch between two awaits, with the market going on (`Tick`) and a server that answers
the page it was asked for or the newest one; the commands `download` and `import`, whose file from
elsewhere may begin and end anywhere and have holes (`Exports`); the files they leave; and, as operators on the files, the split of `optimize` and `align_candles`.  A bar is named by
its time; `sorted` of a set of times is `Ascending`, which puts each at the place that the number of
smaller ones gives it.

**Exchange** is one symbol's account at an exchange and what the three adapters make of it; the
exchange itself is external: it executes an order later, never or at once, shows positions late,
closes them by stops or by hand, and keeps reduce-only orders from opening or does not (`keeps`; OANDA
does).  **Verify** is `run_verification` against it, one `pc` per await.  `close_position` is called
from two places; `phase` says which.  `crossed` and `opened` are history: a position was closed from
outside after an order was sent; a close opened a position or reversed one.

## 3. Runs

Twelve runs.  The bounds are the constants named `Max...` in each module, `Horizon` of History, and
the sets in the MC modules.

| Run | Question | Instance |
|---|---|---|
| `risk_manager` | do the limits hold through restarts, kills, failed saves, resumes, days and weeks? | 4 instants over 3 days and 2 weeks, 1 symbol, one loss and one profit, up to 3 entries a day with a cap of 2 |
| `loop_reported` | do reported losses stop entries, is every closure counted, and do entries only open flat symbols? | 2 symbols, both directions, 3 trades, lost answers, one process; OANDA: history, a failed call is an error, `reduceOnly` kept |
| `loop_inferred` | is nothing booked beyond what was closed and what failing calls hid, and do exits only reduce? | 2 symbols, both directions, orders of 2 units and partial closes, 2 closures, a restart; ccxt: no history, `[]` for a failed call, `reduceOnly` ignored |
| `shadow` | does the account add up, are stops executed, does a restart find it? | 2 bars, 2 trades, 2 starts, long and short, partial exits |
| `lifecycle` | does it stop without another step, learn of its orders, and clean up? | 2 resting orders, 1 stop order, unlimited restarts |
| `paper` | is the account conserved, and is a bar executed in the right order? | 1 symbol, 3 orders out of 6 kinds, 3 bars of 3 shapes, 2 stop prices |
| `history` | are files complete, unfinished in the newest bar at most, not cut at their end, and on one axis? | 2 symbols with holes at different places, pages of 2 bars, 3 requests, 6 intervals, 2 commands, both kinds of adapter, imports of files with a first interval cut, with a hole, and of one bar |
| `backtest` | does a position stay whole and every trade get accounted for? | 2 symbols, 3 strategies, 3 calendars with gaps, series of up to 8 bars of 3 shapes |
| `verify` | does success mean flat, is a close that opened reported, and does it end? | 3 adapters, reduce-only kept or ignored, a long, a short or no position before, all market lists, 2 looks per wait |

Why these bounds are enough to be interesting: the risk run contains a loss limit reached in one
step and in two, a week limit that is not the day limit, a profit after a halt, a restart on each
side of every boundary, and a `resume` that overlaps all of it.  Once a write of the file is lost
(`durable` is false) every property of the run is excused for good, so TLC does not explore beyond
such a state (`WritesKept`); the proofs have no such constraint.  The loop runs have a position that
shrinks, vanishes or reverses between any two awaits, and enough units that what is left of a
partial close matters.  Two starts are what it takes to see a restart; `Lifecycle` needs no bound,
its state is finite.  In the paper run three orders are enough to open, add to and turn around a
position, or to have two pending orders hit by one bar; one of the bars touches stop and target
together, and prices are multiples of 2520 so that every average entry is whole.  The history run
has a page that begins in a hole, a page that overlaps the last, and an import that ends in the
middle of an interval.  The calendars of the backtest run leave out the bars from a window to the
next morning, and from a window into the next one; the periods of the indicators are 2 and 3.

What these runs leave out on purpose: a broker whose failing call for positions looks like an empty
answer is in `loop_inferred`, but neither in `loop_reported` nor in `verify` (`ReadErrors`), because
with it `EntriesOpenFlatSymbols` and `OkMeansFlat` fail (below).  BingX with its history has no run of
its own: `LossesStopEntries` is proved for it too (section 5), and `loop_reported` without
`EntriesOpenFlatSymbols` passes for it with one symbol.
`EntriesOpenFlatSymbols` in turn is about one symbol; the limit over all symbols is not kept.  With
such an answer `NothingBookedTwice` allows what the answer hid, once (`vanished`): without the
allowance it is refuted for ccxt.  `OkMeansFlat` and `OpeningIsReported` allow for a position that is
closed from outside and by the verification at the same time, the first one where reduce-only is
ignored: then the close opens the other side.  `FetchIsComplete` is not claimed of a fetch that
`max_requests` or the server cut short, nor, with ccxt, across a hole as long as a page: there the
paging ends and the file is silently short.  `ImportedBarsAreWhole` is about the end of an imported
file; that bars at its beginning and around its holes lack something is refuted below.  It speaks of
files with two neighbouring bars: from a sparser one `resample` cannot learn how many bars an interval
has, and a file of one bar is kept as it is (`data/importer.py:373`).

Deadlock is not checked: all of these systems may rest with the bounds used up, the process down or
the command finished.

Three runs end in a violation.  Each one is a sentence of the repository that the code does not
keep; `PROJECT.json` quotes it:

* `restart_double_count`: after a restart the broker's old trades count again, today
  (`core/runner.py:505`).
* `protection`: the shutdown cancels the protective stop of a position an earlier process left
  (`core/orders.py:185`).
* `verify_dry_run`: `verify --dry-run` sends an order when a position of the symbol is already open,
  and closes it (`verify.py:149`, against `verify.py:33`).

### Other disagreements

The modules state more sentences of the repository that the code does not keep.  They are properties
marked "Refuted" that no run lists; naming one in a copy of the configuration shows the
counterexample.

| Property | Configuration | What happens |
|---|---|---|
| `RiskManager!WeeklyGateHolds` | MCRiskManager | a weekly halt is overwritten by a daily one and lifted the next morning (`core/risk.py:416`, against `:124`) |
| `TradingLoop!OpenPositionsCapped` | MCLoopInferred with `MaxOpenPositions = 1` | two symbols of one step pass `max_open_positions` together (`core/runner.py:209`, against `src/README.md:214`) |
| `TradingLoop!EntriesOpenFlatSymbols` | MCLoopReported with `PositionErrorsAreEmpty = TRUE`, or MCLoopInferred | an exchange timeout looks like "no positions" and lets a second entry in (`brokers/ccxt_broker.py:277`, against `brokers/base.py:38`) |
| `TradingLoop!NothingBookedTooMuch` | MCLoopInferred | one failed `get_positions` of ccxt, or of bingx without its history, books the open position as closed, and its real closing books it again (`core/runner.py:547`, `brokers/ccxt_broker.py:279`, against `brokers/base.py:38`) |
| `ShadowBroker!RestartKeepsStops` | MCShadowBroker | a trailing stop is loose again after a restart (`brokers/paper.py:217`, against `:184`) |
| `ShadowBroker!TradesStoredOnce` | MCShadowBroker | a trade is stored twice when a restart loses its id (`brokers/shadow.py:273`, against `store/sqlite.py:327`) |
| `PaperBroker!EveryBarIsExecuted` | MCPaperBroker | a pending order that is refused raises out of `_advance`, and the stop the same bar touches is not executed (`brokers/paper.py:330`, against `:248`) |
| `History!JudgedBarsAreFinished` | MCHistory | a bar that was unfinished when the server sent it, and is over when the answer arrives, is kept as finished with the prices of its middle (`brokers/ccxt_broker.py:370`, against `:366`) |
| `History!ImportedBarsLackNothing` | MCHistory | only the last interval is dropped when it is short: the first bar of an import may be made of the end of its interval, and one around a hole of what is there (`data/importer.py:372`; `src/tests/test_importer.py:203` expects it) |
| `Backtest!ReportIsTheResult` | MCBacktest | what the bar of the last step closes is in the result and not in the database (`backtest/engine.py:259`, against `:88`) |
| `Verify!OkMeansFlat` without `keeps \/ ~crossed` | MCVerify | where reduce-only is ignored, a position that is closed from outside while the verification's own close is under way is opened on the other side, after success was found (`brokers/ccxt_broker.py:384`) |
| `Verify!OpeningIsReported` without `crossed` | MCVerify | the same, seen from the close: it opened a position and success is reported |
| `Verify!OkMeansFlat` | MCVerify with `ReadErrors = {"ccxt", "bingx"}` | a failing call reads as flat: success is reported with the position open (`brokers/ccxt_broker.py:277`, against `verify.py:24`) |

Seen while modelling, without a property of their own: OANDA's positions and orders carry no stop,
so the check of the stop in a verification can never pass there (`brokers/oanda.py:137`,
`verify.py:275`); ccxt's `contracts or contractSize` shows a position of no contracts as one of a
contract's size (`brokers/ccxt_broker.py:284`; the exchange's `lists`); a partial close scales the
excursion it reports and leaves that of the rest unscaled (`brokers/paper.py:466`); an order that
turns a position around opens its rest without a margin check (`brokers/paper.py:412`); adding to a
position may loosen its stop (`brokers/paper.py:451`); `import` reads a local time that occurs twice
as its first occurrence, and the two bars merge (`data/importer.py:325`); `download` saves the bar
that is still forming (`data/providers.py:151`).

## 4. Fairness

Safety does not depend on fairness.  The liveness properties say that something known outside
becomes known inside, or that a command ends, and all rest on the same assumption: the event loop
runs the coroutine again when its await is over, and every call ends, in an answer or an error (the
adapters use timeouts).  That is weak fairness of the process's own actions: `WF_vars(Runner)`,
`WF_vars(Process)`, `WF_vars(Verification)`, and for a fetch `WF_vars(Serve \/ CallFails)` with
`WF_vars(Receive)`.  It does not make any call succeed, and says nothing of the exchange: in Verify
orders need not be executed, nor positions ever be shown.  For `ClosuresAreCounted` and
`OrdersSettle` the call in question is made again in every step, and is assumed to succeed some time
if it is made for ever: strong fairness of `FetchClosedTrades` and of `Refresh(o)`.  Stops, kills,
requests, signals, fills and starts are never assumed to happen.

`StopsWhenAsked` speaks of requests made after the process has looked for old ones: the STOP file
carries no time, and one written earlier is removed on purpose.

## 5. Proofs

Everything below is proved for every value of the constants: any clock, symbols, requests, series
of bars, results, limits and bounds.  The assumptions are the named ones of the modules, which TLC
evaluates in the runs:

* `ClockAssumption`: the local date and the ISO week do not go backwards, and an instant's date
  determines its week.  This excludes a clock that is set back across midnight and a time zone whose
  summer time ends at midnight, either of which resets a day twice.
* `LimitAssumption`, `SizingAssumption`: what `settings.py` enforces of limits, quantities, ratios
  and leverage.
* `LoopAssumption`: the list of symbols is neither empty nor repeats one (`settings.py:255-258`).
* `ShadowAssumption`: prices and bounds are numbers, and every entry has a stop, as those of the
  three strategies do (`strategies/donchian.py:216`, `strategies/sma_rsi.py:170`,
  `strategies/tokyo_fix.py:146`).
* `QuotesAssumption`, `RequestsAssumption`, `AccountAssumption`: `None` is not a price, an order that
  is not a market order has a trigger (`models.py:302-309`), a bar's close lies in its range, there
  are finitely many symbols.
* `StrategyAssumption`, `BacktestAssumption`: the periods that the strategies' `__init__` accepts, a
  window that closes after it opens; the list of symbols is neither empty nor repeats one
  (`settings.py:255-258`), a series has at least one bar (`backtest/engine.py:196`), an entry is
  given a size or refused.  Bars, calendars, thresholds and multipliers are any.
* `HistoryAssumption`: prices are numbers, a page and an interval are not empty, and the adapters are
  the two kinds there are.
* `RetriesAssumption`, `ExchangeAssumption`, `InputAssumption`, `OrderAssumption`: types.

A theorem with a hypothesis of its own states it with `ASSUME`; each is explained where it comes up.

### The risk manager

`RiskManagerProofs` proves `TypeOK`, `LedgerKept`, `EntriesCapped`, `GateHolds` and `CooldownHolds`.
None of them is inductive: they speak of what the manager knows *now*, and what it knows depends on
what an earlier process wrote, possibly days ago, and on what a `resume` in another process read and
has not written yet.  The invariant `IInv` adds

* `KeysInThePast`: memory, file and history are stamped with the date and week of one instant
  already past.  Without it, rolling could skip a reset;
* `ResumeReadsFile`: what `resume` is about to write is a roll of what it read;
* `LossesInThePast`;
* `Recorded`: rolled to now, memory *and* file record the true totals, losses and halts, unless a
  write was lost, or one is being lost at this moment (`"unsaved"`);
* `Counted`: on a day without a kill the day's entries are in memory, or in the file when no process
  runs;
* `TradesCapped` and `OneInFlight`: an approval leaves room for its own entry.

The argument rests on the lemma `RollTwice`: rolling at `t` and again at a later `u` is rolling at
`u`.  So it does not matter how often, when, or in which process a state was rolled on its way.
There is one lemma per conjunct of `IInv`, with one step per action that can disturb it.

`GateIsImplemented` says that `RiskManager` implements `LossGate`: initial states map to initial
states, and each step, under `IInv`, to a named step of the gate or to a stutter.
The types of the rules, which the trading loop uses as well, are lemmas at the beginning of each
module that needs them.

### Sizes

`TradingLoopProofs` begins with the sizes: a sized order satisfies `MarginRulesHold` and, when it is sized as a fixed
fraction with the stop on the right side, `StopRulesHold`: the two rules of `evaluate` that bound a
quantity.  Sizer and manager compute in opposite directions from the same balance; neither refers
to the other.  A fixed quantity is bounded by the margin only, and the risk manager does refuse one
that risks too much.

### The trading step

Every order and every booking of `TradingLoop` is decided on something awaits old, so each
invariant in `TradingLoopProofs` says what of the old picture still holds.

* `LoopTypeCorrect`, `ExitsReduce`.  `Prepared`: the order that is being prepared is of the first
  symbol still to do, and an exit is no larger than what `close_position` last saw.
* `EntriesOpen`, with one position allowed per symbol and a broker whose failing call for positions
  is an error.  `StillFlat`: a symbol that the snapshot shows flat and that is still to do, is flat;
  the broker only takes positions away, and the step visits no symbol twice.  Both hypotheses are
  needed: with a larger limit entries add to positions on purpose, and with the empty answer of
  ccxt's adapter the property is false (section 3).
* `BookedOnce` has two arguments.  A broker without history: what is booked, what is about to be and
  what the remembered positions lack now do not add up to more than what was closed
  and what vanished (`InferredOnce`), through any restarts; a failed read that looks empty adds to
  what vanished just what it books in excess (`StillHeldUnits`).  A broker with
  history: within one process exactly the trades seen are booked (`ReportedOnce`); across restarts
  the property is false, which is the finding of `restart_double_count`.
* `LossesStop`.  `LossesKnown`: the manager's total is that of the trades it was told of, and once a
  prefix of them has reached the limit it is halted, whatever profits follow.  One process, for the
  same reason; and a positive reference equity, without which the manager does not measure losses.

### The simulated accounts

`ShadowBrokerProofs` proves all four invariants of the `shadow` run.  `AccountAddsUp` follows from
one fact about sums (`FoldProofs`) and is claimed of memory and file apart, so a failing write cannot
mix them.  `RestartKeepsAccount` needs `FileIsBare`: the trades in the file have no ids, so that
reading and writing them again changes nothing.  `StopsAreExecuted` needs `StopsGuarded`: a stop,
in memory or in the file, never is looser than the first, so a restart that forgets a tightening
still executes the first stop.

`PaperBrokerProofs` proves five of the six properties of the `paper` run for any sequence of calls,
and the sixth, `BooksBalance`, in two parts (the last item).  A call of this broker does several
things to one record, so `Inv` says what holds between two calls (`Rested`), and lemmas say what
each operator (`Reduce`, `Opened`, `Enlarged`, `Fill`, `ProcessExits`) does to it, in the middle of
a call too, where the new bar is shown and not yet measured.  The loop over the pending orders is a
fold: `FoldKeeps` carries an invariant of its body through it.

* `NoReduceOnlyOpens`: ids are given once (`Numbered`), and a position carries the id of a filled
  order that is not reduce-only (`Named`).
* `ExcursionsAreWhole`: the excursion of a position is the best and worst gain *per unit* over its
  bars, times its quantity (`Measured`, `Spans`), so that the share taken at a close is exact
  (`ExactShare`) and what is left over from an earlier position cannot be mistaken for its own.
* `LossesAreBounded`: the stop never is worse than the first (`StopKept`), and the last close of a
  position that is still open is on the better side of its first stop, but for half the spread
  (`CloseKept`); an exit at the market is filled from there.
* `OneWayOnly`: each operator leaves a position as it is, moves its stop to the better side, adds an
  order of its side to it, or replaces it under another id; this relation is transitive, so it
  carries over from the operators to the loop and the whole call.
* `UnitsAndCashAreKept`, the first two equations of `BooksBalance`: what the orders filled and the
  exits moved is what is held, and the balance is the deposit and the results of the trades.  `Cuts`
  says what a closed quantity does to the totals, `Deals` what a fill does, before its order counts
  as filled; then the order counts and the trade, if any, is its counterpart (`InBalance`).  Every sum
  runs over all orders, those still pending included, so a fill changes a summand in the middle:
  `SumOfChange`.  The third equation, that the trades made what was paid and received
  (`MoneyKept`), is kept by every operator except one: an order that adds to a position, whose average
  entry is rounded.  `Fairly` is what the others satisfy.  It is proved where nothing is ever added
  to, in a backtest.

### The backtest

One step of a backtest is a whole `runner.step()`: each symbol in turn gets its next bar, which may
stop its position out, then perhaps an exit, an entry or a tighter stop, all decided on the
positions of the beginning of the step.  So the second half of `PaperBrokerProofs` is in three layers.

* *One call.*  `Moves(s, a, b)`: a call for the symbol `s` leaves its position as it is but for the
  stop, ends it with one trade, or opens it from nothing; other symbols are left alone and no order
  is left pending.  Each call the runner makes is such a move (`AdvanceMoves`, `ExitMoves`,
  `EntryMoves`, `StopMoves`), and moves keep the account `Tidy` (`MovesKeepTidy`): every position
  has a stop and was opened by one order that no other position and no trade has, and the books are
  in balance (`Balanced`: `InBalance` and `MoneyKept`).  That an entry is not an addition to a
  position rests on the signal: `SignalSound` says of the three strategies that an entry is only
  signalled for a symbol that is flat, with a stop, and an exit only for one that is held;
  `FixSignal` says when the fix strategy does either.
* *One symbol*, `SymbolIsProcessed`: what was true of the position of the step's beginning still
  is what the handler finds, or the position is gone because its bar closed it.
* *All symbols.*  `Midway(k)` is what the account may be when the first `k` symbols are done: those
  have met the new bar and the others have not.  `StepGoesOn` carries it through the fold.

`Book` is the inductive invariant between two steps: the account's own invariant, `Tidy`, all symbols
at the same bar (`Clocked`), no trade from a later one (`ClosedInTime`), the store and the result
(`Reported`).  The theorems: `BacktestPositionsAreWhole`, `FixStaysInTheWindow`,
`StoreFollowsTheTrades` (the store's rule to record what it has not seen yet is, because ids are
given once, a prefix of the trades: `SyncedIsAll`), and `ResultIsTheAccount`, whose second half is
about an algorithm: `SummaryTells` shows by induction over the trades that the one pass with running
peak finds the deepest fall between any two moments (`DeepestFall`).  `BacktestBooksBalance` is all of
`BooksBalance`: every entry finds its symbol flat, so no average is ever taken.  `BacktestAccountIsKept` and
`BacktestMovesOneWay` carry what is proved of PaperBroker over to the larger steps of a backtest.

### The verification

`VerifyProofs` proves all three invariants of the `verify` run for any number of looks and any delay
of the exchange.  `TypeOK` contains a bound: at most three orders are ever waiting, because each
stretch of the code sends one more at most (`Allowed`, `Phased`).  The other two rest on what holds as
long as nothing has failed (`Sound`), and that takes one invariant for each way in which a close can be
kept from opening a position.  `Kept`, where the exchange keeps reduce-only: nothing that opens a
position is left outside the wait for the entry, and a position that does not show does not exist.
`Orderly`, where it need not, but nobody else closes: there is one order at most, an entry where
nothing is held or a close of exactly what is held, because the position is asked for before it is
closed, its absence is waited for before anything else is sent, and a verification that finds a
position at its beginning has failed.  `SuccessIsFlat` follows from either, `OpeningsAreReported` from
`Orderly`.  The hypothesis of both is `ReadErrors \subseteq {"oanda"}`: where a failing call answers
"no positions", that answer is believed and `OkMeansFlat` is false (section 3).

### The life of the process

`LifecycleProofs` proves `TypeOK`, `NoStepOnceAsked` and `FoundOrdersCancelled`, through any number of
starts, kills and requests.  `AskedBeginsNoStep` is the safety half of `StopsWhenAsked`, and rests on
`RequestKept`: a request that the process has not acted on is in the file or in the event, because
only a process that has not yet looked for old requests removes the file.  `ShutdownCancelsFound`
rests on `FoundTracked`: an order found at the start and still open at the broker is tracked as open,
whatever was refreshed, and during the shutdown it is still to be cancelled or its cancel has failed.

### The history

`HistoryProofs` proves all five invariants of the `history` run, for any histories with any holes, any
sizes of pages, any commands, and a clock that goes on between two awaits.  None of them is
inductive: a file is written in one step out of what many pages brought.  `HInv` says what a fetch
knows on its way:

* `SearchedBack`: a bar from the cursor on that was over when the fetch began has been collected and
  is complete.  The cursor is the time of a bar, or still the end asked for.
* `PageFits`: an answer leaves out nothing between its oldest bar and the cursor; and an answer with
  no bars before the cursor, after one that had some, means that there are none or, with ccxt, a hole
  as long as a page.
* `SaidFinished`: what OANDA's server said was complete when it answered, was.
* `FormingIsNewest`: with ccxt a bar that was still forming when it was answered is the newest of all
  that was collected; a page that follows is older than that, because `get_ohlcv` drops what is not
  before the cursor, whatever the server sent.
* `FetchTyped`, `MarketKnown`, and for each file on disk `GoodFile`: what the properties claim of it.

`FetchesAreComplete` follows from what ends the paging.  An empty or a repeated page means there is
nothing older; a page that reaches the start is all that was asked for; and `MaxRequests` counts as
cut short.  `UnfinishedIsNewest` follows from `SaidFinished` and `FormingIsNewest`.  `ImportsAreWhole` is about one call, `resample` of what `read_any` read.  The last interval
holds as many bars as an interval of neighbours has, so by the pigeonhole principle no time of it is
missing; what is missing from an earlier interval comes before a bar of a later one, so the file did
not end there.  The file is any set of finished bars with two neighbours.  Its hypothesis is
`FoldAt = NoTime`: where a local time occurs twice, `read_any` gives two bars one stamp
(`data/importer.py:325`), and a bar may land in the interval before its own.  `BacktestsOnOneAxis`:
cutting sorted series to common times gives equal series of times (`AscendingUnique`), and a pivot
cuts each series at one time, so a test bar of one symbol and a training bar of another, which both
have a common time, are in the order of the windows.

Underneath is a small theory of `Ascending`: every place is taken (`RankTaken`, again by
pigeonholes), no place twice, and a sorted sequence is the ascending order of its elements.

### Folds

`FoldLeft` is recursive, and an induction principle with an operator as its parameter is not
available to the provers.  `FoldProofs` goes round both: a nonempty set of numbers has a least one
(from the well-foundedness of inclusion on finite sets), hence a set that contains 0 and with each
number the next contains them all; and the fold is the last of a sequence of intermediate values.
What comes out is what the other modules use: the value of a fold over an empty and a longer
sequence, that a set each step stays in contains the result, and what exchanging one element does to
a sum.

### Only model-checked

* All liveness: the prover handles neither fairness nor `ENABLED`.
* The third equation of `BooksBalance`, for callers that add to positions: it is not true in general,
  because the model's average entry is a division of integers, exact only for prices such as those
  of the instance.
* `ClosuresAreCounted`, `OrdersSettle`, `StopsWhenAsked`, `FetchEnds` and `VerificationEnds` are liveness
  properties.

The inductive invariants, `Book` included, were checked by TLC on the instances of section 3 before they were proved.

## 6. What is not modelled, and the plan

Not modelled because nothing of the system's behaviour depends on it, or it is input and output
alone: notifications, logging, the HTML report, the dashboard's drawing, file formats, downloads,
the research scripts under `src/scripts/`, Monte Carlo statistics.

Not modelled although it has state: the equity log, rejection records and the runner's own
excursions (numbers for the report only); leverage and position mode at connect; OANDA's
transactions as closed trades; the migrations of the record store; an unreadable state file of the
shadow account; validation in `settings.py`, whose ranges are the assumptions of the modules.

Abstracted: prices and quantities are small integers, and the profit of an inferred closure is any
of `Pnls`; rounding to the exchange's units is left out; an order is filled in whole or not at all.
Division of `Decimal`s is exact in the instances: their prices are multiples that make every average
whole.  In Backtest the clock is the calendar of the bars, equal for all symbols, which
`OneTimeAxis` shows of what is loaded.  The series that a PaperBroker without data makes up for itself
(`synthetic_candles`) is one of the series that PaperBroker meets in the run and in the proofs: any bars.

The plan, in the order of what each adds:

1. **An abstract account** that both PaperBroker and ShadowBroker implement.
2. **OANDA's transactions** as closed trades, with the runner's keys.
3. **The record store's queries** against a reference.

## 7. Running

```
tlc -workers 2 -config MCRiskManager.cfg MCRiskManager
tlc -workers 2 -config MCLoopReported.cfg MCTradingLoop
tlc -workers 2 -config MCLoopInferred.cfg MCTradingLoop
tlc -workers 2 -config MCLifecycle.cfg Lifecycle
tlc -workers 2 -config MCPaperBroker.cfg MCPaperBroker
tlc -workers 2 -config MCHistory.cfg MCHistory
tlc -workers 2 -config MCBacktest.cfg MCBacktest
tlc -workers 2 -config MCVerify.cfg MCVerify
for m in FoldProofs RiskManagerProofs TradingLoopProofs ShadowBrokerProofs PaperBrokerProofs \
         VerifyProofs LifecycleProofs HistoryProofs; do tlapm $m.tla; done
```

The longest run takes under two minutes.  `PROJECT.json` lists for every property a mutant of the code's
model that breaks it, and for every definition the lines it stands for.
