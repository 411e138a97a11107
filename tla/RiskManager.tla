------------------------------ MODULE RiskManager ------------------------------
(***************************************************************************)
(* core/risk.py's RiskManager with its JSON state file, and everything that *)
(* uses them: the trading process (start, order submission, closed trades,  *)
(* daily summary, shutdown, kill -9) and the command `zerotrade resume`,    *)
(* which is another process working on the same file.                       *)
(***************************************************************************)
EXTENDS RiskRules

CONSTANTS
  Requests,        \* the requests evaluated, each with its balance and market data
  Equities,        \* balances the broker may report
  Pnls,            \* realised profits and losses
  PnlRange,        \* bound: the period totals explored
  MaxPlaced,       \* bound: entries placed in one day, counted ones and forgotten ones
  NoFile, Corrupt, \* the state file is absent, or holds no valid JSON
  None

ASSUME InputAssumption ==
  /\ \A o \in Requests : o.symbol \in Symbols /\ o.reduce_only \in BOOLEAN /\ o.equity \in Int
  /\ None \notin Requests
  /\ Equities \subseteq Int /\ Pnls \subseteq Int /\ PnlRange \subseteq Int
  /\ MaxPlaced \in Nat
  /\ NoFile \notin RiskStates /\ Corrupt \notin RiskStates

VARIABLES
  now,               \* the wall clock
  process,           \* the trading process; "unsaved": an OSError of save() is unwinding
  state,             \* RiskManager._state
  reference_equity,  \* RiskManager._reference_equity, not persisted
  last_day_key,      \* StrategyRunner._last_day_key
  in_flight,         \* the approved request whose place_order is awaited
  file,              \* risk_state.json
  cli,               \* `zerotrade resume` between its load and its save
  \* History, read by no action's guard:
  ledger,            \* what was really won and lost in the current day and week
  last_loss,         \* when each symbol really lost last
  placed,            \* entries really placed, per the day they were recorded on
  tripped,           \* the last day and the last week a limit was reached, not resumed since
  crash_day,         \* the day of the last kill
  durable            \* no write of the file was lost (failed disk, corruption, stale resume)

memory  == <<state, reference_equity, last_day_key, in_flight>>
history == <<ledger, last_loss, placed, tripped, crash_day, durable>>
vars    == <<now, process, memory, file, cli, history>>

Today    == DayOf[now]
ThisWeek == WeekOf[now]
Alive    == process # "down"

-----------------------------------------------------------------------------
(* The history *)

Booked(l, t, pnl) ==
  [day  |-> DayOf[t],  daily  |-> pnl + (IF l.day = DayOf[t] THEN l.daily ELSE 0),
   week |-> WeekOf[t], weekly |-> pnl + (IF l.week = WeekOf[t] THEN l.weekly ELSE 0)]

LostToday == IF ledger.day = Today THEN ledger.daily ELSE 0
LostThisWeek == IF ledger.week = ThisWeek THEN ledger.weekly ELSE 0
PlacedToday == IF placed.day = Today THEN placed.n ELSE 0

Tripped(l, reference) ==
  [day  |-> IF /\ reference > 0
               /\ \/ Reached(l.daily, MaxDailyLoss, reference)
                  \/ Reached(l.weekly, MaxWeeklyLoss, reference)
            THEN l.day ELSE tripped.day,
   week |-> IF reference > 0 /\ Reached(l.weekly, MaxWeeklyLoss, reference)
            THEN l.week ELSE tripped.week]

-----------------------------------------------------------------------------
(* Time and the trading process *)

Init ==
  /\ now \in Times
  /\ process = "down"
  /\ state = RiskStateDefault /\ reference_equity = NoReference
  /\ last_day_key = NoKey /\ in_flight = None
  /\ file = NoFile /\ cli = None
  /\ ledger = [day |-> NoKey, daily |-> 0, week |-> NoKey, weekly |-> 0]
  /\ last_loss = [s \in Symbols |-> Never]
  /\ placed = [day |-> NoKey, n |-> 0]
  /\ tripped = [day |-> NoKey, week |-> NoKey]
  /\ crash_day = NoKey /\ durable = TRUE

Tick ==
  /\ now' \in Times /\ now' > now
  /\ UNCHANGED <<process, memory, file, cli, history>>

\* Mutant: the constructor does not roll what it was given.
LoadedUnrolled == IF file \in {NoFile, Corrupt} THEN RiskStateDefault ELSE file

\* RiskManager.load: an absent or unreadable file starts from the default state.
Loaded == Roll(IF file \in {NoFile, Corrupt} THEN RiskStateDefault ELSE file, now)

Forgotten ==  \* what a process that ends leaves in memory
  /\ state' = RiskStateDefault /\ reference_equity' = NoReference
  /\ last_day_key' = NoKey /\ in_flight' = None

Start ==
  /\ process = "down"
  /\ process' = "running"
  /\ state' = Loaded
  /\ last_day_key' = Loaded.day_key
  /\ reference_equity' \in Equities
  /\ UNCHANGED <<now, in_flight, file, cli, history>>

\* get_balance fails before the loop starts: run() still saves on its way out.
StartFails ==
  /\ process = "down"
  /\ file' = Loaded
  /\ UNCHANGED <<now, process, memory, cli, history>>

StopRequested ==
  /\ process = "running" /\ in_flight = None
  /\ process' = "stopping"
  /\ UNCHANGED <<now, memory, file, cli, history>>

\* Mutant: the summary is sent and the state is not saved.
ShutdownWithoutSave ==
  /\ process \in {"stopping", "unsaved"}
  /\ process' = "down"
  /\ Forgotten
  /\ UNCHANGED <<now, file, cli, history>>

\* _shutdown: the summary rolls the state, which is then saved.
Shutdown ==
  /\ process \in {"stopping", "unsaved"}
  /\ process' = "down"
  /\ file' = Roll(state, now)
  /\ Forgotten
  /\ UNCHANGED <<now, cli, history>>

\* kill -9, a power cut, or a save in _shutdown that fails.
Crash ==
  /\ Alive
  /\ process' = "down"
  /\ Forgotten
  /\ crash_day' = Today
  /\ durable' = (durable /\ process # "unsaved")
  /\ UNCHANGED <<now, file, cli, ledger, last_loss, placed, tripped>>

-----------------------------------------------------------------------------
(* RiskManager, as OrderManager and StrategyRunner call it *)

Evaluate(o) ==
  LET rolled == Roll(state, now)
  IN  /\ process = "running" /\ in_flight = None
      /\ PlacedToday < MaxPlaced
      /\ state' = rolled
      /\ reference_equity' =
           IF reference_equity = NoReference /\ o.equity > 0 THEN o.equity ELSE reference_equity
      /\ in_flight' = IF Approves(rolled, now, o) THEN o ELSE None
      /\ UNCHANGED <<now, process, last_day_key, file, cli, history>>

\* place_order returned: record_order_submitted, which ignores closing orders.
OrderPlaced ==
  /\ in_flight # None
  /\ in_flight' = None
  /\ IF in_flight.reduce_only
     THEN UNCHANGED <<state, placed>>
     ELSE /\ state' = OrderSubmitted(state, now)
          /\ placed' = [day |-> Today, n |-> PlacedToday + 1]
  /\ UNCHANGED <<now, process, reference_equity, last_day_key, file, cli, ledger, last_loss,
                 tripped, crash_day, durable>>

OrderFailed ==
  /\ in_flight # None
  /\ in_flight' = None
  /\ UNCHANGED <<now, process, state, reference_equity, last_day_key, file, cli, history>>

\* record_trade_closed; saved is FALSE when save() raises.
RecordTradeClosed(symbol, pnl, saved) ==
  LET closed == TradeClosed(state, now, reference_equity, symbol, pnl)
      booked == Booked(ledger, now, pnl)
  IN  /\ process = "running" /\ in_flight = None
      /\ booked.weekly \in PnlRange /\ booked.daily \in PnlRange
      /\ state' = closed
      /\ IF saved THEN file' = closed /\ process' = process
                  ELSE file' = file /\ process' = "unsaved"
      /\ ledger' = booked
      /\ last_loss' = WithLoss(last_loss, symbol, now, pnl)
      /\ tripped' = Tripped(booked, reference_equity)
      /\ UNCHANGED <<now, reference_equity, last_day_key, in_flight, cli, placed, crash_day,
                     durable>>

\* _maybe_daily_summary: compares the day key as the last roll left it, and only
\* then rolls.  The reference stays as it is when get_balance fails.
DailySummary ==
  /\ process = "running" /\ in_flight = None
  /\ state.day_key # last_day_key
  /\ last_day_key' = state.day_key
  /\ state' = Roll(state, now)
  /\ reference_equity' \in Equities \union {reference_equity}
  /\ UNCHANGED <<now, process, in_flight, file, cli, history>>

-----------------------------------------------------------------------------
(* Other processes *)

ResumeLoad ==
  /\ cli = None
  /\ Halted(Loaded)
  /\ cli' = [read |-> file, state |-> Loaded]
  /\ UNCHANGED <<now, process, memory, file, history>>

ResumeSave ==
  /\ cli # None
  /\ file' = [cli.state EXCEPT !.halt_reason = NoHalt]
  /\ cli' = None
  /\ tripped' = [day |-> NoKey, week |-> NoKey]
  /\ durable' = (durable /\ cli.read = file)
  /\ UNCHANGED <<now, process, memory, ledger, last_loss, placed, crash_day>>

FileCorrupted ==
  /\ file # NoFile
  /\ file' = Corrupt /\ durable' = FALSE
  /\ UNCHANGED <<now, process, memory, cli, ledger, last_loss, placed, tripped, crash_day>>

Next ==
  \/ Tick \/ Start \/ StartFails \/ StopRequested \/ Shutdown \/ Crash
  \/ \E o \in Requests : Evaluate(o)
  \/ OrderPlaced \/ OrderFailed
  \/ \E symbol \in Symbols, pnl \in Pnls, saved \in BOOLEAN : RecordTradeClosed(symbol, pnl, saved)
  \/ DailySummary
  \/ ResumeLoad \/ ResumeSave \/ FileCorrupted

Spec == Init /\ [][Next]_vars

-----------------------------------------------------------------------------
(* Properties *)

TypeOK ==
  /\ now \in Times
  /\ process \in {"down", "running", "stopping", "unsaved"}
  /\ IF Alive THEN state \in RiskStates ELSE state = RiskStateDefault
  /\ reference_equity \in Int /\ last_day_key \in Nat \union {NoKey}
  /\ in_flight \in Requests \union {None} /\ (in_flight # None => process = "running")
  /\ file \in RiskStates \union {NoFile, Corrupt}
  /\ cli \in [read : RiskStates, state : RiskStates] \union {None}
  /\ ledger \in [day : Nat \union {NoKey}, daily : Int, week : Nat \union {NoKey}, weekly : Int]
  /\ last_loss \in [Symbols -> Times \union {Never}]
  /\ placed \in [day : Nat \union {NoKey}, n : Nat]
  /\ tripped \in [day : Nat \union {NoKey}, week : Nat \union {NoKey}]
  /\ crash_day \in Nat \union {NoKey} /\ durable \in BOOLEAN

\* What the manager knows now, or would know if it were started now.
Known == IF Alive THEN Roll(state, now) ELSE Loaded

\* Restarts, kills and period boundaries never make the manager forget, or count
\* twice, a loss that was reported to it: record_trade_closed saves before it returns
\* and load rolls what it reads.
LedgerKept ==
  durable => Known.daily_pnl = LostToday /\ Known.weekly_pnl = LostThisWeek

\* max_daily_trades bounds the entries of a day across graceful restarts, although
\* record_order_submitted itself does not save.
EntriesCapped ==
  durable /\ crash_day # Today => PlacedToday <= MaxDailyTrades

Entering == in_flight = None /\ in_flight' # None /\ ~in_flight'.reduce_only

\* Once a limit was reached on a day, no entry is approved for the rest of that day
\* unless the operator resumed: whatever closes, reference changes, restarts or kills
\* come in between.
GateHolds == [][durable /\ Entering => tripped.day # Today]_vars

\* risk.py:124 says a weekly halt stays until the week changes.  Refuted: a profit booked
\* after it can turn it into a daily one, which the next day lifts.
WeeklyGateHolds == [][durable /\ Entering => tripped.week # ThisWeek]_vars

\* cooldown_seconds_after_loss holds from the last real loss of the symbol, also when
\* the process was killed and started again in between.
CooldownHolds ==
  [][durable /\ Entering =>
       LET lost_at == last_loss[in_flight'.symbol]
       IN  lost_at = Never \/ now - lost_at >= CooldownAfterLoss]_vars

EntryApproved == in_flight # None /\ ~in_flight.reduce_only

Gate == INSTANCE LossGate WITH
  day <- Today, tripped <- tripped.day = Today, approved <- EntryApproved,
  entries <- PlacedToday, killed <- crash_day = Today, lost <- ~durable

\* The manager with its file implements the gate.
ImplementsLossGate == Gate!Spec
=============================================================================
