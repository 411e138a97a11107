--------------------------- MODULE RiskManagerProofs ---------------------------
(***************************************************************************)
(* Invariance proofs for RiskManager, for every clock, every set of         *)
(* requests and results and every limit.                                    *)
(***************************************************************************)
EXTENDS RiskManager, TLAPS

-----------------------------------------------------------------------------
(* What the calculations of RiskRules return *)

\* The keys of a record are the date and the week of one instant already past.
Stamped(day, week, t) == \E u \in Times : u <= t /\ day = DayOf[u] /\ week = WeekOf[u]

LEMMA RollType ==
  ASSUME NEW s \in RiskStates \union {RiskStateDefault}, NEW t \in Times
  PROVE  /\ Roll(s, t) \in RiskStates
         /\ Roll(s, t).daily_trades <= s.daily_trades
         /\ Stamped(Roll(s, t).day_key, Roll(s, t).week_key, t)
BY ClockAssumption DEF RiskStates, RiskStateDefault, Roll, HaltReasons, NoHalt, NoKey, Stamped

\* Rolling twice is rolling once: nothing is lost by a roll at an earlier instant.
LEMMA RollTwice ==
  ASSUME NEW s \in RiskStates, NEW t \in Times, NEW u \in Times, t <= u,
         Stamped(s.day_key, s.week_key, t)
  PROVE  Roll(Roll(s, t), u) = Roll(s, u)
<1>1. PICK v \in Times : v <= t /\ s.day_key = DayOf[v] /\ s.week_key = WeekOf[v]
  BY DEF Stamped
<1>2. /\ s.day_key \in Nat /\ DayOf[t] \in Nat /\ DayOf[u] \in Nat
      /\ s.day_key <= DayOf[t] /\ DayOf[t] <= DayOf[u]
  BY <1>1, ClockAssumption
<1>3. /\ s.week_key \in Nat /\ WeekOf[t] \in Nat /\ WeekOf[u] \in Nat
      /\ s.week_key <= WeekOf[t] /\ WeekOf[t] <= WeekOf[u]
  BY <1>1, ClockAssumption
<1>4. QED
  BY <1>2, <1>3 DEF Roll, DailyLossLimit, WeeklyLossLimit, NoHalt

LEMMA TradeClosedType ==
  ASSUME NEW s \in RiskStates, NEW t \in Times, NEW reference \in Int,
         NEW symbol \in Symbols, NEW pnl \in Int
  PROVE  /\ TradeClosed(s, t, reference, symbol, pnl) \in RiskStates
         /\ TradeClosed(s, t, reference, symbol, pnl).day_key = DayOf[t]
         /\ TradeClosed(s, t, reference, symbol, pnl).week_key = WeekOf[t]
         /\ TradeClosed(s, t, reference, symbol, pnl).daily_trades = Roll(s, t).daily_trades
         /\ TradeClosed(s, t, reference, symbol, pnl).daily_pnl = Roll(s, t).daily_pnl + pnl
         /\ TradeClosed(s, t, reference, symbol, pnl).weekly_pnl = Roll(s, t).weekly_pnl + pnl
         /\ TradeClosed(s, t, reference, symbol, pnl).last_loss_at
              = WithLoss(Roll(s, t).last_loss_at, symbol, t, pnl)
         /\ TradeClosed(s, t, reference, symbol, pnl).halt_reason
              = HaltReasonAfter(Roll(s, t).halt_reason, Roll(s, t).daily_pnl + pnl,
                                Roll(s, t).weekly_pnl + pnl, reference)
<1> DEFINE r == Roll(s, t)
           reason == HaltReasonAfter(r.halt_reason, r.daily_pnl + pnl, r.weekly_pnl + pnl,
                                     reference)
           losses == WithLoss(r.last_loss_at, symbol, t, pnl)
<1>1. r \in RiskStates /\ r.day_key = DayOf[t] /\ r.week_key = WeekOf[t]
  <2>1. r \in RiskStates
    BY RollType
  <2>2. QED
    BY <2>1 DEF Roll
<1>2. TradeClosed(s, t, reference, symbol, pnl)
        = [day_key |-> r.day_key, week_key |-> r.week_key,
           daily_pnl |-> r.daily_pnl + pnl, weekly_pnl |-> r.weekly_pnl + pnl,
           daily_trades |-> r.daily_trades, halt_reason |-> reason, last_loss_at |-> losses]
  BY DEF TradeClosed
<1> HIDE DEF r
<1>3. reason \in HaltReasons
  BY <1>1 DEF RiskStates, HaltReasonAfter, HaltReasons
<1>4. losses \in [Symbols -> Times \union {Never}]
  BY <1>1 DEF RiskStates, WithLoss
<1> DEFINE c == TradeClosed(s, t, reference, symbol, pnl)
<1> HIDE DEF reason, losses, c
<1>5. /\ c \in RiskStates
      /\ c.day_key = DayOf[t] /\ c.week_key = WeekOf[t]
      /\ c.daily_trades = r.daily_trades
      /\ c.daily_pnl = r.daily_pnl + pnl /\ c.weekly_pnl = r.weekly_pnl + pnl
      /\ c.last_loss_at = losses /\ c.halt_reason = reason
  BY <1>1, <1>2, <1>3, <1>4 DEF RiskStates, c
<1>6. QED
  BY <1>5 DEF r, reason, losses, c

LEMMA OrderSubmittedType ==
  ASSUME NEW s \in RiskStates, NEW t \in Times
  PROVE  OrderSubmitted(s, t) \in RiskStates
BY RollType DEF OrderSubmitted, RiskStates

-----------------------------------------------------------------------------
(* The inductive invariant *)

KeysInThePast ==
  /\ Alive => Stamped(state.day_key, state.week_key, now)
  /\ file \in RiskStates => Stamped(file.day_key, file.week_key, now)
  /\ Stamped(ledger.day, ledger.week, now) \/ (ledger.day = NoKey /\ ledger.week = NoKey)
  /\ placed.day <= Today /\ tripped.day <= Today /\ crash_day <= Today

\* What `zerotrade resume` is about to write is the file it read, rolled at the
\* moment it was read.
ResumeReadsFile ==
  cli # None => \E u \in Times : /\ u <= now /\ cli.state = Roll(cli.read, u)
                                 /\ Stamped(cli.read.day_key, cli.read.week_key, u)

\* A rolled state records what really happened.
Faithful(s) ==
  /\ s.daily_pnl = LostToday /\ s.weekly_pnl = LostThisWeek
  /\ s.last_loss_at = last_loss
  /\ tripped.day = Today => Halted(s)

Recorded ==
  durable => /\ Alive => Faithful(Roll(state, now))
             /\ process # "unsaved" => Faithful(Loaded)

\* The entries of the day are counted in memory, and on disk once the process ended
\* without being killed.
Counted ==
  durable /\ crash_day # Today =>
    Known.daily_trades = PlacedToday

TradesCapped ==
  /\ state.daily_trades <= MaxDailyTrades
  /\ file \in RiskStates => file.daily_trades <= MaxDailyTrades
  /\ cli # None => cli.state.daily_trades <= MaxDailyTrades

OneInFlight ==
  in_flight # None /\ ~in_flight.reduce_only => state.daily_trades < MaxDailyTrades

LossesInThePast == \A s \in Symbols : last_loss[s] = Never \/ last_loss[s] <= now

IInv ==
  /\ TypeOK /\ KeysInThePast /\ LossesInThePast /\ ResumeReadsFile
  /\ Recorded /\ Counted /\ TradesCapped /\ OneInFlight

-----------------------------------------------------------------------------
(* Type correctness *)

LEMMA LoadedType ==
  ASSUME TypeOK
  PROVE  Loaded \in RiskStates /\ (Halted(Loaded) => file \in RiskStates)
<1>1. Loaded \in RiskStates
  BY RollType DEF Loaded, TypeOK
<1>2. file \in {NoFile, Corrupt} => ~Halted(Loaded)
  BY DEF Loaded, Roll, Halted, RiskStateDefault
<1>3. QED
  BY <1>1, <1>2 DEF TypeOK

LEMMA TypeInit == Init => TypeOK
BY DEF Init, TypeOK, Alive, RiskStateDefault, NoReference, NoKey, Never

LEMMA TypeNext == TypeOK /\ [Next]_vars => TypeOK'
<1> SUFFICES ASSUME TypeOK, [Next]_vars PROVE TypeOK'
  OBVIOUS
<1> USE InputAssumption
<1>1. Roll(state, now) \in RiskStates
  BY RollType DEF TypeOK
<1>2. Today \in Nat /\ ThisWeek \in Nat
  BY ClockAssumption DEF TypeOK, Today, ThisWeek
<1>3. CASE Tick
  BY <1>3 DEF Tick, TypeOK, memory, history, Alive
<1>4. CASE Start
  BY <1>4, LoadedType DEF Start, TypeOK, memory, history, Alive, RiskStates
<1>5. CASE StartFails
  BY <1>5, LoadedType DEF StartFails, TypeOK, memory, history, Alive
<1>6. CASE StopRequested
  BY <1>6 DEF StopRequested, TypeOK, memory, history, Alive
<1>7. CASE Shutdown
  BY <1>7, <1>1 DEF Shutdown, Forgotten, TypeOK, history, Alive, NoReference
<1>8. CASE Crash
  BY <1>8, <1>2 DEF Crash, Forgotten, TypeOK, Alive, NoReference
<1>9. ASSUME NEW o \in Requests, Evaluate(o) PROVE TypeOK'
  BY <1>9, <1>1 DEF Evaluate, TypeOK, history, Alive
<1>10. CASE OrderPlaced
  <2>1. OrderSubmitted(state, now) \in RiskStates
    BY <1>10, OrderSubmittedType DEF OrderPlaced, TypeOK, Alive
  <2>2. PlacedToday \in Nat
    BY DEF PlacedToday, TypeOK
  <2>3. QED
    BY <1>10, <1>2, <2>1, <2>2 DEF OrderPlaced, TypeOK, Alive
<1>11. CASE OrderFailed
  BY <1>11 DEF OrderFailed, TypeOK, history, Alive
<1>12. ASSUME NEW symbol \in Symbols, NEW pnl \in Pnls, NEW saved \in BOOLEAN,
              RecordTradeClosed(symbol, pnl, saved)
       PROVE  TypeOK'
  <2>1. TradeClosed(state, now, reference_equity, symbol, pnl) \in RiskStates
    BY <1>12, TradeClosedType DEF RecordTradeClosed, TypeOK, Alive
  <2>2. ledger' \in [day : Nat \union {NoKey}, daily : Int, week : Nat \union {NoKey}, weekly : Int]
    BY <1>12, <1>2 DEF RecordTradeClosed, Booked, TypeOK, Today, ThisWeek
  <2>3. last_loss' \in [Symbols -> Times \union {Never}]
    BY <1>12 DEF RecordTradeClosed, WithLoss, TypeOK
  <2>4. tripped' \in [day : Nat \union {NoKey}, week : Nat \union {NoKey}]
    BY <1>12, <2>2 DEF RecordTradeClosed, Tripped, TypeOK
  <2>5. QED
    BY <1>12, <2>1, <2>2, <2>3, <2>4 DEF RecordTradeClosed, TypeOK, Alive
<1>13. CASE DailySummary
  BY <1>13, <1>1 DEF DailySummary, TypeOK, history, Alive, RiskStates
<1>14. CASE ResumeLoad
  BY <1>14, LoadedType DEF ResumeLoad, TypeOK, memory, history, Alive
<1>15. CASE ResumeSave
  <2>1. [cli.state EXCEPT !.halt_reason = NoHalt] \in RiskStates
    BY <1>15 DEF ResumeSave, TypeOK, RiskStates, HaltReasons
  <2>2. QED
    BY <1>15, <2>1 DEF ResumeSave, TypeOK, memory, Alive
<1>16. CASE FileCorrupted
  BY <1>16 DEF FileCorrupted, TypeOK, memory, Alive
<1>17. CASE UNCHANGED vars
  BY <1>17 DEF vars, memory, history, TypeOK, Alive
<1>18. QED
  BY <1>3, <1>4, <1>5, <1>6, <1>7, <1>8, <1>9, <1>10, <1>11, <1>12, <1>13, <1>14, <1>15,
     <1>16, <1>17 DEF Next

\* Every variable keeps its type: in particular the process has a rolled state whenever
\* it runs, and whatever it finds on disk gives it one.
THEOREM TypeCorrect == Spec => []TypeOK
<1>1. QED
  BY TypeInit, TypeNext, PTL DEF Spec

-----------------------------------------------------------------------------
(* Keys: nothing in memory or on disk is dated later than the clock *)

LEMMA StampedLater ==
  ASSUME NEW t \in Times, NEW u \in Times, t <= u, NEW day, NEW week, Stamped(day, week, t)
  PROVE  Stamped(day, week, u)
BY ClockAssumption DEF Stamped

LEMMA StampedNow ==
  ASSUME NEW t \in Times
  PROVE  Stamped(DayOf[t], WeekOf[t], t)
BY ClockAssumption DEF Stamped

\* The state rolled now, wherever it comes from.
LEMMA RolledNow ==
  ASSUME TypeOK
  PROVE  /\ Loaded \in RiskStates /\ Loaded.day_key = Today /\ Loaded.week_key = ThisWeek
         /\ Roll(state, now) \in RiskStates
         /\ Roll(state, now).day_key = Today /\ Roll(state, now).week_key = ThisWeek
BY RollType, LoadedType DEF TypeOK, Loaded, Roll, Today, ThisWeek

LEMMA ClosedNow ==
  ASSUME TypeOK, NEW symbol \in Symbols, NEW pnl \in Pnls, NEW saved \in BOOLEAN,
         RecordTradeClosed(symbol, pnl, saved)
  PROVE  /\ Alive /\ state \in RiskStates /\ pnl \in Int /\ reference_equity \in Int
         /\ state' \in RiskStates
         /\ state'.day_key = Today /\ state'.week_key = ThisWeek
         /\ state'.daily_trades = Roll(state, now).daily_trades
         /\ state'.daily_pnl = Roll(state, now).daily_pnl + pnl
         /\ state'.weekly_pnl = Roll(state, now).weekly_pnl + pnl
         /\ state'.last_loss_at = WithLoss(Roll(state, now).last_loss_at, symbol, now, pnl)
         /\ state'.halt_reason
              = HaltReasonAfter(Roll(state, now).halt_reason, Roll(state, now).daily_pnl + pnl,
                                Roll(state, now).weekly_pnl + pnl, reference_equity)
<1>1. /\ Alive /\ state \in RiskStates /\ now \in Times /\ reference_equity \in Int
      /\ pnl \in Int
  BY InputAssumption DEF RecordTradeClosed, TypeOK, Alive
<1>2. state' = TradeClosed(state, now, reference_equity, symbol, pnl)
  BY DEF RecordTradeClosed
<1> DEFINE c == TradeClosed(state, now, reference_equity, symbol, pnl)
           r == Roll(state, now)
<1>3. /\ c \in RiskStates /\ c.day_key = DayOf[now] /\ c.week_key = WeekOf[now]
      /\ c.daily_trades = r.daily_trades
      /\ c.daily_pnl = r.daily_pnl + pnl /\ c.weekly_pnl = r.weekly_pnl + pnl
  BY <1>1, TradeClosedType
<1>4. /\ c.last_loss_at = WithLoss(r.last_loss_at, symbol, now, pnl)
      /\ c.halt_reason = HaltReasonAfter(r.halt_reason, r.daily_pnl + pnl, r.weekly_pnl + pnl,
                                         reference_equity)
  BY <1>1, TradeClosedType
<1>5. state' = c
  BY <1>2
<1> HIDE DEF c, r
<1>6. /\ state'.last_loss_at = WithLoss(r.last_loss_at, symbol, now, pnl)
      /\ state'.halt_reason = HaltReasonAfter(r.halt_reason, r.daily_pnl + pnl,
                                              r.weekly_pnl + pnl, reference_equity)
  BY <1>4, <1>5
<1>7. /\ state' \in RiskStates /\ state'.day_key = Today /\ state'.week_key = ThisWeek
      /\ state'.daily_trades = r.daily_trades
      /\ state'.daily_pnl = r.daily_pnl + pnl /\ state'.weekly_pnl = r.weekly_pnl + pnl
  BY <1>3, <1>5 DEF Today, ThisWeek
<1>8. QED
  BY <1>1, <1>6, <1>7 DEF r

LEMMA KeysNext ==
  ASSUME TypeOK, TypeOK', KeysInThePast, ResumeReadsFile, [Next]_vars
  PROVE  KeysInThePast'
<1> USE InputAssumption
<1>1. Today \in Nat /\ ThisWeek \in Nat /\ NoKey <= Today
  BY ClockAssumption DEF TypeOK, Today, ThisWeek, NoKey
<1>2. Stamped(Today, ThisWeek, now)
  BY StampedNow DEF TypeOK, Today, ThisWeek
<1>3. CASE Tick
  <2>1. now \in Times /\ now' \in Times /\ now <= now'
    BY <1>3, ClockAssumption DEF Tick, TypeOK
  <2>2. Today <= Today' /\ Today' \in Nat
    BY <2>1, ClockAssumption DEF Today
  <2>3. placed.day <= Today' /\ tripped.day <= Today' /\ crash_day <= Today'
    BY <1>1, <2>2 DEF KeysInThePast, TypeOK, NoKey
  <2>4. Stamped(ledger.day, ledger.week, now') \/ (ledger.day = NoKey /\ ledger.week = NoKey)
    BY <2>1, StampedLater DEF KeysInThePast
  <2>5. Alive => Stamped(state.day_key, state.week_key, now')
    BY <2>1, StampedLater DEF KeysInThePast
  <2>6. file \in RiskStates => Stamped(file.day_key, file.week_key, now')
    BY <2>1, StampedLater DEF KeysInThePast
  <2>7. QED
    BY <1>3, <2>3, <2>4, <2>5, <2>6 DEF Tick, KeysInThePast, memory, history, Alive
<1>4. CASE Start
  BY <1>4, <1>2, RolledNow DEF Start, KeysInThePast, Alive, history, Today
<1>5. CASE StartFails
  BY <1>5, <1>2, RolledNow DEF StartFails, KeysInThePast, Alive, history, memory, Today
<1>6. CASE StopRequested
  BY <1>6 DEF StopRequested, KeysInThePast, Alive, history, memory, Today
<1>7. CASE Shutdown
  BY <1>7, <1>2, RolledNow DEF Shutdown, KeysInThePast, Alive, history, Today
<1>8. CASE Crash
  BY <1>8, <1>1 DEF Crash, KeysInThePast, Alive, Today
<1>9. ASSUME NEW o \in Requests, Evaluate(o) PROVE KeysInThePast'
  BY <1>9, <1>2, RolledNow DEF Evaluate, KeysInThePast, Alive, history, Today
<1>10. CASE OrderPlaced
  <2>1. Alive => Stamped(state'.day_key, state'.week_key, now)
    <3>1. /\ OrderSubmitted(state, now).day_key = Today
          /\ OrderSubmitted(state, now).week_key = ThisWeek
      BY RolledNow DEF OrderSubmitted, RiskStates
    <3>2. QED
      BY <1>10, <1>2, <3>1 DEF OrderPlaced, KeysInThePast
  <2>2. placed'.day <= Today
    BY <1>10, <1>1 DEF OrderPlaced, KeysInThePast
  <2>3. QED
    BY <1>10, <2>1, <2>2 DEF OrderPlaced, KeysInThePast, Alive, Today
<1>11. CASE OrderFailed
  BY <1>11 DEF OrderFailed, KeysInThePast, Alive, history, Today
<1>12. ASSUME NEW symbol \in Symbols, NEW pnl \in Pnls, NEW saved \in BOOLEAN,
              RecordTradeClosed(symbol, pnl, saved)
       PROVE  KeysInThePast'
  <2>1. state'.day_key = Today /\ state'.week_key = ThisWeek
    BY <1>12, ClosedNow
  <2>2. ledger'.day = Today /\ ledger'.week = ThisWeek
    BY <1>12 DEF RecordTradeClosed, Booked, Today, ThisWeek
  <2>3. tripped'.day <= Today
    BY <1>12, <1>1, <2>2 DEF RecordTradeClosed, Tripped, KeysInThePast
  <2>4. QED
    BY <1>12, <1>2, <2>1, <2>2, <2>3 DEF RecordTradeClosed, KeysInThePast, Alive, Today
<1>13. CASE DailySummary
  BY <1>13, <1>2, RolledNow DEF DailySummary, KeysInThePast, Alive, history, Today
<1>14. CASE ResumeLoad
  BY <1>14 DEF ResumeLoad, KeysInThePast, Alive, memory, history, Today
<1>15. CASE ResumeSave
  <2>1. PICK u \in Times : u <= now /\ cli.state = Roll(cli.read, u)
    BY <1>15 DEF ResumeSave, ResumeReadsFile
  <2>2. Stamped(cli.state.day_key, cli.state.week_key, u)
    BY <1>15, <2>1, RollType DEF ResumeSave, TypeOK
  <2>3. Stamped(cli.state.day_key, cli.state.week_key, now)
    BY <2>1, <2>2, StampedLater DEF TypeOK
  <2>4. file'.day_key = cli.state.day_key /\ file'.week_key = cli.state.week_key
    BY <1>15 DEF ResumeSave, TypeOK, RiskStates
  <2>5. tripped'.day <= Today
    BY <1>15, <1>1 DEF ResumeSave
  <2>6. QED
    BY <1>15, <2>3, <2>4, <2>5 DEF ResumeSave, KeysInThePast, Alive, memory, Today
<1>16. CASE FileCorrupted
  BY <1>16 DEF FileCorrupted, KeysInThePast, Alive, memory, Today
<1>17. CASE UNCHANGED vars
  BY <1>17 DEF vars, memory, history, KeysInThePast, Alive, Today
<1>18. QED
  BY <1>3, <1>4, <1>5, <1>6, <1>7, <1>8, <1>9, <1>10, <1>11, <1>12, <1>13, <1>14, <1>15,
     <1>16, <1>17 DEF Next

LEMMA LossesNext ==
  ASSUME TypeOK, LossesInThePast, [Next]_vars
  PROVE  LossesInThePast'
<1>1. CASE Tick
  <2>1. now \in Times /\ now' \in Times /\ now' > now /\ last_loss' = last_loss
    BY <1>1 DEF Tick, history, TypeOK
  <2>2. \A s \in Symbols : last_loss[s] \in Times \union {Never}
    BY DEF TypeOK
  <2>3. \A x \in Times : x <= now => x <= now'
    BY <2>1, ClockAssumption
  <2>4. QED
    BY <2>1, <2>2, <2>3 DEF LossesInThePast
<1>2. ASSUME NEW symbol \in Symbols, NEW pnl \in Pnls, NEW saved \in BOOLEAN,
             RecordTradeClosed(symbol, pnl, saved)
      PROVE  LossesInThePast'
  BY <1>2, ClockAssumption DEF RecordTradeClosed, WithLoss, LossesInThePast, TypeOK
<1>3. CASE UNCHANGED <<now, last_loss>>
  BY <1>3 DEF LossesInThePast
<1>4. QED
  BY <1>1, <1>2, <1>3
     DEF Next, vars, history, Start, StartFails, StopRequested, Shutdown, Crash, Evaluate,
         OrderPlaced, OrderFailed, DailySummary, ResumeLoad, ResumeSave, FileCorrupted

LEMMA ResumeNext ==
  ASSUME TypeOK, KeysInThePast, ResumeReadsFile, [Next]_vars
  PROVE  ResumeReadsFile'
<1>1. CASE Tick
  BY <1>1, ClockAssumption DEF Tick, ResumeReadsFile, TypeOK
<1>2. CASE ResumeLoad
  <2>1. file \in RiskStates
    BY <1>2, LoadedType DEF ResumeLoad
  <2>2. file \notin {NoFile, Corrupt}
    BY <2>1, InputAssumption
  <2>3. cli'.read = file /\ cli'.state = Roll(file, now)
    BY <1>2, <2>2 DEF ResumeLoad, Loaded
  <2>4. Stamped(file.day_key, file.week_key, now) /\ now \in Times /\ now <= now
    BY <2>1, ClockAssumption DEF KeysInThePast, TypeOK
  <2>5. QED
    BY <1>2, <2>3, <2>4 DEF ResumeLoad, ResumeReadsFile
<1>3. CASE ResumeSave
  BY <1>3 DEF ResumeSave, ResumeReadsFile
<1>4. CASE UNCHANGED <<now, cli>>
  BY <1>4 DEF ResumeReadsFile
<1>5. QED
  BY <1>1, <1>2, <1>3, <1>4
     DEF Next, vars, Start, StartFails, StopRequested, Shutdown, Crash, Evaluate, OrderPlaced,
         OrderFailed, RecordTradeClosed, DailySummary, FileCorrupted

-----------------------------------------------------------------------------
(* Rolled states keep recording what happened *)

LEMMA RollIdle ==
  ASSUME NEW s \in RiskStates, NEW t \in Times, s.day_key = DayOf[t], s.week_key = WeekOf[t]
  PROVE  Roll(s, t) = s
BY DEF RiskStates, Roll

\* With the file and the clock as they were, so is what a restart would find.
LEMMA LoadedFromState ==
  ASSUME TypeOK, NEW s \in RiskStates, s.day_key = Today, s.week_key = ThisWeek,
         file' = s, now' = now
  PROVE  Loaded' = s
<1>1. s \notin {NoFile, Corrupt}
  BY InputAssumption
<1>2. QED
  BY <1>1, RollIdle DEF Loaded, TypeOK, Today, ThisWeek

LEMMA FaithfulTick ==
  ASSUME TypeOK, Tick, KeysInThePast, NEW s \in RiskStates \union {RiskStateDefault},
         s.day_key <= Today, s.week_key <= ThisWeek, Faithful(Roll(s, now))
  PROVE  Faithful(Roll(s, now))' /\ Roll(s, now') \in RiskStates /\ s' = s
<1>1. /\ now \in Times /\ now' \in Times /\ now <= now'
      /\ Today \in Nat /\ ThisWeek \in Nat /\ Today' \in Nat /\ ThisWeek' \in Nat
      /\ Today <= Today' /\ ThisWeek <= ThisWeek'
  BY ClockAssumption DEF Tick, TypeOK, Today, ThisWeek
<1>2. /\ ledger.day \in Nat \union {NoKey} /\ ledger.day <= Today
      /\ ledger.week \in Nat \union {NoKey} /\ ledger.week <= ThisWeek
      /\ tripped.day \in Nat \union {NoKey} /\ tripped.day <= Today
  BY <1>1, ClockAssumption DEF TypeOK, KeysInThePast, Stamped, Today, ThisWeek, NoKey
<1>3. UNCHANGED <<ledger, last_loss, tripped>>
  BY DEF Tick, history
<1>4. s.day_key \in Nat \union {NoKey} /\ s.week_key \in Nat \union {NoKey}
  BY DEF RiskStates, RiskStateDefault
<1>5. Today' = Today => Roll(s, now') = Roll(s, now) /\ ThisWeek' = ThisWeek
  BY <1>1, ClockAssumption DEF Roll, Today, ThisWeek
<1>6. CASE Today' = Today
  BY <1>3, <1>5, <1>6, <1>1, RollType DEF Faithful, LostToday, LostThisWeek
<1>7. CASE Today' # Today
  <2>1. Today < Today'
    BY <1>1, <1>7
  <2>2. /\ ledger.day # Today' /\ tripped.day # Today' /\ s.day_key # Today'
    BY <1>2, <1>4, <1>1, <2>1 DEF NoKey
  <2>3. Roll(s, now').daily_pnl = 0 /\ Roll(s, now').last_loss_at = Roll(s, now).last_loss_at
    BY <2>2 DEF Roll, Today
  <2>4. Roll(s, now').weekly_pnl = IF ledger.week = ThisWeek' THEN ledger.weekly ELSE 0
    <3>1. CASE ThisWeek' = ThisWeek
      BY <3>1 DEF Roll, Faithful, LostThisWeek, ThisWeek
    <3>2. CASE ThisWeek' # ThisWeek
      <4>1. ThisWeek < ThisWeek'
        BY <1>1, <3>2
      <4>2. ledger.week # ThisWeek' /\ s.week_key # ThisWeek'
        BY <1>1, <1>2, <1>4, <4>1 DEF NoKey
      <4>3. QED
        BY <4>2 DEF Roll, ThisWeek
    <3>3. QED
      BY <3>1, <3>2
  <2>5. QED
    BY <1>1, <1>3, <2>2, <2>3, <2>4, RollType DEF Faithful, LostToday, LostThisWeek
<1>8. QED
  BY <1>6, <1>7

-----------------------------------------------------------------------------
(* Preservation of Recorded *)

LEMMA RecordedTick ==
  ASSUME TypeOK, KeysInThePast, Recorded, Tick
  PROVE  Recorded'
<1> SUFFICES ASSUME durable'
             PROVE  /\ Alive' => Faithful(Roll(state, now))'
                    /\ process' # "unsaved" => Faithful(Loaded)'
  BY DEF Recorded
<1>1. /\ UNCHANGED <<state, file, process, durable>> /\ (Alive' <=> Alive) /\ durable
      /\ Today \in Nat /\ ThisWeek \in Nat
  BY ClockAssumption DEF Tick, memory, history, Alive, TypeOK, Today, ThisWeek
<1>2. ASSUME NEW s, Stamped(s.day_key, s.week_key, now)
      PROVE  s.day_key <= Today /\ s.week_key <= ThisWeek
  BY <1>2, ClockAssumption DEF Stamped, TypeOK, Today, ThisWeek
<1>3. ASSUME Alive PROVE Faithful(Roll(state, now))'
  <2>1. state \in RiskStates /\ Faithful(Roll(state, now))
    BY <1>1, <1>3 DEF Recorded, TypeOK
  <2>2. state.day_key <= Today /\ state.week_key <= ThisWeek
    BY <1>2, <1>3 DEF KeysInThePast
  <2>3. Roll(state, now') = Roll(state', now')
    BY <1>1
  <2>4. QED
    BY <1>1, <2>1, <2>2, <2>3, FaithfulTick DEF Faithful, LostToday, LostThisWeek, Today, ThisWeek
<1>4. ASSUME process # "unsaved" PROVE Faithful(Loaded)'
  <2> DEFINE f == IF file \in {NoFile, Corrupt} THEN RiskStateDefault ELSE file
  <2>1. f \in RiskStates \union {RiskStateDefault} /\ Loaded = Roll(f, now)
    BY DEF Loaded, TypeOK
  <2>2. f.day_key <= Today /\ f.week_key <= ThisWeek
    <3>1. CASE file \in {NoFile, Corrupt}
      BY <1>1, <3>1 DEF RiskStateDefault, NoKey
    <3>2. CASE file \notin {NoFile, Corrupt}
      BY <1>2, <3>2 DEF KeysInThePast, TypeOK
    <3>3. QED
      BY <3>1, <3>2
  <2>3. Faithful(Roll(f, now))
    BY <1>1, <1>4, <2>1 DEF Recorded
  <2>4. Loaded' = Roll(f, now')
    BY <1>1 DEF Loaded
  <2> HIDE DEF f
  <2>5. QED
    BY <2>1, <2>2, <2>3, <2>4, FaithfulTick DEF Faithful, LostToday, LostThisWeek, Today, ThisWeek
<1>5. QED
  BY <1>1, <1>3, <1>4

\* An action that books nothing keeps the record when what it leaves in memory, and on
\* disk, is either of the two states that were faithful before.
LEMMA RecordedKept ==
  ASSUME Recorded, durable' => durable, UNCHANGED <<now, ledger, last_loss, tripped>>,
         Alive' => \/ Alive /\ Roll(state, now)' = Roll(state, now)
                   \/ process # "unsaved" /\ Roll(state, now)' = Loaded,
         process' # "unsaved" => \/ Alive /\ Loaded' = Roll(state, now)
                                 \/ process # "unsaved" /\ Loaded' = Loaded
  PROVE  Recorded'
<1> SUFFICES ASSUME durable'
             PROVE  /\ Alive' => Faithful(Roll(state, now))'
                    /\ process' # "unsaved" => Faithful(Loaded)'
  BY DEF Recorded
<1>1. /\ Alive => Faithful(Roll(state, now))
      /\ process # "unsaved" => Faithful(Loaded)
  BY DEF Recorded
<1> DEFINE r == Roll(state, now)
           l == Loaded
<1>2. Today' = Today /\ ThisWeek' = ThisWeek
  BY DEF Today, ThisWeek
<1>3. Alive' => (r' = r /\ Faithful(r)) \/ (r' = l /\ Faithful(l))
  BY <1>1
<1>4. process' # "unsaved" => (l' = r /\ Faithful(r)) \/ (l' = l /\ Faithful(l))
  BY <1>1
<1> HIDE DEF r, l
<1>5. /\ Alive' => Faithful(r)'
      /\ process' # "unsaved" => Faithful(l)'
  BY <1>2, <1>3, <1>4 DEF Faithful, LostToday, LostThisWeek, Halted
<1>6. QED
  BY <1>5 DEF r, l

\* The booking of a trade: what is added to the state is added to the history.
LEMMA RecordedClosed ==
  ASSUME TypeOK, KeysInThePast, Recorded,
         NEW symbol \in Symbols, NEW pnl \in Pnls, NEW saved \in BOOLEAN,
         RecordTradeClosed(symbol, pnl, saved)
  PROVE  Recorded'
<1> DEFINE r == Roll(state, now)
<1>1. /\ Alive /\ state' \in RiskStates /\ pnl \in Int /\ reference_equity \in Int
      /\ r \in RiskStates /\ r.day_key = Today /\ r.week_key = ThisWeek
      /\ state'.day_key = Today /\ state'.week_key = ThisWeek
      /\ state'.daily_pnl = r.daily_pnl + pnl
      /\ state'.weekly_pnl = r.weekly_pnl + pnl
      /\ state'.last_loss_at = WithLoss(r.last_loss_at, symbol, now, pnl)
      /\ state'.halt_reason = HaltReasonAfter(r.halt_reason, r.daily_pnl + pnl,
                                              r.weekly_pnl + pnl, reference_equity)
  BY ClosedNow, RolledNow
<1>2. now' = now /\ durable' = durable /\ Today' = Today /\ ThisWeek' = ThisWeek
      /\ now \in Times /\ Today = DayOf[now] /\ ThisWeek = WeekOf[now]
  BY DEF RecordTradeClosed, Today, ThisWeek, TypeOK
<1>3. durable => Faithful(r)
  BY <1>1 DEF Recorded
<1> HIDE DEF r
<1>4. /\ ledger' = Booked(ledger, now, pnl)
      /\ last_loss' = WithLoss(last_loss, symbol, now, pnl)
      /\ tripped' = Tripped(Booked(ledger, now, pnl), reference_equity)
  BY DEF RecordTradeClosed
<1>5. /\ ledger'.day = Today /\ ledger'.daily = pnl + LostToday
      /\ ledger'.week = ThisWeek /\ ledger'.weekly = pnl + LostThisWeek
  BY <1>2, <1>4 DEF Booked, LostToday, LostThisWeek
<1>6. LostToday' = pnl + LostToday /\ LostThisWeek' = pnl + LostThisWeek
  BY <1>2, <1>5 DEF LostToday, LostThisWeek
<1>7. LostToday \in Int /\ LostThisWeek \in Int
  BY DEF LostToday, LostThisWeek, TypeOK
<1>8. durable => /\ state'.daily_pnl = LostToday' /\ state'.weekly_pnl = LostThisWeek'
                 /\ state'.last_loss_at = last_loss'
  BY <1>1, <1>3, <1>4, <1>6, <1>7 DEF Faithful
<1>9. durable /\ tripped'.day = Today => Halted(state')
  <2> SUFFICES ASSUME durable, tripped'.day = Today PROVE Halted(state')
    OBVIOUS
  <2> DEFINE reached == /\ reference_equity > 0
                        /\ \/ Reached(ledger'.daily, MaxDailyLoss, reference_equity)
                           \/ Reached(ledger'.weekly, MaxWeeklyLoss, reference_equity)
  <2>1. tripped'.day = IF reached THEN ledger'.day ELSE tripped.day
    BY <1>4 DEF Tripped
  <2>2. /\ ledger'.daily = r.daily_pnl + pnl /\ ledger'.weekly = r.weekly_pnl + pnl
    BY <1>1, <1>3, <1>5, <1>7 DEF Faithful, RiskStates
  <2>3. CASE reached
    BY <1>1, <2>2, <2>3 DEF HaltReasonAfter, Halted, DailyLossLimit, WeeklyLossLimit, NoHalt
  <2>4. CASE ~reached
    <3>1. r.halt_reason # NoHalt
      BY <1>3, <2>1, <2>4 DEF Faithful, Halted
    <3>2. QED
      BY <1>1, <3>1 DEF HaltReasonAfter, Halted, DailyLossLimit, WeeklyLossLimit, NoHalt
  <2>5. QED
    BY <2>3, <2>4
<1>10. durable => Faithful(state)'
  BY <1>2, <1>8, <1>9 DEF Faithful
<1>11. Roll(state', now') = state'
  BY <1>1, <1>2, RollIdle
<1>12. process' # "unsaved" => Loaded' = state'
  <2>1. process' # "unsaved" => file' = state'
    BY DEF RecordTradeClosed
  <2> DEFINE c == state'
  <2> HIDE DEF c
  <2>2. ASSUME NEW s \in RiskStates, s.day_key = Today, s.week_key = ThisWeek, file' = s
        PROVE  Loaded' = s
    BY <1>2, <2>2, LoadedFromState
  <2>3. QED
    BY <1>1, <2>1, <2>2
<1>13. QED
  BY <1>2, <1>10, <1>11, <1>12 DEF Recorded

\* Lifting a halt leaves the totals alone.
LEMMA ResumedState ==
  ASSUME TypeOK, KeysInThePast, ResumeReadsFile, ResumeSave, cli.read = file
  PROVE  /\ Loaded'.daily_pnl = Loaded.daily_pnl
         /\ Loaded'.weekly_pnl = Loaded.weekly_pnl
         /\ Loaded'.daily_trades = Loaded.daily_trades
         /\ Loaded'.last_loss_at = Loaded.last_loss_at
<1>1. PICK u \in Times : /\ u <= now /\ cli.state = Roll(cli.read, u)
                         /\ Stamped(cli.read.day_key, cli.read.week_key, u)
  BY DEF ResumeSave, ResumeReadsFile
<1>2. /\ cli.read \in RiskStates /\ cli.state \in RiskStates /\ now \in Times /\ now' = now
  BY DEF ResumeSave, TypeOK
<1> DEFINE s == cli.state
           f == [s EXCEPT !.halt_reason = NoHalt]
<1>3. file' = f /\ s \in RiskStates
  BY <1>2 DEF ResumeSave
<1>4. Roll(s, now) = Roll(file, now)
  BY <1>1, <1>2, RollTwice
<1>5. Loaded = Roll(file, now)
  BY <1>2, InputAssumption DEF Loaded
<1> HIDE DEF s
<1>6. /\ f \in RiskStates /\ f.day_key = s.day_key /\ f.week_key = s.week_key
      /\ f.daily_pnl = s.daily_pnl /\ f.weekly_pnl = s.weekly_pnl
      /\ f.daily_trades = s.daily_trades /\ f.last_loss_at = s.last_loss_at
  BY <1>3 DEF RiskStates, HaltReasons
<1> HIDE DEF f
<1>7. f \notin {NoFile, Corrupt}
  BY <1>6, InputAssumption
<1>8. Loaded' = Roll(f, now)
  BY <1>2, <1>3, <1>7 DEF Loaded
<1>9. QED
  BY <1>4, <1>5, <1>6, <1>8 DEF Roll

LEMMA RecordedNext ==
  ASSUME TypeOK, TypeOK', KeysInThePast, ResumeReadsFile, Recorded, [Next]_vars
  PROVE  Recorded'
<1> USE InputAssumption
<1>1. /\ Loaded \in RiskStates /\ Loaded.day_key = Today /\ Loaded.week_key = ThisWeek
      /\ Roll(state, now) \in RiskStates
      /\ Roll(state, now).day_key = Today /\ Roll(state, now).week_key = ThisWeek
  BY RolledNow
<1>2. /\ Roll(Loaded, now) = Loaded
      /\ Roll(Roll(state, now), now) = Roll(state, now)
  BY <1>1, RollIdle DEF TypeOK, Today, ThisWeek
<1>3. ASSUME NEW s \in RiskStates, s.day_key = Today, s.week_key = ThisWeek,
             file' = s, now' = now
      PROVE  Loaded' = s
  BY <1>3, LoadedFromState
<1>4. file' = file /\ now' = now => Loaded' = Loaded
  BY DEF Loaded
<1>5. CASE Tick
  BY <1>5, RecordedTick
<1>6. CASE Start
  BY <1>6, <1>2, <1>4, RecordedKept DEF Start, history
<1>7. CASE StartFails
  <2>1. Loaded' = Loaded
    BY <1>7, <1>1, <1>3 DEF StartFails
  <2>2. QED
    BY <1>7, <2>1, RecordedKept DEF StartFails, Alive, memory, history
<1>8. CASE StopRequested
  BY <1>8, <1>4, RecordedKept DEF StopRequested, Alive, memory, history
<1>9. CASE Shutdown
  <2>1. Loaded' = Roll(state, now)
    BY <1>9, <1>1, <1>3 DEF Shutdown
  <2>2. QED
    BY <1>9, <2>1, RecordedKept DEF Shutdown, Alive, history
<1>10. CASE Crash
  <2>1. process' = "down" /\ (durable' => durable /\ process # "unsaved") /\ Loaded' = Loaded
    BY <1>10, <1>4 DEF Crash
  <2>2. UNCHANGED <<now, ledger, last_loss, tripped>>
    BY <1>10 DEF Crash
  <2>3. CASE durable'
    BY <2>1, <2>2, <2>3, RecordedKept DEF Alive
  <2>4. CASE ~durable'
    BY <2>4 DEF Recorded
  <2>5. QED
    BY <2>3, <2>4
<1>11. ASSUME NEW o \in Requests, Evaluate(o) PROVE Recorded'
  BY <1>11, <1>2, <1>4, RecordedKept DEF Evaluate, Alive, history
<1>12. CASE OrderPlaced
  <2>1. /\ UNCHANGED <<now, process, file, ledger, last_loss, tripped, durable>>
        /\ Loaded' = Loaded
    BY <1>12, <1>4 DEF OrderPlaced
  <2>2. CASE in_flight.reduce_only
    BY <1>12, <2>1, <2>2, RecordedKept DEF OrderPlaced, Alive
  <2>3. CASE ~in_flight.reduce_only
    <3> DEFINE r == Roll(state, now)
               s == OrderSubmitted(state, now)
    <3>1. s = [r EXCEPT !.daily_trades = @ + 1] /\ state' = s /\ r \in RiskStates
      BY <1>1, <1>12, <2>3 DEF OrderSubmitted, OrderPlaced
    <3>2. /\ s \in RiskStates /\ s.day_key = Today /\ s.week_key = ThisWeek
          /\ s.daily_pnl = r.daily_pnl /\ s.weekly_pnl = r.weekly_pnl
          /\ s.halt_reason = r.halt_reason /\ s.last_loss_at = r.last_loss_at
      <4> HIDE DEF r, s
      <4>1. r.day_key = Today /\ r.week_key = ThisWeek
        BY <1>1 DEF r
      <4>2. QED
        BY <3>1, <4>1 DEF RiskStates
    <3>3. Roll(state', now') = s
      BY <2>1, <3>1, <3>2, RollIdle DEF TypeOK, Today, ThisWeek
    <3>4. durable => Faithful(r) /\ (process # "unsaved" => Faithful(Loaded))
      BY <1>12 DEF OrderPlaced, Recorded, TypeOK, Alive
    <3>5. durable => Faithful(s)
      <4> HIDE DEF r, s
      <4>1. QED
        BY <3>2, <3>4 DEF Faithful, Halted
    <3> HIDE DEF r, s
    <3>6. QED
      BY <2>1, <3>3, <3>4, <3>5
         DEF Recorded, Faithful, LostToday, LostThisWeek, Today, ThisWeek, Halted
  <2>4. QED
    BY <2>2, <2>3
<1>13. CASE OrderFailed
  BY <1>13, <1>4, RecordedKept DEF OrderFailed, Alive, history
<1>14. ASSUME NEW symbol \in Symbols, NEW pnl \in Pnls, NEW saved \in BOOLEAN,
              RecordTradeClosed(symbol, pnl, saved)
       PROVE  Recorded'
  BY <1>14, RecordedClosed
<1>15. CASE DailySummary
  BY <1>15, <1>2, <1>4, RecordedKept DEF DailySummary, Alive, history
<1>16. CASE ResumeLoad
  BY <1>16, <1>4, RecordedKept DEF ResumeLoad, Alive, memory, history
<1>17. CASE ResumeSave
  <2>1. /\ UNCHANGED <<now, process, state, ledger, last_loss>> /\ tripped'.day = NoKey
        /\ durable' => durable /\ cli.read = file
    BY <1>17 DEF ResumeSave, memory
  <2>2. Today \in Nat /\ Today' = Today /\ ThisWeek' = ThisWeek /\ tripped'.day # Today'
    BY <2>1, ClockAssumption DEF TypeOK, Today, ThisWeek, NoKey
  <2>3. durable' /\ Alive => Faithful(Roll(state, now))'
    BY <2>1, <2>2 DEF Recorded, Faithful, LostToday, LostThisWeek, Alive
  <2>4. durable' /\ process # "unsaved" => Faithful(Loaded)'
    BY <1>17, <2>1, <2>2, ResumedState DEF Recorded, Faithful, LostToday, LostThisWeek
  <2>5. QED
    BY <2>1, <2>3, <2>4 DEF Recorded, Alive
<1>18. CASE FileCorrupted
  BY <1>18 DEF FileCorrupted, Recorded
<1>19. CASE UNCHANGED vars
  BY <1>19, <1>4, RecordedKept DEF vars, Alive, memory, history
<1>20. QED
  BY <1>5, <1>6, <1>7, <1>8, <1>9, <1>10, <1>11, <1>12, <1>13, <1>14, <1>15,
     <1>16, <1>17, <1>18, <1>19 DEF Next

-----------------------------------------------------------------------------
(* The count of the day's entries *)

LEMMA CountedNext ==
  ASSUME TypeOK, TypeOK', KeysInThePast, ResumeReadsFile, Counted, [Next]_vars
  PROVE  Counted'
<1> USE InputAssumption
<1>1. /\ Loaded \in RiskStates /\ Loaded.day_key = Today /\ Loaded.week_key = ThisWeek
      /\ Roll(state, now) \in RiskStates
      /\ Roll(state, now).day_key = Today /\ Roll(state, now).week_key = ThisWeek
  BY RolledNow
<1>2. /\ Roll(Loaded, now) = Loaded
      /\ Roll(Roll(state, now), now) = Roll(state, now)
  BY <1>1, RollIdle DEF TypeOK, Today, ThisWeek
<1>3. ASSUME NEW s \in RiskStates, s.day_key = Today, s.week_key = ThisWeek,
             file' = s, now' = now
      PROVE  Loaded' = s
  BY <1>3, LoadedFromState
<1>4. file' = file /\ now' = now => Loaded' = Loaded
  BY DEF Loaded
<1>5. ASSUME UNCHANGED <<now, placed, crash_day>>, durable' => durable,
             Known'.daily_trades = Known.daily_trades
      PROVE  Counted'
  BY <1>5 DEF Counted, PlacedToday, Today
<1>6. CASE Tick
  <2> SUFFICES ASSUME durable', crash_day' # Today' PROVE Known'.daily_trades = PlacedToday'
    BY DEF Counted
  <2>1. /\ now \in Times /\ now' \in Times /\ now <= now'
        /\ UNCHANGED <<state, file, process, placed, crash_day, durable>> /\ (Alive' <=> Alive)
    <3>1. now \in Times /\ now' \in Times /\ now <= now'
      <4>1. now \in Times /\ now' \in Times /\ now' > now
        BY <1>6 DEF Tick, TypeOK
      <4>2. QED
        BY <4>1, ClockAssumption
    <3>2. UNCHANGED <<state, file, process, placed, crash_day, durable>>
      BY <1>6 DEF Tick, memory, history
    <3>3. Alive' <=> Alive
      BY <3>2 DEF Alive
    <3>4. QED
      BY <3>1, <3>2, <3>3
  <2>2. Today \in Nat /\ Today' \in Nat /\ Today <= Today' /\ placed.day \in Nat \union {NoKey}
    BY <2>1, ClockAssumption DEF Today, TypeOK
  <2> DEFINE s == IF Alive THEN state
                  ELSE IF file \in {NoFile, Corrupt} THEN RiskStateDefault ELSE file
  <2>3. Known = Roll(s, now) /\ Known' = Roll(s, now')
    BY <2>1 DEF Known, Loaded
  <2>4. s.day_key <= Today /\ s.day_key \in Nat \union {NoKey}
    <3>1. ASSUME NEW r, Stamped(r.day_key, r.week_key, now)
          PROVE  r.day_key <= Today /\ r.day_key \in Nat
      BY <3>1, <2>1, ClockAssumption DEF Stamped, Today
    <3>2. CASE s = RiskStateDefault
      BY <2>2, <3>2 DEF RiskStateDefault, NoKey
    <3>3. CASE s # RiskStateDefault
      <4>1. Stamped(s.day_key, s.week_key, now)
        BY <3>3 DEF KeysInThePast, TypeOK
      <4> HIDE DEF s
      <4>2. QED
        BY <3>1, <4>1
    <3>4. QED
      BY <3>2, <3>3
  <2> HIDE DEF s
  <2>5. CASE Today' = Today
    BY <2>1, <2>3, <2>5 DEF Counted, Roll, PlacedToday, Today
  <2>6. CASE Today' # Today
    <3>1. Today < Today' /\ s.day_key # Today' /\ placed.day # Today'
      BY <2>2, <2>4, <2>6 DEF KeysInThePast, NoKey
    <3>2. QED
      BY <2>1, <2>3, <3>1 DEF Roll, PlacedToday, Today
  <2>7. QED
    BY <2>5, <2>6
<1>7. CASE Start
  BY <1>7, <1>2, <1>4, <1>5 DEF Start, history, Known, Alive
<1>8. CASE StartFails
  <2>1. Loaded' = Loaded
    BY <1>8, <1>1, <1>3 DEF StartFails
  <2>2. QED
    BY <1>8, <1>5, <2>1 DEF StartFails, history, memory, Known, Alive
<1>9. CASE StopRequested
  BY <1>9, <1>4, <1>5 DEF StopRequested, history, memory, Known, Alive
<1>10. CASE Shutdown
  <2>1. Loaded' = Roll(state, now)
    BY <1>10, <1>1, <1>3 DEF Shutdown
  <2>2. QED
    BY <1>10, <1>5, <2>1 DEF Shutdown, history, Known, Alive
<1>11. CASE Crash
  BY <1>11 DEF Crash, Counted, Today
<1>12. ASSUME NEW o \in Requests, Evaluate(o) PROVE Counted'
  BY <1>12, <1>2, <1>4, <1>5 DEF Evaluate, history, Known, Alive
<1>13. CASE OrderPlaced
  <2>1. UNCHANGED <<now, process, file, durable, crash_day>> /\ Alive
    BY <1>13 DEF OrderPlaced, TypeOK, Alive
  <2>2. CASE in_flight.reduce_only
    BY <1>13, <1>4, <1>5, <2>1, <2>2 DEF OrderPlaced, Known, Alive
  <2>3. CASE ~in_flight.reduce_only
    <3> DEFINE r == Roll(state, now)
               s == OrderSubmitted(state, now)
    <3>1. s = [r EXCEPT !.daily_trades = @ + 1] /\ state' = s /\ r \in RiskStates
      BY <1>1, <1>13, <2>3 DEF OrderSubmitted, OrderPlaced
    <3>2. /\ s \in RiskStates /\ s.day_key = Today /\ s.week_key = ThisWeek
          /\ s.daily_trades = r.daily_trades + 1
      <4> HIDE DEF r, s
      <4>1. r.day_key = Today /\ r.week_key = ThisWeek
        BY <1>1 DEF r
      <4>2. QED
        BY <3>1, <4>1 DEF RiskStates
    <3>3. Roll(state', now') = s
      BY <2>1, <3>1, <3>2, RollIdle DEF TypeOK, Today, ThisWeek
    <3>4. Known = r
      BY <2>1 DEF Known
    <3> HIDE DEF r, s
    <3>5. Known' = s
      BY <2>1, <3>3 DEF Known, Alive
    <3>6. PlacedToday' = PlacedToday + 1 /\ Today' = Today
      BY <1>13, <2>1, <2>3 DEF OrderPlaced, PlacedToday, Today
    <3>7. QED
      BY <2>1, <3>2, <3>4, <3>5, <3>6 DEF Counted
  <2>4. QED
    BY <2>2, <2>3
<1>14. CASE OrderFailed
  BY <1>14, <1>4, <1>5 DEF OrderFailed, history, Known, Alive
<1>15. ASSUME NEW symbol \in Symbols, NEW pnl \in Pnls, NEW saved \in BOOLEAN,
              RecordTradeClosed(symbol, pnl, saved)
       PROVE  Counted'
  <2>1. /\ Alive /\ state' \in RiskStates /\ state'.day_key = Today
        /\ state'.week_key = ThisWeek /\ state'.daily_trades = Roll(state, now).daily_trades
    BY <1>15, ClosedNow
  <2>2. UNCHANGED <<now, placed, crash_day, durable>> /\ Alive'
    BY <1>15 DEF RecordTradeClosed, Alive
  <2>3. Roll(state', now') = state'
    BY <2>1, <2>2, RollIdle DEF TypeOK, Today, ThisWeek
  <2>4. QED
    BY <1>5, <2>1, <2>2, <2>3 DEF Known
<1>16. CASE DailySummary
  BY <1>16, <1>2, <1>4, <1>5 DEF DailySummary, history, Known, Alive
<1>17. CASE ResumeLoad
  BY <1>17, <1>4, <1>5 DEF ResumeLoad, history, memory, Known, Alive
<1>18. CASE ResumeSave
  <2>1. /\ UNCHANGED <<now, process, state, placed, crash_day>>
        /\ durable' => durable /\ cli.read = file
    BY <1>18 DEF ResumeSave, memory
  <2>2. cli.read = file => Known'.daily_trades = Known.daily_trades
    BY <1>18, <2>1, ResumedState DEF Known, Alive
  <2>3. QED
    BY <2>1, <2>2 DEF Counted, PlacedToday, Today
<1>19. CASE FileCorrupted
  BY <1>19 DEF FileCorrupted, Counted
<1>20. CASE UNCHANGED vars
  BY <1>20, <1>4, <1>5 DEF vars, memory, history, Known, Alive
<1>21. QED
  BY <1>6, <1>7, <1>8, <1>9, <1>10, <1>11, <1>12, <1>13, <1>14, <1>15,
     <1>16, <1>17, <1>18, <1>19, <1>20 DEF Next

LEMMA CappedNext ==
  ASSUME TypeOK, TypeOK', ResumeReadsFile, TradesCapped, OneInFlight, [Next]_vars
  PROVE  TradesCapped' /\ OneInFlight'
<1> USE InputAssumption, LimitAssumption
<1>1. /\ Roll(state, now) \in RiskStates /\ Roll(state, now).daily_trades <= state.daily_trades
      /\ Loaded \in RiskStates /\ Loaded.daily_trades <= MaxDailyTrades
      /\ (Halted(Loaded) => file \in RiskStates)
      /\ state.daily_trades \in Nat
  <2>1. /\ Roll(state, now) \in RiskStates
        /\ Roll(state, now).daily_trades <= state.daily_trades
    BY RollType DEF TypeOK
  <2>2. Loaded.daily_trades <= MaxDailyTrades
    <3>1. CASE file \in {NoFile, Corrupt}
      BY <3>1 DEF Loaded, Roll, RiskStateDefault
    <3>2. CASE file \notin {NoFile, Corrupt}
      <4>1. file \in RiskStates /\ file.daily_trades <= MaxDailyTrades
        BY <3>2 DEF TypeOK, TradesCapped
      <4>2. Loaded = Roll(file, now) /\ file.daily_trades \in Nat
        BY <3>2, <4>1 DEF Loaded, RiskStates
      <4>3. Roll(file, now) \in RiskStates /\ Roll(file, now).daily_trades <= file.daily_trades
        BY <4>1, RollType DEF TypeOK
      <4>4. Roll(file, now).daily_trades \in Nat
        BY <4>3 DEF RiskStates
      <4>5. QED
        BY <4>1, <4>2, <4>3, <4>4
    <3>3. QED
      BY <3>1, <3>2
  <2>3. state.daily_trades \in Nat
    BY DEF TypeOK, RiskStates, RiskStateDefault
  <2>4. QED
    BY <2>1, <2>2, <2>3, LoadedType
<1>2. Roll(state, now).daily_trades \in Nat /\ Roll(state, now).daily_trades <= MaxDailyTrades
  BY <1>1 DEF RiskStates, TradesCapped
<1>3. RiskStateDefault.daily_trades <= MaxDailyTrades
  BY DEF RiskStateDefault
<1>4. CASE Tick
  BY <1>4 DEF Tick, TradesCapped, OneInFlight, memory
<1>5. CASE Start
  BY <1>5, <1>1 DEF Start, TradesCapped, OneInFlight, TypeOK, Alive, history
<1>6. CASE StartFails
  BY <1>6, <1>1 DEF StartFails, TradesCapped, OneInFlight, memory
<1>7. CASE StopRequested
  BY <1>7 DEF StopRequested, TradesCapped, OneInFlight, memory
<1>8. CASE Shutdown
  BY <1>8, <1>2, <1>3 DEF Shutdown, Forgotten, TradesCapped, OneInFlight
<1>9. CASE Crash
  BY <1>9, <1>3 DEF Crash, Forgotten, TradesCapped, OneInFlight
<1>10. ASSUME NEW o \in Requests, Evaluate(o) PROVE TradesCapped' /\ OneInFlight'
  <2>1. state' = Roll(state, now) /\ in_flight' = IF Approves(state', now, o) THEN o ELSE None
    BY <1>10 DEF Evaluate
  <2>2. TradesCapped'
    BY <1>10, <1>2, <2>1 DEF Evaluate, TradesCapped
  <2>3. in_flight' # None /\ ~in_flight'.reduce_only => state'.daily_trades < MaxDailyTrades
    BY <2>1 DEF Approves
  <2>4. QED
    BY <2>2, <2>3 DEF OneInFlight
<1>11. CASE OrderPlaced
  <2>1. OneInFlight' /\ UNCHANGED <<file, cli>>
    BY <1>11 DEF OrderPlaced, OneInFlight
  <2>2. CASE in_flight.reduce_only
    BY <1>11, <2>1, <2>2 DEF OrderPlaced, TradesCapped
  <2>3. CASE ~in_flight.reduce_only
    <3> DEFINE r == Roll(state, now)
    <3>1. state' = [r EXCEPT !.daily_trades = @ + 1] /\ r \in RiskStates
      BY <1>1, <1>11, <2>3 DEF OrderSubmitted, OrderPlaced
    <3>2. state.daily_trades < MaxDailyTrades
      BY <1>11, <2>3 DEF OrderPlaced, OneInFlight
    <3>3. r.daily_trades \in Nat /\ r.daily_trades <= state.daily_trades
      BY <1>1, <1>2
    <3> HIDE DEF r
    <3>4. state'.daily_trades = r.daily_trades + 1
      BY <3>1 DEF RiskStates
    <3>5. QED
      BY <1>1, <2>1, <3>2, <3>3, <3>4 DEF TradesCapped
  <2>4. QED
    BY <2>2, <2>3
<1>12. CASE OrderFailed
  BY <1>12 DEF OrderFailed, TradesCapped, OneInFlight
<1>13. ASSUME NEW symbol \in Symbols, NEW pnl \in Pnls, NEW saved \in BOOLEAN,
              RecordTradeClosed(symbol, pnl, saved)
       PROVE  TradesCapped' /\ OneInFlight'
  <2>1. state'.daily_trades <= MaxDailyTrades
    BY <1>13, <1>2, ClosedNow
  <2>2. (file' = state' \/ file' = file) /\ UNCHANGED <<cli, in_flight>> /\ in_flight = None
    BY <1>13 DEF RecordTradeClosed
  <2>3. QED
    BY <2>1, <2>2 DEF TradesCapped, OneInFlight
<1>14. CASE DailySummary
  BY <1>14, <1>2 DEF DailySummary, TradesCapped, OneInFlight
<1>15. CASE ResumeLoad
  BY <1>15, <1>1 DEF ResumeLoad, TradesCapped, OneInFlight, memory
<1>16. CASE ResumeSave
  <2>1. file'.daily_trades = cli.state.daily_trades
    BY <1>16 DEF ResumeSave, TypeOK, RiskStates
  <2>2. QED
    BY <1>16, <2>1 DEF ResumeSave, TradesCapped, OneInFlight, memory
<1>17. CASE FileCorrupted
  BY <1>17 DEF FileCorrupted, TradesCapped, OneInFlight, memory
<1>18. CASE UNCHANGED vars
  BY <1>18 DEF vars, memory, TradesCapped, OneInFlight
<1>19. QED
  BY <1>4, <1>5, <1>6, <1>7, <1>8, <1>9, <1>10, <1>11, <1>12, <1>13, <1>14, <1>15,
     <1>16, <1>17, <1>18 DEF Next

-----------------------------------------------------------------------------
(* The theorems *)

LEMMA InvInit == Init => IInv
<1> SUFFICES ASSUME Init PROVE IInv
  OBVIOUS
<1>1. TypeOK
  BY TypeInit
<1>2. Today \in Nat
  BY <1>1, ClockAssumption DEF TypeOK, Today
<1>3. KeysInThePast /\ LossesInThePast /\ ResumeReadsFile
  BY <1>2, InputAssumption
     DEF Init, KeysInThePast, LossesInThePast, ResumeReadsFile, Alive, NoKey
<1>4. Loaded = Roll(RiskStateDefault, now)
  BY DEF Init, Loaded
<1>5. Faithful(Loaded) /\ Loaded.daily_trades = 0
  BY <1>2, <1>4 DEF Init, Faithful, LostToday, LostThisWeek, Roll, RiskStateDefault, NoKey
<1>6. Recorded
  BY <1>5 DEF Init, Recorded, Alive
<1>7. PlacedToday = 0 /\ Known = Loaded
  BY <1>2 DEF Init, PlacedToday, Known, Alive, NoKey
<1>8. Counted
  BY <1>5, <1>7 DEF Counted
<1>9. TradesCapped /\ OneInFlight
  BY LimitAssumption, InputAssumption DEF Init, TradesCapped, OneInFlight, RiskStateDefault
<1>10. QED
  BY <1>1, <1>3, <1>6, <1>8, <1>9 DEF IInv

LEMMA InvNext == IInv /\ [Next]_vars => IInv'
<1> SUFFICES ASSUME IInv, [Next]_vars PROVE IInv'
  OBVIOUS
<1>1. TypeOK'
  BY TypeNext DEF IInv
<1>2. KeysInThePast' /\ LossesInThePast' /\ ResumeReadsFile'
  BY <1>1, KeysNext, LossesNext, ResumeNext DEF IInv
<1>3. Recorded' /\ Counted'
  BY <1>1, RecordedNext, CountedNext DEF IInv
<1>4. TradesCapped' /\ OneInFlight'
  BY <1>1, CappedNext DEF IInv
<1>5. QED
  BY <1>1, <1>2, <1>3, <1>4 DEF IInv

\* The inductive invariant: memory and disk record what happened, and are never dated
\* later than the clock.
THEOREM Invariance == Spec => []IInv
<1>1. QED
  BY InvInit, InvNext, PTL DEF Spec

\* Whatever the process, the disk and the operator do, the totals the manager works
\* with, or would read back if it were started now, are the real ones.
THEOREM LedgerIsKept == Spec => []LedgerKept
<1>1. IInv => LedgerKept
  <2> SUFFICES ASSUME IInv, durable
               PROVE  Known.daily_pnl = LostToday /\ Known.weekly_pnl = LostThisWeek
    BY DEF LedgerKept
  <2>1. Faithful(Known)
    BY DEF IInv, Recorded, Known, Alive
  <2>2. QED
    BY <2>1 DEF Faithful
<1>2. QED
  BY <1>1, Invariance, PTL

\* No day sees more entries than max_daily_trades, unless the process was killed on it.
THEOREM EntriesAreCapped == Spec => []EntriesCapped
<1>1. IInv => EntriesCapped
  <2> SUFFICES ASSUME IInv, durable, crash_day # Today PROVE PlacedToday <= MaxDailyTrades
    BY DEF EntriesCapped
  <2>1. Known.daily_trades = PlacedToday
    BY DEF IInv, Counted
  <2>2. \E s \in RiskStates \union {RiskStateDefault} :
          Known = Roll(s, now) /\ s.daily_trades <= MaxDailyTrades
    <3>1. CASE Alive
      BY <3>1 DEF IInv, TypeOK, TradesCapped, Known
    <3>2. CASE ~Alive
      BY <3>2, LimitAssumption DEF IInv, TypeOK, TradesCapped, Known, Loaded, RiskStateDefault
    <3>3. QED
      BY <3>1, <3>2
  <2>3. PICK s \in RiskStates \union {RiskStateDefault} :
          Known = Roll(s, now) /\ s.daily_trades <= MaxDailyTrades
    BY <2>2
  <2>4. Known \in RiskStates /\ Known.daily_trades <= s.daily_trades
    <3>1. now \in Times
      BY DEF IInv, TypeOK
    <3>2. QED
      BY <2>3, <3>1, RollType
  <2>5. Known.daily_trades \in Nat /\ s.daily_trades \in Nat
    BY <2>4 DEF RiskStates, RiskStateDefault
  <2>6. QED
    BY <2>1, <2>3, <2>4, <2>5, LimitAssumption
<1>2. QED
  BY <1>1, Invariance, PTL

\* An entry is approved by one action only, from a state rolled at that moment.
LEMMA Approval ==
  ASSUME IInv, [Next]_vars, Entering
  PROVE  \E o \in Requests : /\ Evaluate(o) /\ in_flight' = o /\ ~o.reduce_only
                             /\ process = "running" /\ now \in Times
                             /\ Approves(Roll(state, now), now, o)
<1>1. in_flight = None /\ in_flight' # None
  BY DEF Entering
<1>2. PICK o \in Requests : Evaluate(o)
  BY <1>1 DEF Next, vars, memory, Tick, Start, StartFails, StopRequested, Shutdown, Crash,
              Forgotten, OrderPlaced, OrderFailed, RecordTradeClosed, DailySummary, ResumeLoad,
              ResumeSave, FileCorrupted
<1>3. /\ in_flight' = IF Approves(Roll(state, now), now, o) THEN o ELSE None
      /\ process = "running"
  BY <1>2 DEF Evaluate
<1>4. now \in Times
  BY DEF IInv, TypeOK
<1>5. QED
  BY <1>1, <1>2, <1>3, <1>4 DEF Entering

\* After a loss limit was reached no entry is approved on that day, whatever closes, is
\* summed up, restarts or dies in between, short of a resume.
THEOREM GateIsKept == Spec => GateHolds
<1>1. IInv /\ [Next]_vars => (durable /\ Entering => tripped.day # Today)
  <2> SUFFICES ASSUME IInv, [Next]_vars, durable, Entering PROVE tripped.day # Today
    OBVIOUS
  <2>1. ~Halted(Roll(state, now)) /\ process = "running"
    BY Approval DEF Approves
  <2>2. Faithful(Roll(state, now))
    BY <2>1 DEF IInv, Recorded, Alive
  <2>3. QED
    BY <2>1, <2>2 DEF Faithful
<1>2. QED
  BY <1>1, Invariance, PTL DEF Spec, GateHolds

\* No entry of a symbol is approved within the cooldown of its last real loss.
THEOREM CooldownIsKept == Spec => CooldownHolds
<1> DEFINE Cooled == LET lost_at == last_loss[in_flight'.symbol]
                     IN  lost_at = Never \/ now - lost_at >= CooldownAfterLoss
<1>1. IInv /\ [Next]_vars => (durable /\ Entering => Cooled)
  <2> SUFFICES ASSUME IInv, [Next]_vars, durable, Entering PROVE Cooled
    OBVIOUS
  <2>1. PICK o \in Requests : /\ in_flight' = o /\ process = "running"
                              /\ CooledDown(Roll(state, now), now, o.symbol)
    BY Approval DEF Approves, Entering
  <2>2. Roll(state, now).last_loss_at = last_loss
    BY <2>1 DEF IInv, Recorded, Alive, Faithful
  <2>3. CASE CooldownAfterLoss = 0
    <3>1. o.symbol \in Symbols /\ in_flight'.symbol = o.symbol
      BY <2>1, InputAssumption
    <3>2. /\ last_loss[o.symbol] = Never \/ last_loss[o.symbol] <= now
          /\ last_loss[o.symbol] \in Times \union {Never} /\ now \in Times
      BY <3>1 DEF IInv, LossesInThePast, TypeOK
    <3>3. \A x \in Times : x <= now => now - x >= CooldownAfterLoss
      BY <2>3, <3>2, ClockAssumption
    <3>4. QED
      BY <3>1, <3>2, <3>3
  <2>4. CASE CooldownAfterLoss # 0
    BY <2>1, <2>2, <2>4 DEF CooledDown
  <2>5. QED
    BY <2>3, <2>4
<1>2. QED
  BY <1>1, Invariance, PTL DEF Spec, CooldownHolds

-----------------------------------------------------------------------------
(* RiskManager, with its file and its crashes, implements LossGate. *)

LEMMA GateInit == Init => Gate!Init
<1> SUFFICES ASSUME Init PROVE Gate!Init
  OBVIOUS
<1>1. Today \in Nat
  BY ClockAssumption DEF Init, Today
<1>2. PlacedToday = 0 /\ tripped.day # Today /\ crash_day # Today
  BY <1>1 DEF Init, PlacedToday, NoKey
<1>3. QED
  BY <1>1, <1>2 DEF Init, Gate!Init, EntryApproved

\* A step that leaves all the gate looks at alone is a stutter of the gate.
LEMMA GateStutters ==
  ASSUME UNCHANGED <<now, tripped, in_flight, placed, crash_day, durable>>
  PROVE  UNCHANGED Gate!vars
BY DEF Gate!vars, Today, EntryApproved, PlacedToday

LEMMA GateTick ==
  ASSUME TypeOK, KeysInThePast, Tick
  PROVE  Gate!NewDay \/ UNCHANGED Gate!vars
<1>1. now \in Times /\ now' \in Times /\ now' > now
  BY DEF Tick, TypeOK
<1>2. UNCHANGED <<tripped, in_flight, placed, crash_day, durable>>
  BY DEF Tick, memory, history
<1>3. Today \in Nat /\ Today' \in Nat /\ Today <= Today'
  BY <1>1, ClockAssumption DEF Today
<1>4. CASE Today' = Today
  BY <1>2, <1>4 DEF Gate!vars, EntryApproved, PlacedToday
<1>5. CASE Today' # Today
  <2>1. /\ placed.day \in Nat \union {NoKey} /\ tripped.day \in Nat \union {NoKey}
        /\ crash_day \in Nat \union {NoKey}
    BY DEF TypeOK
  <2>2. placed.day # Today' /\ tripped.day # Today' /\ crash_day # Today'
    BY <1>3, <1>5, <2>1 DEF KeysInThePast, NoKey
  <2>3. Today' > Today
    BY <1>3, <1>5
  <2>4. PlacedToday' = 0
    BY <1>2, <2>2 DEF PlacedToday
  <2>5. (tripped.day = Today)' = FALSE /\ (crash_day = Today)' = FALSE
    BY <1>2, <2>2
  <2>6. QED
    BY <1>2, <1>3, <2>3, <2>4, <2>5 DEF Gate!NewDay, EntryApproved
<1>6. QED
  BY <1>4, <1>5

LEMMA GateEvaluate ==
  ASSUME IInv, [Next]_vars, NEW o \in Requests, Evaluate(o)
  PROVE  Gate!Approve \/ UNCHANGED Gate!vars
<1>1. /\ UNCHANGED <<now, tripped, placed, crash_day, durable>>
      /\ in_flight = None /\ in_flight' \in {o, None} /\ o # None
  BY InputAssumption DEF Evaluate, history
<1>2. Today' = Today /\ PlacedToday' = PlacedToday
  BY <1>1 DEF Today, PlacedToday
<1>3. CASE ~EntryApproved'
  BY <1>1, <1>2, <1>3 DEF Gate!vars, EntryApproved
<1>4. CASE EntryApproved'
  <2>1. Entering
    BY <1>1, <1>4 DEF Entering, EntryApproved
  <2>2. ~Halted(Roll(state, now)) /\ process = "running"
    BY <2>1, Approval DEF Approves
  <2>3. durable => tripped.day # Today
    BY <2>2 DEF IInv, Recorded, Alive, Faithful
  <2>4. ~EntryApproved
    BY <1>1 DEF EntryApproved
  <2>5. QED
    BY <1>1, <1>2, <1>4, <2>3, <2>4 DEF Gate!Approve
<1>5. QED
  BY <1>3, <1>4

LEMMA GateOrderPlaced ==
  ASSUME IInv, OrderPlaced
  PROVE  Gate!Enter \/ UNCHANGED Gate!vars
<1>1. /\ UNCHANGED <<now, tripped, crash_day, durable>>
      /\ in_flight # None /\ in_flight' = None /\ Today' = Today
  BY DEF OrderPlaced, Today
<1>2. CASE in_flight.reduce_only
  BY <1>1, <1>2 DEF OrderPlaced, Gate!vars, EntryApproved, PlacedToday
<1>3. CASE ~in_flight.reduce_only
  <2>1. PlacedToday' = PlacedToday + 1
    BY <1>1, <1>3 DEF OrderPlaced, PlacedToday
  <2>2. EntryApproved /\ ~EntryApproved'
    BY <1>1, <1>3 DEF EntryApproved
  <2>3. durable /\ crash_day # Today => PlacedToday < MaxDailyTrades
    <3> SUFFICES ASSUME durable, crash_day # Today PROVE PlacedToday < MaxDailyTrades
      OBVIOUS
    <3>1. process = "running" /\ now \in Times /\ state \in RiskStates
      BY <1>1 DEF IInv, TypeOK, Alive
    <3>2. Roll(state, now).daily_trades = PlacedToday
      BY <3>1 DEF IInv, Counted, Known, Alive
    <3>3. /\ Roll(state, now).daily_trades <= state.daily_trades
          /\ Roll(state, now) \in RiskStates
      BY <3>1, RollType
    <3>4. state.daily_trades < MaxDailyTrades
      BY <1>1, <1>3 DEF IInv, OneInFlight
    <3>5. /\ Roll(state, now).daily_trades \in Nat /\ state.daily_trades \in Nat
          /\ MaxDailyTrades \in Nat
      BY <3>1, <3>3, LimitAssumption DEF RiskStates
    <3>6. QED
      BY <3>2, <3>3, <3>4, <3>5
  <2>4. UNCHANGED <<tripped.day = Today, crash_day = Today, ~durable>>
    BY <1>1
  <2>5. QED
    BY <1>1, <2>1, <2>2, <2>3, <2>4 DEF Gate!Enter
<1>4. QED
  BY <1>2, <1>3

LEMMA GateClosed ==
  ASSUME TypeOK, NEW symbol \in Symbols, NEW pnl \in Pnls, NEW saved \in BOOLEAN,
         RecordTradeClosed(symbol, pnl, saved)
  PROVE  Gate!LossLimitReached \/ UNCHANGED Gate!vars
<1>1. /\ UNCHANGED <<now, in_flight, placed, crash_day, durable>> /\ in_flight = None
      /\ tripped' = Tripped(Booked(ledger, now, pnl), reference_equity)
  BY DEF RecordTradeClosed
<1>2. Today' = Today /\ PlacedToday' = PlacedToday /\ ~EntryApproved /\ ~EntryApproved'
  BY <1>1 DEF Today, PlacedToday, EntryApproved
<1>3. tripped'.day \in {Today, tripped.day}
  BY <1>1 DEF Tripped, Booked, Today
<1>4. EntryApproved' = EntryApproved /\ (~durable)' = ~durable
      /\ (crash_day = Today)' = (crash_day = Today)
  BY <1>1, <1>2 DEF EntryApproved
<1>5. CASE tripped'.day = Today
  <2>1. (tripped.day = Today)' = TRUE
    BY <1>2, <1>5
  <2>2. QED
    BY <1>2, <1>4, <2>1 DEF Gate!LossLimitReached
<1>6. CASE tripped'.day = tripped.day
  <2>1. (tripped.day = Today)' = (tripped.day = Today)
    BY <1>2, <1>6
  <2>2. QED
    BY <1>2, <1>4, <2>1 DEF Gate!vars
<1>7. QED
  BY <1>3, <1>5, <1>6

LEMMA GateNext ==
  ASSUME IInv, [Next]_vars
  PROVE  [Gate!Next]_Gate!vars
<1> USE DEF Gate!Next
<1>1. TypeOK /\ KeysInThePast
  BY DEF IInv
<1>2. CASE Tick
  BY <1>1, <1>2, GateTick
<1>3. CASE Start \/ StartFails \/ StopRequested \/ DailySummary \/ ResumeLoad
  BY <1>3, GateStutters
     DEF Start, StartFails, StopRequested, DailySummary, ResumeLoad, memory, history
<1>4. CASE Shutdown
  <2>1. in_flight = None
    BY <1>1, <1>4 DEF Shutdown, TypeOK
  <2>2. QED
    BY <1>4, <2>1, GateStutters DEF Shutdown, Forgotten, history
<1>5. CASE Crash
  <2>1. /\ UNCHANGED <<now, tripped, placed>> /\ in_flight' = None /\ crash_day' = Today
        /\ Today' = Today /\ durable \in BOOLEAN /\ durable' \in {durable, FALSE}
    BY <1>1, <1>5 DEF Crash, Forgotten, TypeOK, Today
  <2>2. ~EntryApproved' /\ PlacedToday' = PlacedToday
    BY <2>1 DEF EntryApproved, PlacedToday
  <2>3. (~durable)' \in {~durable, TRUE}
    BY <2>1
  <2>4. (tripped.day = Today)' = (tripped.day = Today) /\ (crash_day = Today)' = TRUE
    BY <2>1
  <2>5. EntryApproved' = FALSE
    BY <2>2
  <2>6. Gate!Kill
    BY <2>1, <2>2, <2>3, <2>4, <2>5 DEF Gate!Kill
  <2>7. QED
    BY <2>6
<1>6. ASSUME NEW o \in Requests, Evaluate(o) PROVE [Gate!Next]_Gate!vars
  BY <1>6, GateEvaluate
<1>7. CASE OrderPlaced
  BY <1>7, GateOrderPlaced
<1>8. CASE OrderFailed
  <2>1. /\ UNCHANGED <<now, tripped, placed, crash_day, durable>>
        /\ in_flight # None /\ in_flight' = None
    BY <1>8 DEF OrderFailed, history
  <2>2. Today' = Today /\ PlacedToday' = PlacedToday /\ ~EntryApproved'
    BY <2>1 DEF Today, PlacedToday, EntryApproved
  <2>3. /\ (tripped.day = Today)' = (tripped.day = Today)
        /\ (crash_day = Today)' = (crash_day = Today) /\ (~durable)' = ~durable
    BY <2>1, <2>2
  <2>4. CASE EntryApproved
    BY <2>2, <2>3, <2>4 DEF Gate!Drop
  <2>5. CASE ~EntryApproved
    <3>1. EntryApproved' = EntryApproved
      BY <2>1, <2>5 DEF EntryApproved
    <3>2. QED
      BY <2>2, <2>3, <3>1 DEF Gate!vars
  <2>6. QED
    BY <2>4, <2>5
<1>9. ASSUME NEW symbol \in Symbols, NEW pnl \in Pnls, NEW saved \in BOOLEAN,
             RecordTradeClosed(symbol, pnl, saved)
      PROVE  [Gate!Next]_Gate!vars
  BY <1>1, <1>9, GateClosed
<1>10. CASE ResumeSave
  <2>1. /\ UNCHANGED <<now, in_flight, placed, crash_day>> /\ Today' = Today
        /\ tripped'.day # Today
    BY <1>1, <1>10, ClockAssumption DEF ResumeSave, memory, TypeOK, Today, NoKey
  <2>2. PlacedToday' = PlacedToday /\ EntryApproved' = EntryApproved
    BY <2>1 DEF PlacedToday, EntryApproved
  <2>3. (tripped.day = Today)' = FALSE
    BY <2>1
  <2>4. CASE (~durable)' = ~durable
    BY <2>1, <2>2, <2>3, <2>4 DEF Gate!Lift
  <2>5. CASE (~durable)' = TRUE
    BY <2>1, <2>2, <2>3, <2>5 DEF Gate!LoseRecord
  <2>6. QED
    BY <1>1, <1>10, <2>4, <2>5 DEF ResumeSave, TypeOK
<1>11. CASE FileCorrupted
  <2>1. UNCHANGED <<now, in_flight, placed, tripped, crash_day>> /\ durable' = FALSE
    BY <1>11 DEF FileCorrupted, memory
  <2>2. /\ Today' = Today /\ PlacedToday' = PlacedToday /\ EntryApproved' = EntryApproved
        /\ (~durable)' = TRUE /\ (tripped.day = Today)' = (tripped.day = Today)
        /\ (crash_day = Today)' = (crash_day = Today)
    BY <2>1 DEF Today, PlacedToday, EntryApproved
  <2>3. QED
    BY <2>2 DEF Gate!LoseRecord
<1>12. CASE UNCHANGED vars
  BY <1>12, GateStutters DEF vars, memory, history
<1>13. QED
  BY <1>2, <1>3, <1>4, <1>5, <1>6, <1>7, <1>8, <1>9, <1>10, <1>11, <1>12 DEF Next

\* The manager keeps the promise of LossGate: what it decides from its memory and its
\* file is what one would decide who had seen every loss and every entry.
THEOREM GateIsImplemented == Spec => ImplementsLossGate
<1>1. IInv /\ [Next]_vars => [Gate!Next]_Gate!vars
  BY GateNext
<1>2. QED
  BY GateInit, <1>1, Invariance, PTL DEF Spec, ImplementsLossGate, Gate!Spec
=============================================================================
