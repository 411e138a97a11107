------------------------------ MODULE RiskRules ------------------------------
(***************************************************************************)
(* The calculations of core/risk.py that do not depend on who calls them:  *)
(* the carried-over RiskState, its roll over day and week boundaries, the  *)
(* loss-limit check, and the list of rules RiskManager.evaluate applies to *)
(* an order request.  Money is an integer, a ratio is an integer percent.  *)
(***************************************************************************)
EXTENDS Integers

CONSTANTS
  Symbols,                 \* the traded symbols
  Times,                   \* the instants of the clock
  DayOf, WeekOf,           \* local date and ISO week of an instant (reset_timezone)
  MaxDailyLoss,            \* percent of the reference equity
  MaxWeeklyLoss,
  MaxRiskPerTrade,         \* percent of equity
  MaxMarginUsage,          \* percent of equity
  MaxOpenPositions,
  MaxPositionsPerSymbol,
  MaxDailyTrades,
  CooldownAfterLoss,       \* in units of Times; 0 switches the rule off
  RequireStopLoss,
  MaxSpread,
  AssumedLeverage,
  ContractSize,
  AtrSpikeMultiplier

NoKey == -1        \* the empty day_key / week_key of a RiskState never rolled
Never == -1        \* no entry in last_loss_at
NoPrice == -1      \* Python's None for a price
NoReference == -1  \* _reference_equity before anyone has set it

NoHalt == "none"
DailyLossLimit == "daily_loss_limit"
WeeklyLossLimit == "weekly_loss_limit"
HaltReasons == {NoHalt, DailyLossLimit, WeeklyLossLimit}

ASSUME ClockAssumption ==
  /\ Times \subseteq Nat
  /\ DayOf \in [Times -> Nat] /\ WeekOf \in [Times -> Nat]
  /\ \A s, t \in Times :
       /\ s <= t => DayOf[s] <= DayOf[t] /\ WeekOf[s] <= WeekOf[t]
       /\ DayOf[s] = DayOf[t] => WeekOf[s] = WeekOf[t]

ASSUME LimitAssumption ==
  /\ MaxDailyTrades \in Nat \ {0}
  /\ MaxDailyLoss \in Nat \ {0} /\ MaxWeeklyLoss \in Nat /\ MaxDailyLoss <= MaxWeeklyLoss
  /\ CooldownAfterLoss \in Nat

-----------------------------------------------------------------------------
(* RiskState *)

RiskStates ==
  [day_key      : Nat, week_key   : Nat,
   daily_pnl    : Int, weekly_pnl : Int,
   daily_trades : Nat,
   halt_reason  : HaltReasons,
   last_loss_at : [Symbols -> Times \union {Never}]]

RiskStateDefault ==
  [day_key |-> NoKey, week_key |-> NoKey, daily_pnl |-> 0, weekly_pnl |-> 0,
   daily_trades |-> 0, halt_reason |-> NoHalt,
   last_loss_at |-> [s \in Symbols |-> Never]]

\* Mutants of Roll: a week whose total is never reset; a day change that also
\* forgets when the last loss was.
RollKeepingWeeklyPnl(s, t) ==
  LET newDay  == s.day_key # DayOf[t]
      newWeek == s.week_key # WeekOf[t]
      lifted  == newWeek \/ (newDay /\ s.halt_reason = DailyLossLimit)
  IN  [s EXCEPT !.day_key = DayOf[t], !.week_key = WeekOf[t],
                !.daily_pnl = IF newDay THEN 0 ELSE @,
                !.daily_trades = IF newDay THEN 0 ELSE @,
                !.halt_reason = IF lifted THEN NoHalt ELSE @]

RollForgettingLosses(s, t) ==
  IF s.day_key = DayOf[t] THEN s
  ELSE [RiskStateDefault EXCEPT !.day_key = DayOf[t], !.week_key = WeekOf[t],
          !.weekly_pnl = IF s.week_key = WeekOf[t] THEN s.weekly_pnl ELSE 0]

Roll(s, t) ==
  LET newDay  == s.day_key # DayOf[t]
      newWeek == s.week_key # WeekOf[t]
      lifted  == \/ newDay /\ s.halt_reason = DailyLossLimit
                 \/ newWeek /\ s.halt_reason = WeeklyLossLimit
  IN  [day_key      |-> DayOf[t],
       week_key     |-> WeekOf[t],
       daily_pnl    |-> IF newDay THEN 0 ELSE s.daily_pnl,
       weekly_pnl   |-> IF newWeek THEN 0 ELSE s.weekly_pnl,
       daily_trades |-> IF newDay THEN 0 ELSE s.daily_trades,
       halt_reason  |-> IF lifted THEN NoHalt ELSE s.halt_reason,
       last_loss_at |-> s.last_loss_at]

Halted(s) == s.halt_reason # NoHalt

-----------------------------------------------------------------------------
(* Loss limits: _check_halt and record_trade_closed *)

Reached(pnl, percent, reference) == 100 * pnl <= -(reference * percent)

\* Mutant: the flag is recomputed from the totals, so that a profit lifts it.
HaltReasonFromTotals(reason, daily, weekly, reference) ==
  IF reference <= 0 THEN NoHalt
  ELSE IF Reached(weekly, MaxWeeklyLoss, reference) THEN WeeklyLossLimit
  ELSE IF Reached(daily, MaxDailyLoss, reference) THEN DailyLossLimit
  ELSE NoHalt

\* _check_halt: the weekly limit first; a reason already there is replaced.
HaltReasonAfter(reason, daily, weekly, reference) ==
  IF reference <= 0 THEN reason
  ELSE IF Reached(weekly, MaxWeeklyLoss, reference) THEN WeeklyLossLimit
  ELSE IF Reached(daily, MaxDailyLoss, reference) THEN DailyLossLimit
  ELSE reason

WithLoss(losses, symbol, t, pnl) ==
  IF pnl < 0 THEN [losses EXCEPT ![symbol] = t] ELSE losses

TradeClosed(s, t, reference, symbol, pnl) ==
  LET r      == Roll(s, t)
      daily  == r.daily_pnl + pnl
      weekly == r.weekly_pnl + pnl
  IN  [day_key      |-> r.day_key,
       week_key     |-> r.week_key,
       daily_pnl    |-> daily,
       weekly_pnl   |-> weekly,
       daily_trades |-> r.daily_trades,
       halt_reason  |-> HaltReasonAfter(r.halt_reason, daily, weekly, reference),
       last_loss_at |-> WithLoss(r.last_loss_at, symbol, t, pnl)]

OrderSubmitted(s, t) == LET r == Roll(s, t) IN [r EXCEPT !.daily_trades = @ + 1]

-----------------------------------------------------------------------------
(* RiskManager.evaluate.  o is the request with the balance, the positions  *)
(* and the market data it is evaluated against; the order of the rules only *)
(* decides which one is reported.                                           *)

CooledDown(s, t, symbol) ==
  \/ CooldownAfterLoss = 0
  \/ s.last_loss_at[symbol] = Never
  \/ t - s.last_loss_at[symbol] >= CooldownAfterLoss

Distance(a, b) == IF a >= b THEN a - b ELSE b - a

StopRulesHold(o) ==
  /\ RequireStopLoss => o.stop_loss # NoPrice
  /\ o.stop_loss # NoPrice =>
       /\ o.side = "buy" => o.stop_loss < o.price
       /\ o.side = "sell" => o.stop_loss > o.price
       /\ 100 * Distance(o.price, o.stop_loss) * o.quantity * ContractSize
             <= o.equity * MaxRiskPerTrade

MarginRulesHold(o) ==
  LET notional == o.price * o.quantity * ContractSize
  IN  /\ 100 * (o.used_margin * AssumedLeverage + notional)
             <= MaxMarginUsage * o.equity * AssumedLeverage
      /\ notional <= o.available * AssumedLeverage

MarketRulesHold(o) ==
  /\ o.price # NoPrice
  /\ MaxSpread # NoPrice => o.spread <= MaxSpread
  /\ o.atr_baseline > 0 => o.atr <= AtrSpikeMultiplier * o.atr_baseline

PositionRulesHold(o) ==
  /\ o.open_positions < MaxOpenPositions
  /\ o.same_symbol < MaxPositionsPerSymbol

\* Mutant: an off-by-one in the count of the day's trades.
ApprovesOneTooMany(s, t, o) ==
  \/ o.reduce_only
  \/ /\ ~Halted(s)
     /\ s.daily_trades <= MaxDailyTrades
     /\ CooledDown(s, t, o.symbol)

Approves(s, t, o) ==
  \/ o.reduce_only
  \/ /\ ~Halted(s)
     /\ o.equity > 0
     /\ s.daily_trades < MaxDailyTrades
     /\ CooledDown(s, t, o.symbol)
     /\ PositionRulesHold(o)
     /\ MarketRulesHold(o)
     /\ StopRulesHold(o)
     /\ MarginRulesHold(o)
=============================================================================
