------------------------------ MODULE Strategies ------------------------------
(***************************************************************************)
(* strategies/: the indicators and the three strategies, as functions of what *)
(* the runner hands to generate.  A context c has the visible bars, the number  *)
(* c.from of the first of them, their c.clock ([day, minute] in the strategy's  *)
(* zone) and the position of the symbol as it was when the step began.  The     *)
(* code divides Decimals; a cfg takes prices that make the averages whole.      *)
(***************************************************************************)
EXTENDS Quotes, Sequences, SequencesExt, FiniteSetsExt

CONSTANTS
  EntryPeriod, ExitPeriod, TrendPeriod, UseTrendFilter, MinHour, MaxHour, TrailAtrs,  \* donchian
  FastPeriod, SlowPeriod, RsiPeriod, Overbought, Oversold, TargetAtrs,                \* sma_rsi
  EntryTime, ExitTime, FixSide,                                                       \* tokyo_fix
  AtrPeriod, StopAtrs, AllowShort,
  NoHour

\* What __init__ refuses otherwise.
ASSUME StrategyAssumption ==
  /\ \A p \in {EntryPeriod, ExitPeriod, TrendPeriod, FastPeriod, SlowPeriod, RsiPeriod, AtrPeriod} :
       p \in Nat /\ p >= 2
  /\ FastPeriod < SlowPeriod /\ EntryTime < ExitTime /\ FixSide \in {1, -1}
  /\ {StopAtrs, TrailAtrs, TargetAtrs, EntryTime, ExitTime} \subseteq Int
  /\ {UseTrendFilter, AllowShort} \subseteq BOOLEAN

Strategies == {"donchian", "sma_rsi", "tokyo_fix"}

WarmupBars(strategy) ==
  2 + CASE strategy = "donchian" ->
             Max({EntryPeriod, ExitPeriod, AtrPeriod} \union (IF UseTrendFilter THEN {TrendPeriod} ELSE {}))
        [] strategy = "sma_rsi" -> Max({SlowPeriod, RsiPeriod, AtrPeriod})
        [] strategy = "tokyo_fix" -> AtrPeriod

-----------------------------------------------------------------------------
(* Indicators *)

Total(values) == FoldLeft(LAMBDA sum, v : sum + v, 0, values)

LastOnes(values, n) == SubSeq(values, Len(values) - n + 1, Len(values))

\* sma(values, m) < sma(values, n), without the division
SmaSum(values, period) == Total(LastOnes(values, period))

\* Wilder's smoothing, from the mean of the first values on
Wilder(values, period) ==
  FoldLeft(LAMBDA mean, v : (mean * (period - 1) + v) \div period,
           Total(SubSeq(values, 1, period)) \div period,
           SubSeq(values, period + 1, Len(values)))

Closes(bars) == [i \in DOMAIN bars |-> bars[i].close]

Distance(m, n) == IF m <= n THEN n - m ELSE m - n

TrueRange(current, previous) ==
  Max({current.high - current.low, Distance(current.high, previous.close),
       Distance(current.low, previous.close)})

Atr(bars, period) ==
  Wilder([i \in 1..(Len(bars) - 1) |-> TrueRange(bars[i + 1], bars[i])], period)

Deltas(values) == [i \in 1..(Len(values) - 1) |-> values[i + 1] - values[i]]

\* The RSI is 100 * gain / (gain + loss), and 50 where nothing moved.
AverageGain(values) ==
  Wilder([i \in DOMAIN Deltas(values) |-> Max({Deltas(values)[i], 0})], RsiPeriod)
AverageLoss(values) ==
  Wilder([i \in DOMAIN Deltas(values) |-> Max({-Deltas(values)[i], 0})], RsiPeriod)

\* Positive where the RSI is above level, negative where it is below.
RsiBeyond(values, level) ==
  LET gain == AverageGain(values)
      loss == AverageLoss(values)
  IN  IF gain + loss = 0 THEN 50 - level ELSE 100 * gain - level * (gain + loss)

-----------------------------------------------------------------------------
(* Signals *)

Signal(action, side, stop, target) == [action |-> action, side |-> side, stop |-> stop, target |-> target]

Hold == Signal("hold", 0, NoPrice, NoPrice)
Exit == Signal("exit", 0, NoPrice, NoPrice)
UpdateStop(stop) == Signal("update_stop", 0, stop, NoPrice)

Entry(side, c, atr, target) ==
  LET price == Last(c.bars).close
  IN  Signal("entry", side, price - side * atr * StopAtrs, IF target THEN price + side * atr * TargetAtrs ELSE NoPrice)

-----------------------------------------------------------------------------
(* donchian *)

\* The bars before the current one.
Window(c, period) == Range(SubSeq(c.bars, Len(c.bars) - period, Len(c.bars) - 1))

Highest(window) == Max({b.high : b \in window})
Lowest(window) == Min({b.low : b \in window})

WithinSession(c) ==
  LET hour == Last(c.clock).minute \div 60
      low  == IF MinHour = NoHour THEN 0 ELSE MinHour
      high == IF MaxHour = NoHour THEN 23 ELSE MaxHour
  IN  IF low <= high THEN hour \in low..high ELSE hour >= low \/ hour <= high

\* side of the current close against the mean of the last TrendPeriod
AgainstTrend(c, side) ==
  UseTrendFilter /\ side * (Last(c.bars).close * TrendPeriod - SmaSum(Closes(c.bars), TrendPeriod)) < 0

BreaksUp(c) == Last(c.bars).close > Highest(Window(c, EntryPeriod))
BreaksDown(c) == Last(c.bars).close < Lowest(Window(c, EntryPeriod))

Leaves(c) ==
  IF c.position.side = 1 THEN Last(c.bars).close < Lowest(Window(c, ExitPeriod))
  ELSE Last(c.bars).close > Highest(Window(c, ExitPeriod))

\* The chandelier: from the best price of the visible bars since the entry bar, that bar
\* included; the current bar where none of them is visible.
Trailing(c, atr) ==
  LET since == {c.bars[i] : i \in {j \in DOMAIN c.bars : c.from + j - 1 >= c.position.opened_at}}
      seen  == IF since = {} THEN {Last(c.bars)} ELSE since
  IN  IF c.position.side = 1 THEN Highest(seen) - atr * TrailAtrs ELSE Lowest(seen) + atr * TrailAtrs

Improves(p, stop) == p.stop = NoPrice \/ (stop - p.stop) * p.side > 0

\* _manage
Manage(c, atr) ==
  CASE Leaves(c) -> Exit
    [] ~Leaves(c) /\ Improves(c.position, Trailing(c, atr)) -> UpdateStop(Trailing(c, atr))
    [] OTHER -> Hold

Donchian(c) ==
  LET atr  == Atr(c.bars, AtrPeriod)
      flat == c.position = NoPosition
      up   == flat /\ WithinSession(c) /\ BreaksUp(c) /\ ~AgainstTrend(c, 1)
      down == flat /\ WithinSession(c) /\ BreaksDown(c) /\ AllowShort /\ ~AgainstTrend(c, -1)
  IN  CASE atr > 0 /\ ~flat -> Manage(c, atr)
        [] atr > 0 /\ up -> Entry(1, c, atr, FALSE)
        [] atr > 0 /\ down -> Entry(-1, c, atr, FALSE)
        [] OTHER -> Hold

-----------------------------------------------------------------------------
(* sma_rsi *)

\* side * (fast - slow), times both periods
Lead(closes, side) ==
  side * (SmaSum(closes, FastPeriod) * SlowPeriod - SmaSum(closes, SlowPeriod) * FastPeriod)

\* The fast average crosses the slow one to side.
Crosses(closes, side) == Lead(Front(closes), side) <= 0 /\ Lead(closes, side) > 0

SmaRsi(c) ==
  LET closes == Closes(c.bars)
      atr    == Atr(c.bars, AtrPeriod)
      flat   == c.position = NoPosition /\ atr > 0
      up     == Crosses(closes, 1) /\ RsiBeyond(closes, Overbought) < 0
      down   == Crosses(closes, -1) /\ AllowShort /\ RsiBeyond(closes, Oversold) > 0
  IN  CASE c.position # NoPosition /\ Crosses(closes, -c.position.side) -> Exit
        [] flat /\ up -> Entry(1, c, atr, TRUE)
        [] flat /\ down -> Entry(-1, c, atr, TRUE)
        [] OTHER -> Hold

-----------------------------------------------------------------------------
(* tokyo_fix *)

InWindow(t) == t.minute >= EntryTime /\ t.minute < ExitTime

\* Mutant: only the time after the window counts as past it.
PastTheWindow(t) == t.minute >= ExitTime

OutsideTheWindow(t) == t.minute >= ExitTime \/ t.minute < EntryTime

\* _is_entry_bar: the first bar of the window of its day
IsEntryBar(clock) ==
  LET previous == clock[Len(clock) - 1]
  IN  InWindow(Last(clock)) /\ (previous.day # Last(clock).day \/ ~InWindow(previous))

TokyoFix(c) ==
  LET atr == Atr(c.bars, AtrPeriod)
  IN  CASE c.position # NoPosition /\ OutsideTheWindow(Last(c.clock)) -> Exit
        [] c.position = NoPosition /\ IsEntryBar(c.clock) /\ atr > 0 -> Entry(FixSide, c, atr, FALSE)
        [] OTHER -> Hold

-----------------------------------------------------------------------------

\* generate: too few bars are no signal.
Generate(strategy, c) ==
  IF Len(c.bars) < WarmupBars(strategy) THEN Hold
  ELSE CASE strategy = "donchian" -> Donchian(c)
         [] strategy = "sma_rsi" -> SmaRsi(c)
         [] strategy = "tokyo_fix" -> TokyoFix(c)
=============================================================================
