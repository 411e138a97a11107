------------------------------ MODULE MCBacktest ------------------------------
(* A small instance of Backtest for TLC: two symbols that move together, 64 price units   *)
(* to a point so that Wilder's means of periods of two stay whole.                            *)
EXTENDS Backtest

CONSTANTS eurusd, usdjpy

U == 64

MCBalance == 200 * U

Bar(low, high, close) == [low |-> low * U, high |-> high * U, close |-> close * U]

\* A bar around 20, one up to 24, one down to 15.
MCBars == {Bar(19, 21, 20), Bar(20, 25, 24), Bar(14, 20, 15)}

MCJoint == {[s \in {eurusd, usdjpy} |-> bar] : bar \in MCBars}

MCOrder == <<eurusd, usdjpy>>

Days(times) == [i \in DOMAIN times |-> [day |-> times[i][1], minute |-> 60 * times[i][2]]]

\* The window is from 8 to 10: a day without gaps, one without any bar from the entry to
\* the next morning, and one that goes from window to window.
Regular == Days(<<<<1, 3>>, <<1, 4>>, <<1, 6>>, <<1, 7>>, <<1, 8>>, <<1, 9>>, <<1, 10>>, <<1, 11>>, <<1, 12>>>>)
Overnight == Days(<<<<1, 3>>, <<1, 4>>, <<1, 6>>, <<1, 7>>, <<1, 9>>, <<2, 7>>, <<2, 8>>, <<2, 9>>, <<2, 10>>>>)
NextWindow == Days(<<<<1, 3>>, <<1, 4>>, <<1, 6>>, <<1, 9>>, <<2, 8>>, <<2, 9>>, <<3, 9>>, <<3, 10>>, <<3, 11>>>>)

Case(strategyName, days, bound) == [strategy |-> strategyName, calendar |-> days, length |-> bound]

MCCases ==
  {Case("donchian", Regular, 9), Case("sma_rsi", Regular, 8), Case("sma_rsi", Regular, 6),
   Case("tokyo_fix", Regular, 7), Case("tokyo_fix", Overnight, 7), Case("tokyo_fix", NextWindow, 8)}

\* An entry is taken in both symbols, or refused in the second.
MCSizes == {[s \in {eurusd, usdjpy} |-> 1], [s \in {eurusd, usdjpy} |-> IF s = eurusd THEN 1 ELSE 0]}
=============================================================================
