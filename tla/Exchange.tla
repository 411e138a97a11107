------------------------------- MODULE Exchange -------------------------------
(***************************************************************************)
(* One symbol's account at an exchange, and the calls by which the adapters  *)
(* for ccxt, BingX and OANDA read it and send orders to it.                  *)
(*                                                                          *)
(* The exchange is external.  It executes an order later than it answers, or *)
(* never (ccxt), or at once (OANDA, fill-or-kill); it closes positions by    *)
(* stops, and others may close them by hand; and what it answers about       *)
(* positions lags behind.  It executes a market order in one piece, and may   *)
(* or may not keep a reduce-only order from opening a position.               *)
(***************************************************************************)
EXTENDS Integers, Sequences, FiniteSets

CONSTANTS
  Brokers,      \* the adapters looked at: "ccxt", "bingx", "oanda"
  Holdings,     \* units that may be held before anything is done
  MarketLists,  \* the markets an exchange may list of the symbol: "swap", "spot"
  DefaultType,  \* settings.broker.market_type
  ReadErrors,   \* the adapters whose call for positions may fail
  NoAnswer      \* a BrokerError instead of an answer

ASSUME ExchangeAssumption ==
  /\ Brokers \subseteq {"ccxt", "bingx", "oanda"} /\ ReadErrors \subseteq Brokers
  /\ Holdings \subseteq Int /\ NoAnswer \notin Int
  /\ DefaultType \in {"swap", "spot"}
  /\ MarketLists \subseteq SUBSET {"swap", "spot"}

VARIABLES
  broker,    \* the adapter in use
  markets,   \* the markets listed of the symbol
  lists,     \* positions of no contracts are listed too, with the size of a contract
  held,      \* units held before: negative when short
  keeps,     \* no reduce-only order opens a position here: some exchanges ignore the mark
  position,  \* units held now
  visible,   \* units held according to the exchange's answers
  queue,     \* orders taken and not executed yet
  stop       \* a stop order protects the units bought

setting  == <<broker, markets, lists, held, keeps>>
exchange == <<setting, position, visible, queue, stop>>

Size == 1
NoMarket == "none"

-----------------------------------------------------------------------------
(* The market the symbol stands for *)

Candidates == IF DefaultType = "swap" THEN <<"swap", "spot">> ELSE <<"spot", "swap">>

\* OANDA has one market, of positions.
Resolved ==
  LET found == SelectSeq(Candidates, LAMBDA c : c \in markets)
  IN  IF broker = "oanda" THEN "swap" ELSE IF found = <<>> THEN NoMarket ELSE Head(found)

-----------------------------------------------------------------------------
(* The exchange *)

Account ==
  /\ broker \in Brokers /\ markets \in MarketLists
  /\ lists \in (IF broker # "oanda" /\ Resolved = "swap" THEN BOOLEAN ELSE {FALSE})
  /\ held \in (IF Resolved = "swap" THEN Holdings ELSE {0})
  /\ keeps \in (IF broker = "oanda" THEN {TRUE} ELSE BOOLEAN)
  /\ position = held /\ visible = held /\ queue = <<>> /\ stop = FALSE

Holds(units, protected) ==
  /\ position' = units
  /\ stop' = (protected /\ units > 0)

Nearest(units, lo, hi) == IF units < lo THEN lo ELSE IF units > hi THEN hi ELSE units

\* What becomes of the units held when the order is executed.
After(order) ==
  IF ~(keeps /\ order.reduces) THEN position + order.units
  ELSE IF position > 0 THEN Nearest(position + order.units, 0, position)
  ELSE Nearest(position + order.units, position, 0)

Execute ==
  /\ queue # <<>>
  /\ queue' = Tail(queue)
  /\ \E attached \in BOOLEAN :
       Holds(After(Head(queue)), stop \/ (attached /\ Head(queue).stop))
  /\ UNCHANGED <<setting, visible>>

\* An order the exchange took is cancelled by it.
Drop ==
  /\ queue # <<>>
  /\ queue' = Tail(queue)
  /\ UNCHANGED <<setting, position, visible, stop>>

\* A stop or a target is executed, or somebody closes by hand.
ClosedOutside ==
  /\ position # 0
  /\ Holds(IF position > 0 THEN position - 1 ELSE position + 1, stop)
  /\ UNCHANGED <<setting, visible, queue>>

\* There are no positions of a spot market: what is bought is never shown as one.
Show ==
  /\ Resolved = "swap" /\ visible # position
  /\ visible' = position
  /\ UNCHANGED <<setting, position, queue, stop>>

ExchangeNext == Execute \/ Drop \/ ClosedOutside \/ Show

-----------------------------------------------------------------------------
(* The adapters *)

\* `contracts or contractSize`: where contracts is 0, the size of a contract is read as a
\* long position.
SeenByCcxt == IF visible = 0 /\ lists THEN 1 ELSE visible

\* get_positions(), of the symbol: ccxt answers [] when the call fails.
PositionAnswers ==
  IF broker = "oanda"
  THEN {visible} \cup (IF broker \in ReadErrors THEN {NoAnswer} ELSE {})
  ELSE {SeenByCcxt} \cup (IF broker \in ReadErrors THEN {0} ELSE {})

\* No stop is attached to an order that closes.
OrderParams(units, reduce_only) ==
  [units |-> units, reduces |-> reduce_only, stop |-> ~reduce_only]

\* ccxt's create_order, taken by the exchange.
Taken(order) ==
  /\ queue' = Append(queue, order)
  /\ UNCHANGED <<setting, position, visible, stop>>

\* OANDA's market orders are fill-or-kill.
EntryTaken ==
  IF broker = "oanda"
  THEN /\ Holds(position + Size, TRUE)
       /\ UNCHANGED <<setting, visible, queue>>
  ELSE Taken(OrderParams(Size, FALSE))

\* OANDA closes everything on the side of the position that was read, however many units.
AllClosed(read) ==
  /\ Holds(IF position * read > 0 THEN 0 ELSE position, stop)
  /\ UNCHANGED <<setting, visible, queue>>

CloseTaken(read) ==
  IF broker = "oanda" THEN AllClosed(read) ELSE Taken(OrderParams(-read, TRUE))

\* An unknown status counts as open.
StatusOf(answer) ==
  CASE answer = "closed" -> "filled"
    [] answer \in {"canceled", "cancelled"} -> "cancelled"
    [] answer \in {"expired", "rejected"} -> answer
    [] OTHER -> "open"

Answers == {"open", "closed", "canceled", "expired", "rejected", "new"}
=============================================================================
