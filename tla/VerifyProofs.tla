----------------------------- MODULE VerifyProofs -----------------------------
(***************************************************************************)
(* Safety proofs for Verify: for any position held before, any number of     *)
(* looks at the positions, and any interleaving with the exchange.           *)
(***************************************************************************)
EXTENDS Verify, SequenceTheorems, TLAPS

-----------------------------------------------------------------------------
(* The inductive invariants, beside TypeOK *)

\* Before an order is sent.
Early == {"connect", "balance", "ticker", "positions", "candles", "quote", "place"}

\* The finally clause makes no round trip, and the round trip does not run it.
Phased ==
  /\ pc \in Early \union {"open", "stop", "trades"} => phase = "trip"
  /\ pc \in {"ensure", "disconnect"} => phase = "ensure"

\* The entry is sent once, and a close once in the round trip and once after it.
Allowed ==
  IF phase = "trip"
  THEN IF pc \in Early THEN 0 ELSE IF pc \in {"flat", "trades"} THEN 2 ELSE 1
  ELSE IF pc \in {"flat", "disconnect", "done"} THEN 3 ELSE 2

QueueFits == Len(queue) <= Allowed

\* As long as nothing has failed, where reduce-only is kept: outside the wait for the entry
\* there is nothing left that opens a position and a position that does not show does not
\* exist; the entry is sent where nothing was held; and after the round trip nothing is held.
Clean == ~failed /\ ~raised

Reduces == \A i \in DOMAIN queue : queue[i].reduces

Kept ==
  /\ pc = "done" => phase = "ensure"
  /\ pc # "open" => Reduces /\ (visible = 0 => position = 0)
  /\ pc \in {"candles", "quote", "place"} => queue = <<>> /\ visible = 0 /\ ~lists
  /\ pc = "open" => Len(queue) <= 1 /\ ~lists /\ (position # 0 \/ visible # 0 => queue = <<>>)
  /\ pc = "trades" \/ phase = "ensure" => position = 0

\* As long as nothing has failed and nobody else closes, whether reduce-only is kept or not:
\* at most one order is waiting, the entry where nothing is held or a close of exactly what
\* is held; what the exchange shows is the position, or nothing yet; and a position is closed
\* with the size it has.
Orderly ==
  /\ ~opened
  /\ pc \in Early => queue = <<>> /\ (visible = 0 => position = 0)
  /\ pc \in {"candles", "quote", "place", "trades", "ensure", "disconnect", "done"} =>
       queue = <<>> /\ visible = 0 /\ position = 0
  /\ pc \notin {"connect", "balance", "ticker", "positions"} => ~lists
  /\ pc \in {"open", "stop", "close", "recheck", "send", "flat"} => sent /\ phase = "trip"
  /\ pc = "open" =>
       \/ queue = <<>> /\ visible \in {0, position}
       \/ queue = <<OrderParams(Size, FALSE)>> /\ position = 0 /\ visible = 0
  /\ pc \in {"stop", "close", "recheck", "send"} => queue = <<>> /\ visible = position
  /\ pc \in {"recheck", "send"} => read = position
  /\ pc = "flat" =>
       \/ queue = <<>> /\ (visible = 0 => position = 0)
       \/ queue = <<OrderParams(-position, TRUE)>> /\ visible = position /\ position # 0

-----------------------------------------------------------------------------
(* The exchange *)

\* What the exchange and the orders sent to it do in a step.
LEMMA ExchangeSteps ==
  ASSUME [Next]_vars
  PROVE  /\ UNCHANGED setting
         /\ \/ UNCHANGED exchange
            \/ Meanwhile
            \/ pc = "place" /\ EntryTaken /\ pc' \in {"open", "ensure", "done"}
            \/ pc = "send" /\ CloseTaken(read) /\ pc' \in {"flat", "ensure", "disconnect", "done"}
<1> USE DEF exchange
<1>1. CASE \/ Connect \/ ConnectFails \/ ReadOnlyCheck \/ CheckPositions \/ Quote \/ WaitUntilOpen
           \/ CheckStopAttached \/ ClosePosition \/ Recheck \/ WaitUntilFlat \/ ClosedTrades
           \/ EnsureFlat \/ Disconnect \/ UNCHANGED vars
  BY <1>1 DEF Connect, ConnectFails, ReadOnlyCheck, CheckPositions, Quote, WaitUntilOpen,
              CheckStopAttached, ClosePosition, Recheck, WaitUntilFlat, ClosedTrades,
              EnsureFlat, Disconnect, vars
<1>2. /\ EntryTaken => UNCHANGED setting
      /\ CloseTaken(read) => UNCHANGED setting
      /\ ExchangeNext => UNCHANGED setting
  BY DEF EntryTaken, CloseTaken, AllClosed, Taken, ExchangeNext, Execute, Drop, ClosedOutside, Show
<1>3. CASE PlaceOrder \/ PlaceOrderFails
  BY <1>2, <1>3 DEF PlaceOrder, PlaceOrderFails, Finally
<1>4. CASE SendClose \/ SendCloseFails
  BY <1>2, <1>4 DEF SendClose, SendCloseFails, CloseReturns, CloseFails, Finally
<1>5. CASE Interrupt
  BY <1>2, <1>5 DEF Interrupt, Finally
<1>6. CASE Meanwhile
  BY <1>2, <1>6 DEF Meanwhile
<1> QED
  BY <1>1, <1>3, <1>4, <1>5, <1>6 DEF Next, Verification

\* A reduce-only order brings a position nearer to nothing, and not beyond, where the
\* exchange keeps it from that.
LEMMA AfterReducing ==
  ASSUME position \in Int, NEW order \in Orders
  PROVE  /\ After(order) \in Int
         /\ order.reduces /\ keeps =>
              /\ position >= 0 => After(order) \in 0..position
              /\ position <= 0 => After(order) \in position..0
         /\ ~order.reduces => After(order) = position + order.units
BY DEF After, Nearest, Orders

LEMMA OrderTypes ==
  ASSUME NEW units \in Int, NEW reduce_only \in BOOLEAN
  PROVE  /\ OrderParams(units, reduce_only) \in Orders
         /\ OrderParams(units, reduce_only).reduces = reduce_only
         /\ OrderParams(units, reduce_only).units = units
BY DEF OrderParams, Orders

ExchangeOK ==
  /\ position \in Int /\ visible \in Int /\ stop \in BOOLEAN
  /\ queue \in Seq(Orders)

\* Each of them is well typed and sends at most one order; what the exchange does on its
\* own sends none.
LEMMA ExchangeType ==
  ASSUME ExchangeOK, read \in Int,
         UNCHANGED exchange \/ ExchangeNext \/ EntryTaken \/ CloseTaken(read)
  PROVE  /\ ExchangeOK'
         /\ Len(queue') <= Len(queue) + 1
         /\ UNCHANGED exchange \/ ExchangeNext => Len(queue') <= Len(queue)
<1> USE DEF exchange
<1>1. Len(queue) \in Nat
  BY DEF ExchangeOK
<1>2. ASSUME NEW units \in Int, NEW protected \in BOOLEAN, Holds(units, protected)
      PROVE  position' \in Int /\ stop' \in BOOLEAN
  BY <1>2 DEF Holds
<1>3. ASSUME NEW order \in Orders, Taken(order)
      PROVE  ExchangeOK' /\ Len(queue') = Len(queue) + 1
  BY <1>3, AppendProperties DEF Taken, ExchangeOK
<1>4. ASSUME UNCHANGED exchange
      PROVE  ExchangeOK' /\ Len(queue') <= Len(queue)
  BY <1>1, <1>4 DEF ExchangeOK
<1>5. ASSUME ExchangeNext
      PROVE  ExchangeOK' /\ Len(queue') <= Len(queue)
  <2>1. queue # <<>> => /\ Head(queue) \in Orders /\ Tail(queue) \in Seq(Orders)
                       /\ Len(Tail(queue)) = Len(queue) - 1
    BY HeadTailProperties DEF ExchangeOK
  <2>2. CASE Execute
    <3>1. PICK attached \in BOOLEAN :
            Holds(After(Head(queue)), stop \/ (attached /\ Head(queue).stop))
      BY <2>2 DEF Execute
    <3>2. After(Head(queue)) \in Int /\ queue # <<>>
      BY <2>1, <2>2, AfterReducing DEF Execute, ExchangeOK
    <3>3. (stop \/ (attached /\ Head(queue).stop)) \in BOOLEAN
      OBVIOUS
    <3> QED
      BY <1>1, <1>2, <2>1, <2>2, <3>1, <3>2, <3>3 DEF Execute, ExchangeOK
  <2>3. CASE Drop
    BY <1>1, <2>1, <2>3 DEF Drop, ExchangeOK
  <2>4. CASE ClosedOutside
    <3>1. (IF position > 0 THEN position - 1 ELSE position + 1) \in Int /\ stop \in BOOLEAN
      BY DEF ExchangeOK
    <3> QED
      BY <1>1, <1>2, <2>4, <3>1 DEF ClosedOutside, ExchangeOK
  <2>5. CASE Show
    BY <1>1, <2>5 DEF Show, ExchangeOK
  <2> QED
    BY <1>1, <1>5, <2>2, <2>3, <2>4, <2>5 DEF ExchangeNext
<1>6. ASSUME EntryTaken
      PROVE  ExchangeOK' /\ Len(queue') <= Len(queue) + 1
  <2>1. CASE broker = "oanda"
    <3>1. Holds(position + Size, TRUE) /\ UNCHANGED <<visible, queue>>
      BY <1>6, <2>1 DEF EntryTaken
    <3>2. position' \in Int
      BY <3>1 DEF Holds, ExchangeOK, Size
    <3>3. stop' \in BOOLEAN
      BY <3>1 DEF Holds
    <3> QED
      BY <1>1, <3>1, <3>2, <3>3 DEF ExchangeOK
  <2>2. CASE broker # "oanda"
    <3> DEFINE order == OrderParams(Size, FALSE)
    <3>1. order \in Orders
      BY DEF OrderParams, Orders, Size
    <3>2. Taken(order)
      BY <1>6, <2>2 DEF EntryTaken
    <3> HIDE DEF order
    <3> QED
      BY <1>1, <1>3, <3>1, <3>2
  <2> QED
    BY <2>1, <2>2
<1>7. ASSUME CloseTaken(read)
      PROVE  ExchangeOK' /\ Len(queue') <= Len(queue) + 1
  <2>1. CASE broker = "oanda"
    <3>1. (IF position * read > 0 THEN 0 ELSE position) \in Int /\ stop \in BOOLEAN
      BY DEF ExchangeOK
    <3> QED
      BY <1>1, <1>2, <1>7, <2>1, <3>1 DEF CloseTaken, AllClosed, ExchangeOK
  <2>2. CASE broker # "oanda"
    <3> DEFINE order == OrderParams(-read, TRUE)
    <3>1. order \in Orders
      BY DEF OrderParams, Orders
    <3>2. Taken(order)
      BY <1>7, <2>2 DEF CloseTaken
    <3> HIDE DEF order
    <3> QED
      BY <1>1, <1>3, <3>1, <3>2
  <2> QED
    BY <2>1, <2>2
<1> QED
  BY <1>1, <1>4, <1>5, <1>6, <1>7

-----------------------------------------------------------------------------
(* Type correctness *)

PCs == Early \union {"open", "stop", "close", "recheck", "send", "flat", "trades", "ensure",
                     "disconnect", "done"}

Flags == /\ failed \in BOOLEAN /\ left \in BOOLEAN /\ raised \in BOOLEAN /\ sent \in BOOLEAN
         /\ reports \in BOOLEAN /\ dry_run \in BOOLEAN /\ crossed \in BOOLEAN /\ opened \in BOOLEAN

ControlOK ==
  /\ read \in Int /\ pc \in PCs /\ phase \in {"trip", "ensure"} /\ tries \in 0..SETTLE_RETRIES
  /\ (pc \in {"open", "flat"} => tries > 0) /\ (pc \in {"send", "recheck"} => read # 0)

SettingOK ==
  /\ broker \in Brokers /\ markets \in MarketLists /\ lists \in BOOLEAN /\ keeps \in BOOLEAN
  /\ held \in Holdings \union {0}

LEMMA TypeParts ==
  /\ TypeOK <=> SettingOK /\ ExchangeOK /\ Flags /\ ControlOK /\ Len(queue) <= 3
  /\ TypeOK' <=> SettingOK' /\ ExchangeOK' /\ Flags' /\ ControlOK' /\ Len(queue') <= 3
BY DEF TypeOK, SettingOK, ExchangeOK, Flags, ControlOK, PCs, Early

\* What is seen of the position.
LEMMA SeenType ==
  ASSUME visible \in Int, NEW seen \in PositionAnswers
  PROVE  seen \in Int \/ seen = NoAnswer
BY DEF PositionAnswers, SeenByCcxt

LEMMA FlagsNext ==
  ASSUME Flags, [Next]_vars
  PROVE  Flags'
<1> USE DEF Flags, Checked, Finally, control, report
<1>6. crossed' \in BOOLEAN /\ opened' \in BOOLEAN
  <2>1. CASE UNCHANGED noted
    BY <2>1 DEF noted
  <2>2. CASE Meanwhile
    BY <2>2 DEF Meanwhile
  <2> QED
    BY <2>1, <2>2 DEF Next, Verification, vars
<1>1. CASE Connect \/ ConnectFails \/ ReadOnlyCheck \/ CheckPositions \/ Quote
  BY <1>6, <1>1 DEF Connect, ConnectFails, ReadOnlyCheck, CheckPositions, Quote, ProbedHistory
<1>2. CASE PlaceOrder \/ PlaceOrderFails \/ WaitUntilOpen \/ CheckStopAttached
  BY <1>6, <1>2 DEF PlaceOrder, PlaceOrderFails, WaitUntilOpen, CheckStopAttached, NeverShown
<1>3. CASE ClosePosition \/ Recheck \/ SendClose \/ SendCloseFails
  BY <1>6, <1>3 DEF ClosePosition, Recheck, SendClose, SendCloseFails, CloseFails, CloseReturns
<1>4. CASE WaitUntilFlat \/ ClosedTrades \/ EnsureFlat \/ Disconnect \/ Interrupt
  BY <1>6, <1>4 DEF WaitUntilFlat, LookAgain, ClosedTrades, EnsureFlat, Disconnect, Interrupt
<1>5. CASE Meanwhile \/ UNCHANGED vars
  BY <1>6, <1>5 DEF Meanwhile, vars, noted
<1> QED
  BY <1>1, <1>2, <1>3, <1>4, <1>5, <1>6 DEF Next, Verification, vars

\* The control goes on as it may, and leaves room for every order that is sent.
LEMMA ControlNext ==
  ASSUME ControlOK, Phased, visible \in Int, [Next]_vars
  PROVE  /\ ControlOK' /\ Phased' /\ Allowed <= Allowed'
         /\ pc \in {"place", "send"} /\ pc' # pc => Allowed + 1 <= Allowed'
<1> USE DEF ControlOK, Phased, Allowed, PCs, Early, Finally, control
<1>1. CASE Connect \/ ConnectFails \/ ReadOnlyCheck \/ CheckPositions \/ Quote
  BY <1>1 DEF Connect, ConnectFails, ReadOnlyCheck, CheckPositions, Quote
<1>2. CASE PlaceOrder \/ PlaceOrderFails
  <2>1. /\ pc = "place" /\ UNCHANGED read
        /\ \/ pc' = "open" /\ tries' = SETTLE_RETRIES /\ UNCHANGED phase
           \/ pc' = "ensure" /\ phase' = "ensure" /\ UNCHANGED tries
    BY <1>2 DEF PlaceOrder, PlaceOrderFails
  <2> QED
    BY <2>1, RetriesAssumption
<1>3. CASE WaitUntilOpen
  <2>1. /\ pc = "open" /\ UNCHANGED read
        /\ \/ pc' \in {"open", "stop"} /\ UNCHANGED phase
           \/ pc' = "ensure" /\ phase' = "ensure"
        /\ tries' = tries \/ (tries > 1 /\ tries' = tries - 1)
    BY <1>3 DEF WaitUntilOpen, NeverShown
  <2> QED
    BY <2>1, RetriesAssumption
<1>4. CASE CheckStopAttached
  BY <1>4 DEF CheckStopAttached
<1>5. CASE ClosePosition
  <2>1. PICK seen \in PositionAnswers :
          \/ seen = NoAnswer /\ CloseFails /\ UNCHANGED <<read, tries>>
          \/ seen = 0 /\ CloseReturns(FALSE) /\ UNCHANGED read
          \/ /\ seen \notin {0, NoAnswer} /\ read' = seen /\ UNCHANGED <<phase, tries>>
             /\ pc' = IF broker = "oanda" THEN "send" ELSE "recheck"
    BY <1>5 DEF ClosePosition
  <2>2. /\ pc = "close"
        /\ \/ pc' = "ensure" /\ phase' = "ensure" /\ UNCHANGED <<read, tries>>
           \/ /\ pc' = "disconnect" /\ phase = "ensure"
              /\ UNCHANGED <<phase, read, tries>>
           \/ pc' = "flat" /\ tries' = SETTLE_RETRIES /\ UNCHANGED <<phase, read>>
           \/ pc' \in {"send", "recheck"} /\ read' \in Int \ {0} /\ UNCHANGED <<phase, tries>>
    BY <1>5, <2>1, SeenType DEF ClosePosition, CloseFails, CloseReturns
  <2> QED
    BY <2>2, RetriesAssumption
<1>6. CASE Recheck
  <2>1. /\ pc = "recheck" /\ UNCHANGED <<read, tries>>
        /\ \/ pc' = "ensure" /\ phase' = "ensure"
           \/ pc' = "disconnect" /\ phase = "ensure" /\ UNCHANGED phase
           \/ pc' = "send" /\ UNCHANGED phase
    BY <1>6 DEF Recheck, CloseFails
  <2> QED
    BY <2>1, RetriesAssumption
<1>7. CASE SendClose \/ SendCloseFails
  <2>1. /\ pc = "send" /\ UNCHANGED read
        /\ \/ pc' = "ensure" /\ phase = "trip" /\ phase' = "ensure" /\ UNCHANGED tries
           \/ pc' = "disconnect" /\ phase = "ensure" /\ UNCHANGED <<phase, tries>>
           \/ pc' = "flat" /\ tries' = SETTLE_RETRIES /\ UNCHANGED phase
    BY <1>7 DEF SendClose, SendCloseFails, CloseFails, CloseReturns
  <2>2. ControlOK' /\ Phased'
    BY <2>1, RetriesAssumption
  <2>3. CASE phase = "trip"
    BY <2>1, <2>2, <2>3
  <2>4. CASE phase = "ensure"
    BY <2>1, <2>2, <2>4
  <2> QED
    BY <2>3, <2>4
<1>8. CASE WaitUntilFlat
  <2>1. /\ pc = "flat" /\ UNCHANGED read
        /\ \/ pc' = "ensure" /\ phase = "trip" /\ phase' = "ensure"
           \/ pc' = "disconnect" /\ phase = "ensure" /\ UNCHANGED phase
           \/ pc' = "trades" /\ phase = "trip" /\ UNCHANGED phase
           \/ pc' = "flat" /\ UNCHANGED phase
        /\ tries' = tries \/ (tries > 1 /\ tries' = tries - 1)
    BY <1>8 DEF WaitUntilFlat, LookAgain
  <2>2. ControlOK' /\ Phased'
    BY <2>1, RetriesAssumption
  <2>3. CASE phase = "trip"
    BY <2>1, <2>2, <2>3
  <2>4. CASE phase = "ensure"
    BY <2>1, <2>2, <2>4
  <2> QED
    BY <2>3, <2>4
<1>9. CASE ClosedTrades
  BY <1>9 DEF ClosedTrades
<1>10. CASE EnsureFlat
  BY <1>10 DEF EnsureFlat
<1>11. CASE Disconnect
  BY <1>11 DEF Disconnect
<1>12. CASE Interrupt
  BY <1>12 DEF Interrupt
<1>13. CASE Meanwhile \/ UNCHANGED vars
  BY <1>13 DEF Meanwhile, vars, noted
<1> QED
  BY <1>1, <1>2, <1>3, <1>4, <1>5, <1>6, <1>7, <1>8, <1>9, <1>10, <1>11, <1>12, <1>13
     DEF Next, Verification, vars

LEMMA VerifyTypeInit == Init => TypeOK /\ Phased /\ QueueFits
<1> SUFFICES ASSUME Init PROVE TypeOK /\ Phased /\ QueueFits
  OBVIOUS
<1>1. SettingOK
  BY DEF Init, Account, SettingOK
<1>2. ExchangeOK /\ queue = <<>>
  <2>1. held \in Int
    BY <1>1, ExchangeAssumption DEF SettingOK
  <2>2. queue = <<>> /\ <<>> \in Seq(Orders) /\ position = held /\ visible = held
    BY DEF Init, Account
  <2>3. stop \in BOOLEAN
    BY DEF Init, Account
  <2> QED
    BY <2>1, <2>2, <2>3 DEF ExchangeOK
<1>3. Flags
  BY DEF Init, Flags
<1>4. ControlOK /\ Phased /\ Allowed = 0
  BY RetriesAssumption DEF Init, ControlOK, Phased, Allowed, PCs, Early
<1> QED
  BY <1>1, <1>2, <1>3, <1>4, TypeParts DEF QueueFits

LEMMA VerifyTypeNext ==
  TypeOK /\ Phased /\ QueueFits /\ [Next]_vars => TypeOK' /\ Phased' /\ QueueFits'
<1> SUFFICES ASSUME TypeOK, Phased, QueueFits, [Next]_vars PROVE TypeOK' /\ Phased' /\ QueueFits'
  OBVIOUS
<1>1. SettingOK /\ ExchangeOK /\ Flags /\ ControlOK
  BY TypeParts
<1>2. SettingOK'
  BY <1>1, ExchangeSteps DEF SettingOK, setting
<1>3. Flags'
  BY <1>1, FlagsNext
<1>4. /\ ControlOK' /\ Phased' /\ Allowed <= Allowed'
      /\ pc \in {"place", "send"} /\ pc' # pc => Allowed + 1 <= Allowed'
  BY <1>1, ControlNext DEF ExchangeOK
<1>5. read \in Int
  BY <1>1 DEF ControlOK
<1>6. /\ ExchangeOK' /\ Len(queue') <= Len(queue) + 1
      /\ UNCHANGED exchange \/ ExchangeNext => Len(queue') <= Len(queue)
  BY <1>1, <1>5, ExchangeSteps, ExchangeType DEF Meanwhile
<1>7. /\ Len(queue) \in Nat /\ Len(queue') \in Nat
      /\ Allowed \in 0..3 /\ Allowed' \in 0..3 /\ Len(queue) <= Allowed
  BY <1>1, <1>6 DEF ExchangeOK, Allowed, QueueFits
<1>8. Len(queue') <= Allowed'
  <2>1. CASE UNCHANGED exchange \/ ExchangeNext
    BY <1>4, <1>6, <1>7, <2>1
  <2>2. CASE pc \in {"place", "send"} /\ pc' # pc
    BY <1>4, <1>6, <1>7, <2>2
  <2> QED
    BY <2>1, <2>2, ExchangeSteps DEF Meanwhile
<1> QED
  BY <1>2, <1>3, <1>4, <1>6, <1>7, <1>8, TypeParts DEF QueueFits

LEMMA VerifyAlways == Spec => [](TypeOK /\ Phased /\ QueueFits)
BY VerifyTypeInit, VerifyTypeNext, PTL DEF Spec

\* The state of a verification is what TypeOK says, and never more than three orders are
\* waiting.
THEOREM VerifyTypeCorrect == Spec => []TypeOK
BY VerifyAlways, PTL

-----------------------------------------------------------------------------
(* The orders waiting *)

LEMMA Ints ==
  ASSUME TypeOK
  PROVE  /\ held \in Int /\ position \in Int /\ visible \in Int /\ read \in Int
         /\ queue \in Seq(Orders) /\ ExchangeOK
<1>1. SettingOK /\ ExchangeOK /\ ControlOK
  BY TypeParts
<1> QED
  BY <1>1, ExchangeAssumption DEF SettingOK, ExchangeOK, ControlOK

\* An order the exchange is done with was the first.
LEMMA FirstDone ==
  ASSUME queue \in Seq(Orders), queue # <<>>, queue' = Tail(queue)
  PROVE  /\ Head(queue) \in Orders /\ Head(queue) = queue[1] /\ 1 \in DOMAIN queue
         /\ \A i \in DOMAIN queue' :
              i + 1 \in DOMAIN queue /\ i + 1 # 1 /\ queue'[i] = queue[i + 1]
BY HeadTailProperties

\* An order that is sent is the last.
LEMMA LastSent ==
  ASSUME queue \in Seq(Orders), NEW order \in Orders, queue' = Append(queue, order)
  PROVE  /\ Len(queue') = Len(queue) + 1
         /\ \A i \in DOMAIN queue' :
              \/ i \in DOMAIN queue /\ queue'[i] = queue[i]
              \/ i = Len(queue) + 1 /\ queue'[i] = order
BY AppendProperties

-----------------------------------------------------------------------------
(* Success means flat *)

\* Nothing seen is nothing shown, and something seen is something shown unless the exchange
\* lists what is not there.
LEMMA Answered ==
  ASSUME visible \in Int, ReadErrors \subseteq {"oanda"}, lists => broker # "oanda",
         NEW seen \in PositionAnswers
  PROVE  /\ seen = 0 => visible = 0 /\ ~lists
         /\ seen # 0 /\ seen # NoAnswer /\ ~lists => visible # 0
<1>1. NoAnswer # 0
  BY ExchangeAssumption
<1>2. CASE broker = "oanda"
  BY <1>1, <1>2 DEF PositionAnswers
<1>3. CASE broker # "oanda"
  <2>1. seen = SeenByCcxt
    BY <1>3 DEF PositionAnswers
  <2> QED
    BY <2>1 DEF SeenByCcxt
<1> QED
  BY <1>2, <1>3

\* With nothing but reduce-only orders waiting, and kept so, the exchange opens nothing, and
\* it does not hide a position.
LEMMA SettledStays ==
  ASSUME keeps, ExchangeOK, Reduces, visible = 0 => position = 0, ExchangeNext
  PROVE  /\ Reduces' /\ (visible' = 0 => position' = 0)
         /\ position = 0 => position' = 0
         /\ queue = <<>> => queue' = <<>>
         /\ visible = 0 => visible' = 0
<1>1. position \in Int /\ visible \in Int /\ queue \in Seq(Orders)
  BY DEF ExchangeOK
<1>2. CASE Execute
  <2>1. queue # <<>> /\ queue' = Tail(queue) /\ position' = After(Head(queue)) /\ UNCHANGED visible
    BY <1>2 DEF Execute, Holds
  <2>2. Head(queue) \in Orders /\ Head(queue).reduces
    BY <1>1, <2>1, FirstDone DEF Reduces
  <2>3. Reduces'
    BY <1>1, <2>1, FirstDone DEF Reduces
  <2>4. position = 0 => position' = 0
    BY <1>1, <2>1, <2>2, AfterReducing
  <2> QED
    BY <2>1, <2>3, <2>4
<1>3. CASE Drop
  BY <1>1, <1>3, FirstDone DEF Drop, Reduces
<1>4. CASE ClosedOutside
  BY <1>1, <1>4 DEF ClosedOutside, Holds, Reduces
<1>5. CASE Show
  BY <1>5 DEF Show, Reduces
<1> QED
  BY <1>2, <1>3, <1>4, <1>5 DEF ExchangeNext

\* While the entry is waited for, the exchange shows nothing it has not executed.
LEMMA OpeningStays ==
  ASSUME ExchangeOK, Len(queue) <= 1, position # 0 \/ visible # 0 => queue = <<>>, ExchangeNext
  PROVE  Len(queue') <= 1 /\ (position' # 0 \/ visible' # 0 => queue' = <<>>)
<1>1. position \in Int /\ visible \in Int /\ queue \in Seq(Orders)
  BY DEF ExchangeOK
<1>2. CASE Execute \/ Drop
  <2>1. queue # <<>> /\ queue' = Tail(queue)
    BY <1>2 DEF Execute, Drop
  <2>2. Len(queue) \in Nat \ {0} /\ queue' \in Seq(Orders) /\ Len(queue') = Len(queue) - 1
    BY <1>1, <2>1, HeadTailProperties, EmptySeq
  <2>3. Len(queue') = 0
    BY <2>2
  <2>4. queue' = <<>>
    BY <2>2, <2>3, EmptySeq
  <2> QED
    BY <2>3, <2>4
<1>3. CASE ClosedOutside \/ Show
  BY <1>1, <1>3 DEF ClosedOutside, Show
<1> QED
  BY <1>2, <1>3 DEF ExchangeNext

\* Where no order is sent and nothing executed, Kept is a matter of the control.
LEMMA KeptStill ==
  ASSUME UNCHANGED exchange,
         /\ pc' = "done" => phase' = "ensure"
         /\ pc' # "open" => Reduces /\ (visible = 0 => position = 0)
         /\ pc' \in {"candles", "quote", "place"} => queue = <<>> /\ visible = 0 /\ ~lists
         /\ pc' = "open" => Len(queue) <= 1 /\ ~lists /\ (position # 0 \/ visible # 0 => queue = <<>>)
         /\ pc' = "trades" \/ phase' = "ensure" => position = 0
  PROVE  Kept'
<1>1. UNCHANGED <<lists, position, visible, queue>>
  BY DEF exchange, setting
<1>2. Reduces => Reduces'
  BY <1>1 DEF Reduces
<1>3. Len(queue') = Len(queue)
  BY <1>1
<1> QED
  BY <1>1, <1>2, <1>3 DEF Kept

\* A close that is sent opens nothing.
LEMMA KeptByClose ==
  ASSUME ExchangeOK, read \in Int, Reduces, visible = 0 => position = 0,
         CloseTaken(read) \/ UNCHANGED exchange
  PROVE  /\ Reduces' /\ (visible' = 0 => position' = 0)
         /\ position = 0 => position' = 0
<1>1. position \in Int /\ queue \in Seq(Orders)
  BY DEF ExchangeOK
<1>2. CASE UNCHANGED exchange
  BY <1>2 DEF exchange, Reduces
<1>3. CASE CloseTaken(read) /\ broker = "oanda"
  <2>1. position' \in {0, position} /\ UNCHANGED <<visible, queue>>
    BY <1>3 DEF CloseTaken, AllClosed, Holds
  <2> QED
    BY <2>1 DEF Reduces
<1>4. CASE CloseTaken(read) /\ broker # "oanda"
  <2> DEFINE order == OrderParams(-read, TRUE)
  <2>1. order \in Orders /\ order.reduces
    BY DEF OrderParams, Orders
  <2>2. queue' = Append(queue, order) /\ UNCHANGED <<position, visible>>
    BY <1>4 DEF CloseTaken, Taken
  <2> HIDE DEF order
  <2>3. \A i \in DOMAIN queue' : queue'[i].reduces
    BY <1>1, <2>1, <2>2, LastSent DEF Reduces
  <2> QED
    BY <2>2, <2>3 DEF Reduces
<1> QED
  BY <1>2, <1>3, <1>4

LEMMA CleanBefore ==
  ASSUME Flags, [Next]_vars, Clean'
  PROVE  Clean
<1> USE DEF Clean, Flags, Checked, control, report
<1>1. CASE Connect \/ ConnectFails \/ ReadOnlyCheck \/ CheckPositions \/ Quote
  BY <1>1 DEF Connect, ConnectFails, ReadOnlyCheck, CheckPositions, Quote
<1>2. CASE PlaceOrder \/ PlaceOrderFails \/ WaitUntilOpen \/ CheckStopAttached
  BY <1>2 DEF PlaceOrder, PlaceOrderFails, WaitUntilOpen, CheckStopAttached, NeverShown
<1>3. CASE ClosePosition \/ Recheck \/ SendClose \/ SendCloseFails
  BY <1>3 DEF ClosePosition, Recheck, SendClose, SendCloseFails, CloseFails, CloseReturns
<1>4. CASE WaitUntilFlat \/ ClosedTrades \/ EnsureFlat \/ Disconnect \/ Interrupt
  BY <1>4 DEF WaitUntilFlat, LookAgain, ClosedTrades, EnsureFlat, Disconnect, Interrupt
<1>5. CASE Meanwhile \/ UNCHANGED vars
  BY <1>5 DEF Meanwhile, vars, noted
<1> QED
  BY <1>1, <1>2, <1>3, <1>4, <1>5 DEF Next, Verification, vars

LEMMA CrossedStays ==
  ASSUME Flags, [Next]_vars, ~crossed'
  PROVE  ~crossed
<1>1. CASE UNCHANGED noted
  BY <1>1 DEF noted
<1>2. CASE Meanwhile
  BY <1>2 DEF Meanwhile
<1> QED
  BY <1>1, <1>2 DEF Next, Verification, vars

\* Before the entry is sent no order is waiting.
LEMMA NothingSent ==
  ASSUME queue \in Seq(Orders), Phased, QueueFits, pc \in Early
  PROVE  queue = <<>>
<1>1. Len(queue) \in Nat /\ Len(queue) <= 0
  BY DEF Phased, QueueFits, Allowed
<1> QED
  BY <1>1, EmptySeq

LEMMA KeptNext ==
  ASSUME ReadErrors \subseteq {"oanda"}, TypeOK, Phased, QueueFits, lists => broker # "oanda",
         keeps, Kept, [Next]_vars, Clean'
  PROVE  Kept'
<1>1. /\ visible \in Int /\ position \in Int /\ read \in Int /\ queue \in Seq(Orders)
      /\ ExchangeOK /\ Flags /\ phase \in {"trip", "ensure"}
  BY Ints, TypeParts DEF ControlOK
<1>2. Clean
  BY <1>1, CleanBefore
<1>3. ~failed' /\ ~raised' /\ ~failed /\ ~raised
  BY <1>2 DEF Clean
<1>4. CASE Meanwhile
  <2>1. UNCHANGED <<pc, phase, lists>> /\ ExchangeNext
    BY <1>4, ExchangeSteps DEF setting, Meanwhile
  <2>2. CASE pc = "open"
    <3>1. Len(queue') <= 1 /\ (position' # 0 \/ visible' # 0 => queue' = <<>>)
      BY <1>1, <2>1, <2>2, OpeningStays DEF Kept
    <3> QED
      BY <2>1, <2>2, <3>1 DEF Kept, Phased, Early
  <2>3. CASE pc # "open"
    <3>1. /\ Reduces' /\ (visible' = 0 => position' = 0)
          /\ position = 0 => position' = 0
          /\ queue = <<>> => queue' = <<>>
          /\ position = 0 /\ visible = 0 => visible' = 0
      BY <1>1, <2>1, <2>3, SettledStays DEF Kept
    <3> QED
      BY <2>1, <2>3, <3>1 DEF Kept
  <2> QED
    BY <2>2, <2>3
<1>5. CASE UNCHANGED vars
  <2>1. UNCHANGED <<exchange, pc, phase>>
    BY <1>5 DEF vars
  <2> QED
    BY <2>1, KeptStill DEF Kept
<1>6. CASE Connect \/ ConnectFails \/ ReadOnlyCheck \/ Quote \/ CheckStopAttached
  <2>1. /\ UNCHANGED exchange
        /\ \/ pc \in {"connect", "balance", "ticker", "stop"}
              /\ pc' \in {"balance", "ticker", "positions", "close"} /\ UNCHANGED phase
           \/ pc = "candles" /\ pc' = "quote" /\ UNCHANGED phase
           \/ pc = "candles" /\ pc' = "ensure"
           \/ pc = "quote" /\ pc' = "place" /\ UNCHANGED phase
    BY <1>3, <1>6
       DEF Connect, ConnectFails, ReadOnlyCheck, Quote, CheckStopAttached, Checked, Finally
  <2> QED
    BY <2>1, KeptStill DEF Kept, Phased, Early
<1>7. CASE CheckPositions
  <2>1. PICK seen \in PositionAnswers : failed' = (failed \/ ~(seen = 0))
    BY <1>7 DEF CheckPositions, Checked
  <2>2. pc = "positions" /\ pc' = "candles" /\ UNCHANGED exchange /\ UNCHANGED phase
    BY <1>7 DEF CheckPositions
  <2>3. seen = 0
    BY <1>3, <2>1
  <2>4. visible = 0 /\ ~lists
    BY <1>1, <2>3, Answered
  <2>5. queue = <<>>
    BY <1>1, <2>2, NothingSent DEF Early
  <2> QED
    BY <2>2, <2>4, <2>5, KeptStill DEF Kept, Phased, Early
<1>8. CASE PlaceOrder
  <2>1. /\ pc = "place" /\ pc' = "open" /\ UNCHANGED phase /\ EntryTaken
        /\ queue = <<>> /\ visible = 0 /\ position = 0 /\ ~lists /\ phase = "trip"
    BY <1>8 DEF PlaceOrder, Kept, Phased, Early
  <2>2. UNCHANGED lists
    BY ExchangeSteps DEF setting
  <2>3. CASE broker = "oanda"
    <3>1. UNCHANGED queue
      BY <2>1, <2>3 DEF EntryTaken
    <3>2. Len(queue') <= 1
      BY <2>1, <3>1, EmptySeq
    <3> QED
      BY <2>1, <2>2, <3>1, <3>2 DEF Kept
  <2>4. CASE broker # "oanda"
    <3> DEFINE order == OrderParams(Size, FALSE)
    <3>1. order \in Orders
      BY DEF OrderParams, Orders, Size
    <3>2. queue' = Append(queue, order) /\ UNCHANGED <<position, visible>>
      BY <2>1, <2>4 DEF EntryTaken, Taken
    <3> HIDE DEF order
    <3>3. Len(queue') = Len(queue) + 1 /\ Len(queue) = 0
      BY <1>1, <2>1, <3>1, <3>2, LastSent, EmptySeq
    <3> QED
      BY <2>1, <2>2, <3>2, <3>3 DEF Kept
  <2> QED
    BY <2>3, <2>4
<1>9. CASE PlaceOrderFails
  BY <1>3, <1>9 DEF PlaceOrderFails, Checked
<1>10. CASE WaitUntilOpen
  <2>1. PICK seen \in PositionAnswers :
          \/ seen \notin {0, NoAnswer} /\ pc' = "stop" /\ UNCHANGED phase
          \/ pc' = "open" /\ UNCHANGED phase
    BY <1>3, <1>10 DEF WaitUntilOpen, NeverShown, Checked
  <2>2. pc = "open" /\ UNCHANGED exchange /\ phase = "trip"
    BY <1>10 DEF WaitUntilOpen, Phased
  <2>3. CASE pc' = "open"
    BY <2>1, <2>2, <2>3, KeptStill DEF Kept
  <2>4. CASE pc' = "stop"
    <3>1. seen \notin {0, NoAnswer} /\ ~lists
      BY <2>1, <2>2, <2>4 DEF Kept
    <3>2. visible # 0
      BY <1>1, <3>1, Answered
    <3>3. queue = <<>> /\ Reduces
      BY <2>2, <3>2 DEF Kept, Reduces
    <3> QED
      BY <2>1, <2>2, <2>4, <3>2, <3>3, KeptStill DEF Kept
  <2> QED
    BY <2>1, <2>3, <2>4
<1>11. CASE ClosePosition \/ Recheck
  <2>1. /\ pc \in {"close", "recheck"} /\ UNCHANGED <<exchange, phase>>
        /\ \/ phase = "ensure" /\ pc' \in {"disconnect", "flat"}
           \/ pc' \in {"send", "recheck"}
    BY <1>1, <1>3, <1>11
       DEF ClosePosition, Recheck, CloseFails, CloseReturns, Checked, Finally
  <2> QED
    BY <2>1, KeptStill DEF Kept
<1>12. CASE SendClose \/ SendCloseFails
  <2>1. /\ pc = "send" /\ (CloseTaken(read) \/ UNCHANGED exchange) /\ UNCHANGED phase
        /\ pc' = "flat" \/ (phase = "ensure" /\ pc' = "disconnect")
    BY <1>1, <1>3, <1>12 DEF SendClose, SendCloseFails, CloseFails, CloseReturns, Checked, Finally
  <2>2. /\ Reduces' /\ (visible' = 0 => position' = 0)
        /\ position = 0 => position' = 0
    BY <1>1, <2>1, KeptByClose DEF Kept
  <2> QED
    BY <2>1, <2>2 DEF Kept
<1>13. CASE WaitUntilFlat
  <2>1. PICK seen \in PositionAnswers :
          \/ pc' = "flat" /\ UNCHANGED phase
          \/ phase = "ensure" /\ pc' = "disconnect" /\ UNCHANGED phase
          \/ seen = 0 /\ pc' = "trades" /\ UNCHANGED phase
    BY <1>1, <1>3, <1>13 DEF WaitUntilFlat, LookAgain, Checked, Finally
  <2>2. pc = "flat" /\ UNCHANGED exchange
    BY <1>13 DEF WaitUntilFlat
  <2>3. seen = 0 => position = 0
    BY <1>1, <2>2, Answered DEF Kept
  <2> QED
    BY <2>1, <2>2, <2>3, KeptStill DEF Kept
<1>14. CASE ClosedTrades \/ EnsureFlat \/ Disconnect
  <2>1. /\ UNCHANGED exchange
        /\ \/ pc = "trades" /\ pc' = "ensure"
           \/ pc = "ensure" /\ pc' \in {"disconnect", "close"} /\ UNCHANGED phase
           \/ pc = "disconnect" /\ pc' = "done" /\ UNCHANGED phase
    BY <1>14 DEF ClosedTrades, EnsureFlat, Disconnect, Finally
  <2> QED
    BY <2>1, KeptStill DEF Kept, Phased
<1>15. CASE Interrupt
  BY <1>3, <1>15 DEF Interrupt
<1>16. CASE ConnectFails
  BY <1>3, <1>16 DEF ConnectFails
<1> QED
  BY <1>4, <1>5, <1>6, <1>7, <1>8, <1>9, <1>10, <1>11, <1>12, <1>13, <1>14, <1>15, <1>16
     DEF Next, Verification

-----------------------------------------------------------------------------
(* With nobody else closing *)

\* The two orders there may be, alone in the queue: the entry opens a position, and a close of
\* what is held brings it to nothing, reduce-only or not.
LEMMA Alone ==
  ASSUME position \in Int
  PROVE  /\ After(OrderParams(Size, FALSE)) = position + Size
         /\ After(OrderParams(-position, TRUE)) = 0
         /\ ~OrderParams(Size, FALSE).reduces
         /\ Closes(position, 0) /\ Closes(position, position)
BY DEF After, Nearest, OrderParams, Closes, Size

\* With an empty queue the exchange only shows the position, or it is closed before an order
\* was sent.
LEMMA OrderlyAtRest ==
  ASSUME ExchangeOK, Orderly, queue = <<>>, Meanwhile, ~crossed', pc \in PCs
  PROVE  Orderly'
<1>1. /\ position \in Int /\ visible \in Int
      /\ UNCHANGED <<pc, phase, read, sent>> /\ ExchangeNext
  BY DEF ExchangeOK, Meanwhile, control, report
<1>2. \/ ClosedOutside /\ UNCHANGED <<visible, lists, queue>> /\ position # 0
      \/ Show /\ visible' = position /\ visible # position /\ UNCHANGED <<position, lists, queue>>
  BY <1>1 DEF ExchangeNext, Execute, Drop, ClosedOutside, Show, setting
<1>3. queue' = queue /\ ~opened'
  BY <1>2 DEF Meanwhile, Orderly
<1>4. CASE ClosedOutside
  <2>1. position' # position
    BY <1>1, <1>4 DEF ClosedOutside, Holds
  <2>2. ~sent
    BY <1>3, <2>1 DEF Meanwhile
  <2>3. pc \in {"connect", "balance", "ticker", "positions"} /\ visible # 0
    <3>1. position # 0
      BY <1>4 DEF ClosedOutside
    <3> QED
      BY <2>2, <3>1 DEF Orderly, Early, PCs
  <2>4. UNCHANGED visible
    BY <1>4 DEF ClosedOutside
  <2> QED
    BY <1>1, <1>3, <2>3, <2>4 DEF Orderly, Early
<1>5. CASE Show /\ visible' = position /\ visible # position /\ UNCHANGED <<position, lists, queue>>
  <2>1. pc \in {"connect", "balance", "ticker", "positions", "open", "flat"}
    BY <1>5 DEF Orderly, Early, PCs
  <2> QED
    BY <1>1, <1>3, <1>5, <2>1 DEF Orderly, Early
<1> QED
  BY <1>2, <1>4, <1>5

\* With an order waiting it executes the order, or drops it.
LEMMA OrderlyAtWork ==
  ASSUME ExchangeOK, Orderly, queue # <<>>, Phased, Meanwhile, ~crossed', pc \in PCs
  PROVE  Orderly'
<1>1. /\ position \in Int /\ visible \in Int /\ queue \in Seq(Orders)
      /\ UNCHANGED <<pc, phase, read, sent>> /\ ExchangeNext
  BY DEF ExchangeOK, Meanwhile, control, report
<1>2. /\ pc \in {"open", "flat"} /\ visible = position /\ sent
      /\ \/ pc = "open" /\ queue = <<OrderParams(Size, FALSE)>> /\ position = 0
         \/ pc = "flat" /\ queue = <<OrderParams(-position, TRUE)>> /\ position # 0
  BY DEF Orderly, Early, PCs
<1>3. /\ Tail(queue) = <<>> /\ UNCHANGED lists
      /\ pc = "open" => Head(queue) = OrderParams(Size, FALSE)
      /\ pc = "flat" => Head(queue) = OrderParams(-position, TRUE)
  <2>1. UNCHANGED lists
    BY <1>1 DEF ExchangeNext, Execute, Drop, ClosedOutside, Show, setting
  <2>2. ASSUME NEW order \in Orders, queue = <<order>>
        PROVE  Head(queue) = order /\ Tail(queue) = <<>>
    BY <2>2
  <2>3. OrderParams(Size, FALSE) \in Orders /\ OrderParams(-position, TRUE) \in Orders
    BY <1>1 DEF OrderParams, Orders, Size
  <2>4. CASE pc = "open"
    BY <1>2, <2>1, <2>2, <2>3, <2>4
  <2>5. CASE pc = "flat"
    BY <1>2, <2>1, <2>2, <2>3, <2>5
  <2> QED
    BY <1>2, <2>4, <2>5
<1>4. ~ClosedOutside /\ ~Show
  <2>1. ClosedOutside => queue' = queue /\ position' # position
    BY <1>1 DEF ClosedOutside, Holds
  <2> QED
    BY <1>2, <2>1 DEF Show, Meanwhile
<1>5. /\ queue' = <<>> /\ UNCHANGED visible
      /\ position' = position \/ position' = After(Head(queue))
  BY <1>1, <1>3, <1>4 DEF ExchangeNext, Execute, Drop, Holds
<1>6. CASE pc = "open"
  <2>1. Head(queue) = OrderParams(Size, FALSE)
    BY <1>3, <1>6
  <2>2. ~opened'
    BY <2>1, <1>1, Alone DEF Meanwhile, Orderly
  <2> QED
    BY <1>1, <1>2, <1>3, <1>5, <1>6, <2>2 DEF Orderly, Early
<1>7. CASE pc = "flat"
  <2>1. Head(queue) = OrderParams(-position, TRUE)
    BY <1>3, <1>7
  <2>2. position' \in {0, position}
    BY <2>1, <1>1, <1>5, Alone
  <2>3. ~opened'
    BY <1>1, <2>2, Alone DEF Meanwhile, Orderly
  <2>4. visible # 0
    BY <1>2, <1>7
  <2> QED
    BY <1>1, <1>2, <1>3, <1>5, <1>7, <2>3, <2>4 DEF Orderly, Early
<1> QED
  BY <1>2, <1>6, <1>7

\* The first orders meet an empty queue.
LEMMA OrderlyEntry ==
  ASSUME ExchangeOK, Phased, Orderly, pc = "place", EntryTaken, UNCHANGED <<lists, noted, phase>>,
         pc' = "open", sent'
  PROVE  Orderly'
<1>1. queue = <<>> /\ position = 0 /\ visible = 0 /\ ~lists /\ ~opened /\ phase = "trip"
  BY DEF Orderly, Phased, Early
<1>2. CASE broker = "oanda"
  <2>1. UNCHANGED <<queue, visible>>
    BY <1>2 DEF EntryTaken
  <2> QED
    BY <1>1, <2>1 DEF Orderly, noted, Early
<1>3. CASE broker # "oanda"
  <2>1. queue' = Append(queue, OrderParams(Size, FALSE)) /\ UNCHANGED <<position, visible>>
    BY <1>3 DEF EntryTaken, Taken
  <2>2. queue' = <<OrderParams(Size, FALSE)>>
    BY <1>1, <2>1
  <2> QED
    BY <1>1, <2>1, <2>2 DEF Orderly, noted, Early
<1> QED
  BY <1>2, <1>3

LEMMA OrderlyClose ==
  ASSUME ExchangeOK, Orderly, pc = "send", read # 0, CloseTaken(read),
         UNCHANGED <<lists, noted, phase>>, pc' = "flat", sent'
  PROVE  Orderly'
<1>1. /\ queue = <<>> /\ position = read /\ visible = read /\ ~lists /\ ~opened
      /\ phase = "trip" /\ position \in Int
  BY DEF Orderly, ExchangeOK
<1>2. CASE broker = "oanda"
  <2>1. UNCHANGED <<queue, visible>>
    BY <1>2 DEF CloseTaken, AllClosed
  <2> QED
    BY <1>1, <2>1 DEF Orderly, noted, Early
<1>3. CASE broker # "oanda"
  <2>1. queue' = Append(queue, OrderParams(-read, TRUE)) /\ UNCHANGED <<position, visible>>
    BY <1>3 DEF CloseTaken, Taken
  <2>2. queue' = <<OrderParams(-position, TRUE)>> /\ position' = position
    BY <1>1, <2>1
  <2> QED
    BY <1>1, <2>1, <2>2 DEF Orderly, noted, Early
<1> QED
  BY <1>2, <1>3

\* Where no order is sent and nothing executed, Orderly is a matter of the control.
LEMMA OrderlyStill ==
  ASSUME UNCHANGED <<exchange, noted>>, Orderly,
         pc' \in Early => queue = <<>> /\ (visible = 0 => position = 0),
         pc' \in {"candles", "quote", "place", "trades", "ensure", "disconnect", "done"} =>
           queue = <<>> /\ visible = 0 /\ position = 0,
         pc' \notin {"connect", "balance", "ticker", "positions"} => ~lists,
         pc' \in {"open", "stop", "close", "recheck", "send", "flat"} => sent' /\ phase' = "trip",
         pc' = "open" => pc = "open",
         pc' \in {"stop", "close", "recheck", "send"} => queue = <<>> /\ visible = position,
         pc' \in {"recheck", "send"} => read' = position,
         pc' = "flat" => pc = "flat" \/ (queue = <<>> /\ (visible = 0 => position = 0))
  PROVE  Orderly'
<1>1. UNCHANGED <<lists, position, visible, queue, opened>>
  BY DEF exchange, setting, noted
<1>2. OrderParams(-position, TRUE)' = OrderParams(-position, TRUE)
  BY <1>1 DEF OrderParams
<1> QED
  BY <1>1, <1>2 DEF Orderly

LEMMA OrderlyNext ==
  ASSUME ReadErrors \subseteq {"oanda"}, TypeOK, Phased, QueueFits, lists => broker # "oanda",
         Orderly, [Next]_vars, Clean', ~crossed'
  PROVE  Orderly'
<1>1. /\ visible \in Int /\ position \in Int /\ read \in Int /\ queue \in Seq(Orders)
      /\ ExchangeOK /\ Flags /\ phase \in {"trip", "ensure"} /\ pc \in PCs
      /\ pc \in {"send", "recheck"} => read # 0
  BY Ints, TypeParts DEF ControlOK
<1>2. ~failed' /\ ~raised' /\ ~failed /\ ~raised
  BY <1>1, CleanBefore DEF Clean
<1>3. UNCHANGED lists
  BY ExchangeSteps DEF setting
<1>4. CASE Meanwhile
  BY <1>1, <1>4, OrderlyAtRest, OrderlyAtWork
<1>5. CASE UNCHANGED vars
  <2>1. UNCHANGED <<exchange, control, noted, pc, phase, sent>>
    BY <1>5 DEF vars
  <2> QED
    BY <2>1, OrderlyStill DEF Orderly, control
<1>6. CASE Interrupt \/ ConnectFails \/ PlaceOrderFails
  BY <1>2, <1>6 DEF Interrupt, ConnectFails, PlaceOrderFails, Checked
<1> SUFFICES ASSUME Verification PROVE Orderly'
  BY <1>4, <1>5, <1>6 DEF Next
<1>7. UNCHANGED noted
  BY DEF Verification
<1>8. CASE Connect \/ ReadOnlyCheck \/ Quote \/ CheckStopAttached
  <2>1. /\ UNCHANGED <<exchange, sent>>
        /\ \/ pc \in {"connect", "balance", "ticker"}
              /\ pc' \in {"balance", "ticker", "positions"} /\ UNCHANGED phase
           \/ pc = "stop" /\ pc' = "close" /\ UNCHANGED phase
           \/ pc = "candles" /\ pc' = "quote" /\ UNCHANGED phase
           \/ pc = "candles" /\ pc' = "ensure"
           \/ pc = "quote" /\ pc' = "place" /\ UNCHANGED phase
    BY <1>2, <1>8 DEF Connect, ReadOnlyCheck, Quote, CheckStopAttached, Checked, Finally
  <2> QED
    BY <1>7, <2>1, OrderlyStill DEF Orderly, Early
<1>9. CASE CheckPositions
  <2>1. PICK seen \in PositionAnswers : failed' = (failed \/ ~(seen = 0))
    BY <1>9 DEF CheckPositions, Checked
  <2>2. pc = "positions" /\ pc' = "candles" /\ UNCHANGED exchange
    BY <1>9 DEF CheckPositions
  <2>3. visible = 0 /\ ~lists
    BY <1>1, <1>2, <2>1, Answered
  <2> QED
    BY <1>7, <2>2, <2>3, OrderlyStill DEF Orderly, Early
<1>10. CASE PlaceOrder
  BY <1>1, <1>3, <1>7, <1>10, OrderlyEntry DEF PlaceOrder
<1>11. CASE WaitUntilOpen
  <2>1. PICK seen \in PositionAnswers :
          \/ seen \notin {0, NoAnswer} /\ pc' = "stop"
          \/ pc' = "open"
    BY <1>2, <1>11 DEF WaitUntilOpen, NeverShown, Checked
  <2>2. pc = "open" /\ UNCHANGED <<exchange, sent>> /\ phase = "trip" /\ sent
    BY <1>11 DEF WaitUntilOpen, Orderly
  <2>3. UNCHANGED phase
    BY <1>2, <1>11 DEF WaitUntilOpen, NeverShown, Checked
  <2>4. CASE pc' = "open"
    BY <1>7, <2>2, <2>3, <2>4, OrderlyStill DEF Orderly, Early
  <2>5. CASE pc' = "stop"
    <3>1. seen \notin {0, NoAnswer} /\ ~lists
      BY <2>1, <2>2, <2>5 DEF Orderly
    <3>2. visible # 0
      BY <1>1, <3>1, Answered
    <3>3. queue = <<>> /\ visible = position
      BY <2>2, <3>2 DEF Orderly
    <3> QED
      BY <1>7, <2>2, <2>3, <2>5, <3>1, <3>3, OrderlyStill DEF Early
  <2> QED
    BY <2>1, <2>4, <2>5
<1>12. CASE ClosePosition
  <2>1. /\ pc = "close" /\ UNCHANGED <<exchange, sent>> /\ phase = "trip" /\ sent /\ ~lists
        /\ queue = <<>> /\ visible = position
    BY <1>12 DEF ClosePosition, Orderly
  <2>2. PICK seen \in PositionAnswers :
          /\ seen \notin {0, NoAnswer} /\ read' = seen /\ UNCHANGED phase
          /\ pc' \in {"send", "recheck"}
    BY <1>2, <1>12, <2>1 DEF ClosePosition, CloseFails, CloseReturns, Checked
  <2>3. seen = visible
    BY <2>1, <2>2 DEF PositionAnswers, SeenByCcxt
  <2> QED
    BY <1>7, <2>1, <2>2, <2>3, OrderlyStill DEF Early
<1>13. CASE Recheck
  <2>1. /\ pc = "recheck" /\ UNCHANGED <<exchange, sent, read>> /\ phase = "trip" /\ sent /\ ~lists
        /\ queue = <<>> /\ visible = position /\ read = position
    BY <1>13 DEF Recheck, Orderly, control
  <2>2. pc' = "send" /\ UNCHANGED phase
    BY <1>2, <1>13, <2>1 DEF Recheck, CloseFails, Checked
  <2> QED
    BY <1>7, <2>1, <2>2, OrderlyStill DEF Early
<1>14. CASE SendClose
  BY <1>1, <1>3, <1>7, <1>14, OrderlyClose DEF SendClose, CloseReturns
<1>15. CASE SendCloseFails
  <2>1. phase = "trip"
    BY <1>15 DEF SendCloseFails, Orderly
  <2> QED
    BY <1>2, <1>15, <2>1 DEF SendCloseFails, CloseFails, Checked
<1>16. CASE WaitUntilFlat
  <2>1. /\ pc = "flat" /\ UNCHANGED <<exchange, sent>> /\ phase = "trip" /\ sent /\ ~lists
    BY <1>16 DEF WaitUntilFlat, Orderly
  <2>2. PICK seen \in PositionAnswers :
          \/ pc' = "flat" /\ UNCHANGED phase
          \/ seen = 0 /\ pc' = "trades" /\ UNCHANGED phase
    BY <1>2, <1>16, <2>1 DEF WaitUntilFlat, LookAgain, Checked
  <2>3. CASE pc' = "flat"
    BY <1>7, <2>1, <2>2, <2>3, OrderlyStill DEF Orderly, Early
  <2>4. CASE seen = 0 /\ pc' = "trades"
    <3>1. visible = 0
      BY <1>1, <2>4, Answered
    <3>2. position = 0 /\ queue = <<>>
      BY <2>1, <3>1 DEF Orderly
    <3> QED
      BY <1>7, <2>1, <2>2, <2>4, <3>1, <3>2, OrderlyStill DEF Early
  <2> QED
    BY <2>2, <2>3, <2>4
<1>17. CASE ClosedTrades \/ Disconnect
  <2>1. /\ UNCHANGED exchange
        /\ pc \in {"trades", "disconnect"} /\ pc' \in {"ensure", "done"}
    BY <1>17 DEF ClosedTrades, Disconnect, Finally
  <2> QED
    BY <1>7, <2>1, OrderlyStill DEF Orderly, Early
<1>18. CASE EnsureFlat
  <2>1. PICK seen \in PositionAnswers :
          pc' = IF seen \in {0, NoAnswer} THEN "disconnect" ELSE "close"
    BY <1>18 DEF EnsureFlat
  <2>2. pc = "ensure" /\ UNCHANGED exchange
    BY <1>18 DEF EnsureFlat
  <2>3. visible = 0 /\ ~lists
    BY <2>2 DEF Orderly
  <2>4. pc' = "disconnect"
    BY <1>1, <2>1, <2>3, Answered
  <2> QED
    BY <1>7, <2>2, <2>4, OrderlyStill DEF Orderly, Early
<1> QED
  BY <1>6, <1>8, <1>9, <1>10, <1>11, <1>12, <1>13, <1>14, <1>15, <1>16, <1>17, <1>18
     DEF Verification

-----------------------------------------------------------------------------
(* What a verification is for *)

Listing == lists => broker # "oanda"
Sound ==
  /\ Clean /\ keeps => Kept
  /\ Clean /\ ~crossed => Orderly

\* As long as nothing has failed the round trip is what it is meant to be, at an exchange
\* that keeps reduce-only and, unless somebody else closes too, at one that does not.
LEMMA SoundAlways ==
  ASSUME ReadErrors \subseteq {"oanda"}
  PROVE  Spec => []Sound
<1> DEFINE Whole == TypeOK /\ Phased /\ QueueFits
<1>1. Init => Listing /\ Sound
  <2> SUFFICES ASSUME Init PROVE Listing /\ Sound
    OBVIOUS
  <2>1. /\ position = visible /\ queue = <<>> /\ ~opened
        /\ lists \in (IF broker # "oanda" /\ Resolved = "swap" THEN BOOLEAN ELSE {FALSE})
        /\ pc = "connect" /\ phase = "trip"
    BY DEF Init, Account
  <2>2. Reduces
    BY <2>1 DEF Reduces
  <2>3. Kept /\ Orderly
    BY <2>1, <2>2 DEF Kept, Orderly
  <2> QED
    BY <2>1, <2>3 DEF Listing, Sound
<1>2. Whole /\ Listing /\ Sound /\ [Next]_vars => Listing' /\ Sound'
  <2> SUFFICES ASSUME Whole, Listing, Sound, [Next]_vars PROVE Listing' /\ Sound'
    OBVIOUS
  <2>1. Listing' /\ keeps' = keeps
    BY ExchangeSteps DEF setting, Listing
  <2>2. Clean' => Clean
    BY CleanBefore, TypeParts
  <2>3. ASSUME Clean', keeps' PROVE Kept'
    BY <2>1, <2>2, <2>3, KeptNext DEF Sound, Listing
  <2>4. ASSUME Clean', ~crossed' PROVE Orderly'
    <3>1. ~crossed
      BY <2>4, CrossedStays, TypeParts
    <3> QED
      BY <2>2, <2>4, <3>1, OrderlyNext DEF Sound, Listing
  <2> QED
    BY <2>1, <2>3, <2>4 DEF Sound
<1> QED
  BY <1>1, <1>2, VerifyAlways, PTL DEF Spec

\* A verification that reports success has closed what it opened and found nothing else,
\* provided that the call for positions fails with an error where it fails: the answer of
\* ccxt's adapter, no positions, is believed.  Where reduce-only is ignored it is so unless
\* the position was closed from outside as well.
THEOREM SuccessIsFlat ==
  ASSUME ReadErrors \subseteq {"oanda"}
  PROVE  Spec => []OkMeansFlat
<1>1. Sound => OkMeansFlat
  BY DEF OkMeansFlat, Sound, Kept, Orderly, Clean, ok, Reduces
<1> QED
  BY <1>1, SoundAlways, PTL

\* A close opens or reverses a position only in a verification that reports a failure, unless
\* the position was closed from outside as well, with reduce-only ignored or not; under the
\* same condition on failed calls for positions.
THEOREM OpeningsAreReported ==
  ASSUME ReadErrors \subseteq {"oanda"}
  PROVE  Spec => []OpeningIsReported
<1>1. Sound => OpeningIsReported
  BY DEF OpeningIsReported, Sound, Orderly, Clean
<1> QED
  BY <1>1, SoundAlways, PTL
=============================================================================
