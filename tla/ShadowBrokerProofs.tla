-------------------------- MODULE ShadowBrokerProofs --------------------------
(***************************************************************************)
(* Invariance proofs for ShadowBroker: for any symbols, bars, prices and     *)
(* orders, any number of restarts, and any writes of the file that fail.     *)
(***************************************************************************)
EXTENDS ShadowBroker, SequenceTheorems, TLAPS

-----------------------------------------------------------------------------
(* The inductive invariants, beside TypeOK *)

\* The file holds trades without an id: what is read back is what would be written again.
FileIsBare == file # NoFile => \A i \in DOMAIN file.closed : Bare(file.closed[i]) = file.closed[i]

\* A stop never was looser than the one the position was opened with, neither in memory
\* nor in the file.
Guarded(ps) ==
  \A s \in Symbols : ps[s] # NoPosition =>
    /\ ps[s].entry \in EntryPrices
    /\ ps[s].stop \in Nat
    /\ ps[s].stop * ps[s].side >= Stop[<<ps[s].side, ps[s].entry>>] * ps[s].side

StopsGuarded == Guarded(positions) /\ (file # NoFile => Guarded(file.positions))

Files == [cash : Int, closed : Seq(Trades), positions : [Symbols -> Positions \union {NoPosition}]]

-----------------------------------------------------------------------------
(* Payload, and what every fill has in common *)

LEMMA BareTrade ==
  ASSUME NEW t \in Trades
  PROVE  Bare(t) \in Trades /\ Bare(Bare(t)) = Bare(t) /\ Bare(t).pnl = t.pnl
BY DEF Bare, Trades, NoId

LEMMA BarePosition ==
  ASSUME NEW p \in Positions
  PROVE  /\ Bare(p) \in Positions
         /\ Bare(p).side = p.side /\ Bare(p).quantity = p.quantity /\ Bare(p).entry = p.entry
         /\ Bare(p).stop = p.stop /\ Bare(p).target = p.target
         /\ Bare(Bare(p)) = Bare(p)
BY DEF Bare, Positions, NoId

LEMMA PayloadType ==
  ASSUME NEW ps \in [Symbols -> Positions \union {NoPosition}], NEW c \in Int,
         NEW ts \in Seq(Trades)
  PROVE  /\ Payload(ps, c, ts) \in Files
         /\ Payload(ps, c, ts).cash = c
         /\ Len(Payload(ps, c, ts).closed) = Len(ts)
         /\ \A i \in 1..Len(ts) : Payload(ps, c, ts).closed[i] = Bare(ts[i])
         /\ \A s \in Symbols : Payload(ps, c, ts).positions[s]
              = IF ps[s] = NoPosition THEN NoPosition ELSE Bare(ps[s])
<1> DEFINE bs == [s \in Symbols |-> IF ps[s] = NoPosition THEN NoPosition ELSE Bare(ps[s])]
           cs == [i \in DOMAIN ts |-> Bare(ts[i])]
<1>1. bs \in [Symbols -> Positions \union {NoPosition}]
  BY BarePosition
<1>2. DOMAIN ts = 1..Len(ts) /\ Len(ts) \in Nat /\ \A i \in 1..Len(ts) : ts[i] \in Trades
  BY ElementOfSeq, LenProperties
<1>3. cs \in Seq(Trades) /\ Len(cs) = Len(ts)
  <2>1. \A i \in 1..Len(ts) : Bare(ts[i]) \in Trades
    BY <1>2, BareTrade
  <2> QED
    BY <1>2, <2>1, SeqDef
<1>4. Payload(ps, c, ts) = [cash |-> c, positions |-> bs, closed |-> cs]
  BY DEF Payload
<1> HIDE DEF bs, cs
<1>5. /\ Payload(ps, c, ts) \in Files /\ Payload(ps, c, ts).cash = c
      /\ Payload(ps, c, ts).closed = cs /\ Payload(ps, c, ts).positions = bs
  BY <1>1, <1>3, <1>4 DEF Files
<1> QED
  BY <1>2, <1>3, <1>5 DEF bs, cs

\* A close takes from the position, and adds one trade and what it earned.
LEMMA ReduceType ==
  ASSUME TypeOK, NEW s \in Symbols, positions[s] # NoPosition,
         NEW quantity \in Nat \ {0}, quantity <= positions[s].quantity,
         NEW price \in Int, Reduce(s, quantity, price)
  PROVE  /\ positions' \in [Symbols -> Positions \union {NoPosition}]
         /\ \A r \in Symbols : r # s => positions'[r] = positions[r]
         /\ positions'[s] # NoPosition =>
              /\ positions'[s].side = positions[s].side
              /\ positions'[s].entry = positions[s].entry
              /\ positions'[s].stop = positions[s].stop
         /\ clock' \in Nat
         /\ \E t \in Trades : closed' = Append(closed, t) /\ cash' = cash + t.pnl
<1> DEFINE held == positions[s]
           pnl == (price - held.entry) * held.side * quantity
           t == [symbol |-> s, quantity |-> quantity, pnl |-> pnl, id |-> held.id,
                 closed_at |-> clock']
           rest == [held EXCEPT !.quantity = @ - quantity]
<1>1. held \in Positions /\ clock \in Nat
  BY DEF TypeOK
<1>2. clock' \in Nat
  BY <1>1 DEF Reduce
<1>3. pnl \in Int
  BY <1>1 DEF Positions
<1>4. /\ closed' = Append(closed, t) /\ cash' = cash + pnl
      /\ positions' = [positions EXCEPT ![s] = IF quantity = held.quantity THEN NoPosition ELSE rest]
  BY DEF Reduce
<1> HIDE DEF pnl
<1>5. t \in Trades /\ t.pnl = pnl
  BY <1>1, <1>2, <1>3 DEF Trades, Positions
<1>6. quantity # held.quantity =>
        /\ rest \in Positions /\ rest.side = held.side /\ rest.entry = held.entry
        /\ rest.stop = held.stop
  BY <1>1 DEF Positions
<1> HIDE DEF t, rest
<1> QED
  BY <1>1, <1>2, <1>4, <1>5, <1>6 DEF TypeOK

\* The file after a fill: as it was, or what the account is now.
LEMMA PersistType ==
  ASSUME TypeOK, positions' \in [Symbols -> Positions \union {NoPosition}], cash' \in Int,
         closed' \in Seq(Trades), Persist
  PROVE  /\ file' = NoFile \/ file' \in Files
         /\ written' \in BOOLEAN
         /\ written' => file' = Payload(positions', cash', closed')
         /\ file' # file => written'
<1>1. Payload(positions', cash', closed') \in Files
  BY PayloadType
<1>2. CASE file' = Payload(positions', cash', closed') /\ written' = TRUE
  BY <1>1, <1>2
<1>3. CASE UNCHANGED file /\ written' = FALSE
  BY <1>3 DEF TypeOK, Files
<1> QED
  BY <1>2, <1>3 DEF Persist

-----------------------------------------------------------------------------
(* Type correctness *)

LEMMA ShadowTypeInit == Init => TypeOK
<1> SUFFICES ASSUME Init PROVE TypeOK
  OBVIOUS
<1>1. /\ bars \in [Symbols -> Seq(Bars)] /\ \A s \in Symbols : Len(bars[s]) = 0
      /\ {cursor, watched} \subseteq [Symbols -> Nat]
      /\ \A s \in Symbols : cursor[s] = 0 /\ watched[s] = 0
  BY DEF Init
<1>2. /\ positions \in [Symbols -> Positions \union {NoPosition}]
      /\ closed \in Seq(Trades) /\ cash \in Int /\ file = NoFile
      /\ tightest \in [Symbols -> Int]
  BY ShadowAssumption DEF Init, Empty, NoPrice
<1>3. {starts, clock, last_id} \subseteq Nat /\ seen \subseteq rows
  BY DEF Init
<1>4. connected \in BOOLEAN /\ written \in BOOLEAN
  BY DEF Init
<1>5. \A s \in Symbols : cursor[s] <= Len(bars[s]) /\ watched[s] <= Len(bars[s])
  BY <1>1
<1> QED
  BY <1>1, <1>2, <1>3, <1>4, <1>5 DEF TypeOK

\* What a fill leaves is well typed.
LEMMA FillType ==
  ASSUME TypeOK, NEW s \in Symbols, positions[s] # NoPosition,
         NEW quantity \in Nat \ {0}, quantity <= positions[s].quantity,
         NEW price \in Int, Reduce(s, quantity, price)
  PROVE  /\ positions' \in [Symbols -> Positions \union {NoPosition}]
         /\ cash' \in Int /\ closed' \in Seq(Trades) /\ clock' \in Nat
<1>1. PICK t \in Trades : closed' = Append(closed, t) /\ cash' = cash + t.pnl
  BY ReduceType
<1>2. closed \in Seq(Trades) /\ cash \in Int /\ t.pnl \in Int
  BY DEF TypeOK, Trades
<1> QED
  BY <1>1, <1>2, ReduceType, AppendProperties

LEMMA ExitQuantity ==
  ASSUME TypeOK, NEW s \in Symbols, positions[s] # NoPosition, NEW quantity \in Quantities
  PROVE  LET cut == IF quantity <= positions[s].quantity THEN quantity ELSE positions[s].quantity
         IN  cut \in Nat \ {0} /\ cut <= positions[s].quantity
<1>1. positions[s] \in Positions /\ quantity \in Nat \ {0}
  BY ShadowAssumption DEF TypeOK
<1> QED
  BY <1>1 DEF Positions

LEMMA ExitPriceType ==
  ASSUME NEW p \in Positions, NEW new
  PROVE  ExitPrice(p, new) \in Int /\ p.quantity \in Nat \ {0}
BY DEF ExitPrice, Positions

\* A new position is guarded by the stop it was opened with.
LEMMA OpenType ==
  ASSUME TypeOK, NEW s \in Symbols, NEW side \in {1, -1}, NEW quantity \in Quantities,
         NEW price \in EntryPrices, last_id' = last_id + 1, Open(s, side, quantity, price)
  PROVE  /\ last_id' \in Nat
         /\ positions' \in [Symbols -> Positions \union {NoPosition}]
         /\ tightest' \in [Symbols -> Int]
         /\ \A r \in Symbols : r # s => positions'[r] = positions[r]
         /\ positions'[s].side = side /\ positions'[s].entry = price
         /\ positions'[s].stop = Stop[<<side, price>>] /\ Stop[<<side, price>>] \in Nat
         /\ UNCHANGED <<cash, closed, clock>> /\ watched' = [watched EXCEPT ![s] = cursor[s]]
<1> DEFINE new == [side |-> side, quantity |-> quantity, entry |-> price,
                   stop |-> Stop[<<side, price>>], target |-> Target[<<side, price>>], id |-> last_id']
<1>1. /\ quantity \in Nat \ {0} /\ price \in Nat /\ last_id' \in Nat
      /\ Stop[<<side, price>>] \in Nat /\ Target[<<side, price>>] \in Int
  BY SMTT(60), ShadowAssumption DEF TypeOK, NoPrice
<1>2. /\ new \in Positions /\ new.side = side /\ new.entry = price /\ new.stop = Stop[<<side, price>>]
  BY <1>1 DEF Positions
<1>3. positions' = [positions EXCEPT ![s] = new]
  BY DEF Open
<1> HIDE DEF new
<1> QED
  BY <1>1, <1>2, <1>3 DEF Open, TypeOK

LEMMA ShadowTypeNext == TypeOK /\ [Next]_vars => TypeOK'
<1> SUFFICES ASSUME TypeOK, [Next]_vars PROVE TypeOK'
  OBVIOUS
<1> USE DEF account
<1> DEFINE AccountOK == /\ positions \in [Symbols -> Positions \union {NoPosition}]
                        /\ cash \in Int /\ closed \in Seq(Trades)
                        /\ {clock, last_id} \subseteq Nat
           FileOK == (file = NoFile \/ file \in Files) /\ written \in BOOLEAN
           BarsOK == /\ bars \in [Symbols -> Seq(Bars)]
                     /\ {cursor, watched} \subseteq [Symbols -> Nat]
                     /\ \A s \in Symbols : cursor[s] <= Len(bars[s]) /\ watched[s] <= Len(bars[s])
           RestOK == /\ connected \in BOOLEAN /\ starts \in Nat
                     /\ seen \subseteq rows /\ tightest \in [Symbols -> Int]
<1>1. TypeOK <=> AccountOK /\ FileOK /\ BarsOK /\ RestOK
  BY DEF TypeOK, Files
<1>2. TypeOK' <=> AccountOK' /\ FileOK' /\ BarsOK' /\ RestOK'
  BY DEF TypeOK, Files
<1> SUFFICES AccountOK' /\ FileOK' /\ BarsOK' /\ RestOK'
  BY <1>2
<1>3. \A s \in Symbols : Len(bars[s]) \in Nat
  BY DEF TypeOK
<1>4. CASE Connect
  <2>1. AccountOK'
    <3>1. CASE file = NoFile
      BY <1>1, <1>4, <3>1 DEF Connect, Restore
    <3>2. CASE file # NoFile
      BY <1>1, <1>4, <3>2 DEF Connect, Restore, Files
    <3> QED
      BY <3>1, <3>2
  <2>2. FileOK' /\ RestOK'
    BY <1>1, <1>4 DEF Connect
  <2>3. BarsOK'
    BY <1>1, <1>3, <1>4 DEF Connect
  <2> QED
    BY <2>1, <2>2, <2>3
<1>5. CASE Disconnect
  <2>1. AccountOK'
    BY <1>1, <1>5, ShadowAssumption DEF Disconnect, Empty
  <2>2. FileOK' /\ RestOK'
    BY <1>1, <1>5 DEF Disconnect
  <2>3. BarsOK'
    BY <1>1, <1>3, <1>5 DEF Disconnect
  <2> QED
    BY <2>1, <2>2, <2>3
<1>6. CASE Report
  BY <1>1, <1>6 DEF Report
<1>7. ASSUME NEW s \in Symbols, NEW bar \in Bars, BarCloses(s, bar) PROVE TypeOK'
  <2>1. /\ bars' = [bars EXCEPT ![s] = Append(@, bar)] /\ UNCHANGED <<cursor, watched>>
        /\ bars[s] \in Seq(Bars)
    BY <1>7 DEF BarCloses, TypeOK
  <2>2. Append(bars[s], bar) \in Seq(Bars) /\ Len(Append(bars[s], bar)) = Len(bars[s]) + 1
    BY <2>1, AppendProperties
  <2>3. BarsOK'
    <3>1. bars' \in [Symbols -> Seq(Bars)]
      BY <1>1, <2>1, <2>2
    <3>2. \A r \in Symbols : Len(bars[r]) <= Len(bars'[r])
      BY <1>1, <1>3, <2>1, <2>2
    <3>3. \A r \in Symbols : Len(bars'[r]) \in Nat
      BY <3>1
    <3> QED
      BY <1>1, <1>3, <2>1, <3>1, <3>2, <3>3
  <2>4. AccountOK' /\ FileOK' /\ RestOK'
    BY <1>1, <1>7 DEF BarCloses
  <2> QED
    BY <1>2, <2>3, <2>4
<1>8. ASSUME NEW s \in Symbols, GetOhlcv(s) PROVE TypeOK'
  <2>1. AccountOK' /\ FileOK'
    <3>1. CASE positions[s] # NoPosition /\ Touched(positions[s], Unseen(s)) # {}
      <4> DEFINE price == ExitPrice(positions[s], Unseen(s))
      <4>1. positions[s] \in Positions
        BY <3>1 DEF TypeOK
      <4>2. /\ price \in Int /\ positions[s].quantity \in Nat \ {0}
            /\ positions[s].quantity <= positions[s].quantity
        BY <4>1, ExitPriceType
      <4>3. Reduce(s, positions[s].quantity, price) /\ Persist /\ UNCHANGED last_id
        BY <1>8, <3>1 DEF GetOhlcv
      <4> HIDE DEF price
      <4>4. /\ positions' \in [Symbols -> Positions \union {NoPosition}]
            /\ cash' \in Int /\ closed' \in Seq(Trades) /\ clock' \in Nat
        BY <3>1, <4>2, <4>3, FillType
      <4> QED
        BY <1>1, <4>3, <4>4, PersistType
    <3>2. CASE ~(positions[s] # NoPosition /\ Touched(positions[s], Unseen(s)) # {})
      BY <1>1, <1>8, <3>2 DEF GetOhlcv
    <3> QED
      BY <3>1, <3>2
  <2>2. BarsOK' /\ RestOK'
    BY <1>1, <1>3, <1>8 DEF GetOhlcv
  <2> QED
    BY <1>2, <2>1, <2>2
<1>9. ASSUME NEW s \in Symbols, NEW side \in {1, -1}, NEW quantity \in Quantities,
             NEW price \in EntryPrices, EnterMarket(s, side, quantity, price)
      PROVE  TypeOK'
  <2>1. /\ last_id' = last_id + 1 /\ Open(s, side, quantity, price) /\ Persist
        /\ UNCHANGED <<bars, connected, cursor, seen, rows, starts>>
    BY <1>9 DEF EnterMarket
  <2>2. /\ last_id' \in Nat /\ positions' \in [Symbols -> Positions \union {NoPosition}]
        /\ tightest' \in [Symbols -> Int] /\ UNCHANGED <<cash, closed, clock>>
        /\ watched' = [watched EXCEPT ![s] = cursor[s]]
    BY <2>1, OpenType
  <2>3. AccountOK'
    BY <1>1, <2>2
  <2>4. FileOK'
    BY <2>1, <2>3, PersistType
  <2>5. BarsOK' /\ RestOK'
    BY <1>1, <1>3, <2>1, <2>2
  <2> QED
    BY <1>2, <2>3, <2>4, <2>5
<1>10. ASSUME NEW s \in Symbols, NEW quantity \in Quantities, NEW price \in ExitPrices,
              ExitMarket(s, quantity, price)
       PROVE  TypeOK'
  <2> DEFINE cut == IF quantity <= positions[s].quantity THEN quantity ELSE positions[s].quantity
  <2>1. /\ last_id' = last_id + 1 /\ Reduce(s, cut, price) /\ Persist /\ positions[s] # NoPosition
        /\ UNCHANGED <<bars, connected, cursor, seen, rows, starts, tightest, watched>>
    BY <1>10 DEF ExitMarket
  <2>2. cut \in Nat \ {0} /\ cut <= positions[s].quantity /\ price \in Int
    BY <2>1, ExitQuantity, ShadowAssumption
  <2> HIDE DEF cut
  <2>3. /\ positions' \in [Symbols -> Positions \union {NoPosition}]
        /\ cash' \in Int /\ closed' \in Seq(Trades) /\ clock' \in Nat
    BY <2>1, <2>2, FillType
  <2>4. AccountOK' /\ FileOK'
    BY <1>1, <2>1, <2>3, PersistType
  <2>5. BarsOK' /\ RestOK'
    BY <1>1, <2>1
  <2> QED
    BY <1>2, <2>4, <2>5
<1>11. ASSUME NEW s \in Symbols, NEW stop \in StopPrices, UpdateStop(s, stop) PROVE TypeOK'
  <2>1. stop \in Int /\ positions[s] \in Positions
    BY <1>11, ShadowAssumption DEF UpdateStop, TypeOK
  <2>2. [positions[s] EXCEPT !.stop = stop] \in Positions
    BY <2>1 DEF Positions
  <2>3. AccountOK'
    BY <1>1, <1>11, <2>2 DEF UpdateStop
  <2>4. FileOK' /\ BarsOK' /\ RestOK'
    BY <1>1, <1>11, <2>1 DEF UpdateStop
  <2> QED
    BY <1>2, <2>3, <2>4
<1>12. CASE UNCHANGED vars
  BY <1>1, <1>12 DEF vars
<1> QED
  BY <1>2, <1>4, <1>5, <1>6, <1>7, <1>8, <1>9, <1>10, <1>11, <1>12 DEF Next

\* The account, the file and the bars always are what TypeOK says.
THEOREM ShadowTypeCorrect == Spec => []TypeOK
BY ShadowTypeInit, ShadowTypeNext, PTL DEF Spec

-----------------------------------------------------------------------------
(* The account and its file *)

\* A fill changes the account and writes the file; besides fills the account only changes
\* where the process starts and ends, and where a stop is moved.
Fill ==
  /\ connected /\ UNCHANGED connected
  /\ \/ UNCHANGED <<cash, closed>>
     \/ \E t \in Trades : closed' = Append(closed, t) /\ cash' = cash + t.pnl
  /\ Persist

StopMoved ==
  \E s \in Symbols, stop \in StopPrices : positions[s] # NoPosition /\ UpdateStop(s, stop)

LEMMA AccountSteps ==
  ASSUME TypeOK, [Next]_vars
  PROVE  \/ Connect \/ Disconnect \/ StopMoved \/ Fill
         \/ UNCHANGED <<connected, positions, cash, closed, file, written>>
<1>1. ASSUME NEW s \in Symbols, GetOhlcv(s),
             positions[s] # NoPosition, Touched(positions[s], Unseen(s)) # {}
      PROVE  Fill
  <2> DEFINE price == ExitPrice(positions[s], Unseen(s))
  <2>1. positions[s] \in Positions
    BY <1>1 DEF TypeOK
  <2>2. /\ price \in Int /\ positions[s].quantity \in Nat \ {0}
        /\ positions[s].quantity <= positions[s].quantity
    BY <2>1, ExitPriceType
  <2>3. /\ Reduce(s, positions[s].quantity, price) /\ Persist
        /\ connected /\ UNCHANGED connected
    BY <1>1 DEF GetOhlcv
  <2> HIDE DEF price
  <2> QED
    BY <1>1, <2>2, <2>3, ReduceType DEF Fill
<1>2. ASSUME NEW s \in Symbols, GetOhlcv(s),
             ~(positions[s] # NoPosition /\ Touched(positions[s], Unseen(s)) # {})
      PROVE  UNCHANGED <<connected, positions, cash, closed, file, written>>
  BY <1>2 DEF GetOhlcv
<1>3. ASSUME NEW s \in Symbols, NEW side \in {1, -1}, NEW quantity \in Quantities,
             NEW price \in EntryPrices, EnterMarket(s, side, quantity, price)
      PROVE  Fill
  BY <1>3 DEF EnterMarket, Open, Fill
<1>4. ASSUME NEW s \in Symbols, NEW quantity \in Quantities, NEW price \in ExitPrices,
             ExitMarket(s, quantity, price)
      PROVE  Fill
  <2> DEFINE cut == IF quantity <= positions[s].quantity THEN quantity ELSE positions[s].quantity
  <2>1. /\ Reduce(s, cut, price) /\ Persist /\ positions[s] # NoPosition
        /\ connected /\ UNCHANGED connected
    BY <1>4 DEF ExitMarket
  <2>2. cut \in Nat \ {0} /\ cut <= positions[s].quantity /\ price \in Int
    BY <2>1, ExitQuantity, ShadowAssumption
  <2> HIDE DEF cut
  <2> QED
    BY <2>1, <2>2, ReduceType DEF Fill
<1>5. ASSUME NEW s \in Symbols, NEW stop \in StopPrices, UpdateStop(s, stop) PROVE StopMoved
  BY <1>5 DEF UpdateStop, StopMoved
<1>6. ASSUME NEW s, NEW bar, BarCloses(s, bar) \/ Report
      PROVE  UNCHANGED <<connected, positions, cash, closed, file, written>>
  BY <1>6 DEF BarCloses, Report, account
<1>7. CASE UNCHANGED vars
  BY <1>7 DEF vars, account
<1> QED
  BY <1>1, <1>2, <1>3, <1>4, <1>5, <1>6, <1>7 DEF Next

AddPnl(p, sum, trade) == sum + trade.pnl

PnlSum == INSTANCE FoldProofs WITH Step <- AddPnl

LEMMA EarnedIsAFold ==
  /\ \A ts : Earned(ts) = PnlSum!Folded(0, InitialBalance, ts)
  /\ AccountAddsUp' <=> /\ cash' = PnlSum!Folded(0, InitialBalance, closed')
                        /\ file' # NoFile =>
                             file'.cash = PnlSum!Folded(0, InitialBalance, file'.closed)
BY DEF AccountAddsUp, Earned, AddPnl, FoldLeft, MapThenFoldSet, Max,
       PnlSum!Folded, PnlSum!FoldLeft, PnlSum!MapThenFoldSet, PnlSum!Max

\* The trades of the file earned what those of the account earned.
LEMMA PayloadEarned ==
  ASSUME NEW ps \in [Symbols -> Positions \union {NoPosition}], NEW c \in Int,
         NEW ts \in Seq(Trades)
  PROVE  PnlSum!Folded(0, InitialBalance, Payload(ps, c, ts).closed)
           = PnlSum!Folded(0, InitialBalance, ts)
<1> DEFINE bare == Payload(ps, c, ts).closed
<1>1. /\ Len(ts) \in Nat /\ DOMAIN ts = 1..Len(ts) /\ \A i \in 1..Len(ts) : ts[i] \in Trades
  BY ElementOfSeq, LenProperties
<1>2. /\ bare \in Seq(Trades) /\ Len(bare) = Len(ts)
      /\ \A i \in 1..Len(ts) : bare[i] = Bare(ts[i])
  BY PayloadType DEF Files
<1> HIDE DEF bare
<1>3. DOMAIN bare = 1..Len(ts)
  BY <1>2, LenProperties
<1>4. \A i \in 1..Len(ts) : \A value : AddPnl(0, value, bare[i]) = AddPnl(0, value, ts[i])
  BY <1>1, <1>2, BareTrade DEF AddPnl
<1>5. PnlSum!Folded(0, InitialBalance, bare) = PnlSum!Folded(0, InitialBalance, ts)
  BY <1>1, <1>3, <1>4, PnlSum!FoldOfSame
<1> QED
  BY <1>5 DEF bare

LEMMA AccountNext == TypeOK /\ AccountAddsUp /\ [Next]_vars => AccountAddsUp'
<1> SUFFICES ASSUME TypeOK, AccountAddsUp, [Next]_vars PROVE AccountAddsUp'
  OBVIOUS
<1> DEFINE Worth(ts) == PnlSum!Folded(0, InitialBalance, ts)
<1>1. TypeOK'
  BY ShadowTypeNext
<1>2. cash = Worth(closed) /\ (file # NoFile => file.cash = Worth(file.closed))
  BY EarnedIsAFold DEF AccountAddsUp
<1> SUFFICES cash' = Worth(closed') /\ (file' # NoFile => file'.cash = Worth(file'.closed))
  BY EarnedIsAFold
<1>3. CASE Connect
  <2>1. UNCHANGED file /\ cash' \in {cash, file.cash}
    BY <1>3 DEF Connect, Restore
  <2> QED
    BY <1>2, <1>3, <2>1 DEF Connect, Restore
<1>4. CASE Disconnect
  <2>1. Worth(<<>>) = InitialBalance
    BY PnlSum!FoldOfEmpty
  <2> QED
    BY <1>2, <1>4, <2>1 DEF Disconnect
<1>5. CASE StopMoved \/ UNCHANGED <<connected, positions, cash, closed, file, written>>
  BY <1>2, <1>5 DEF StopMoved, UpdateStop
<1>6. CASE Fill
  <2>1. cash' = Worth(closed')
    <3>1. ASSUME NEW t \in Trades, closed' = Append(closed, t), cash' = cash + t.pnl
          PROVE  cash' = Worth(closed')
      <4>1. Worth(closed') = AddPnl(0, Worth(closed), t)
        BY <3>1, PnlSum!FoldOfAppend DEF TypeOK
      <4> QED
        BY <1>2, <3>1, <4>1 DEF AddPnl
    <3> QED
      BY <1>2, <1>6, <3>1 DEF Fill
  <2>2. /\ positions' \in [Symbols -> Positions \union {NoPosition}]
        /\ cash' \in Int /\ closed' \in Seq(Trades)
    BY <1>1 DEF TypeOK
  <2>3. CASE file' = Payload(positions', cash', closed')
    BY <2>1, <2>2, <2>3, PayloadEarned, PayloadType
  <2>4. CASE UNCHANGED file
    BY <1>2, <2>1, <2>4
  <2> QED
    BY <1>6, <2>3, <2>4 DEF Fill, Persist
<1> QED
  BY <1>3, <1>4, <1>5, <1>6, AccountSteps

\* The balance always is the initial one and what the closed trades earned.
THEOREM AccountIsBalanced == Spec => []AccountAddsUp
<1>1. Init => AccountAddsUp
  <2>1. PnlSum!Folded(0, InitialBalance, <<>>) = InitialBalance
    BY PnlSum!FoldOfEmpty
  <2> QED
    BY <2>1, EarnedIsAFold DEF Init, AccountAddsUp
<1> QED
  BY <1>1, AccountNext, ShadowTypeCorrect, PTL DEF Spec

-----------------------------------------------------------------------------
(* Restarts *)

\* Without the ids, positions that are stored are what they were.
LEMMA StoredPosition ==
  ASSUME NEW p \in Positions \union {NoPosition}
  PROVE  Unprotected(IF p = NoPosition THEN NoPosition ELSE Bare(p)) = Unprotected(p)
<1>1. CASE p = NoPosition
  BY <1>1
<1>2. CASE p # NoPosition
  <2>1. p \in Positions /\ Bare(p) \in Positions /\ Bare(Bare(p)) = Bare(p)
    BY <1>2, BarePosition
  <2>2. Bare(p) # NoPosition
    BY <2>1, ShadowAssumption
  <2> QED
    BY <1>2, <2>1, <2>2 DEF Unprotected
<1> QED
  BY <1>1, <1>2

\* Moving its stop leaves everything else of a position.
LEMMA MovedStop ==
  ASSUME NEW p \in Positions, NEW stop \in Int
  PROVE  /\ [p EXCEPT !.stop = stop] \in Positions
         /\ [p EXCEPT !.stop = stop].side = p.side /\ [p EXCEPT !.stop = stop].entry = p.entry
         /\ [p EXCEPT !.stop = stop].stop = stop
         /\ Unprotected([p EXCEPT !.stop = stop]) = Unprotected(p)
<1>1. p # NoPosition /\ [p EXCEPT !.stop = stop] \in Positions
  BY ShadowAssumption DEF Positions
<1>2. [p EXCEPT !.stop = stop] # NoPosition
  BY <1>1, ShadowAssumption
<1>3. [Bare(p) EXCEPT !.stop = NoPrice] = [Bare([p EXCEPT !.stop = stop]) EXCEPT !.stop = NoPrice]
  BY DEF Bare, Positions, NoId, NoPrice
<1> QED
  BY <1>1, <1>2, <1>3 DEF Unprotected, Positions

LEMMA RestartNext ==
  TypeOK /\ FileIsBare /\ RestartKeepsAccount /\ [Next]_vars
    => FileIsBare' /\ RestartKeepsAccount'
<1> SUFFICES ASSUME TypeOK, FileIsBare, RestartKeepsAccount, [Next]_vars
             PROVE  FileIsBare' /\ RestartKeepsAccount'
  OBVIOUS
<1>1. TypeOK'
  BY ShadowTypeNext
<1>2. CASE Connect
  <2>1. FileIsBare'
    BY <1>2 DEF Connect, FileIsBare
  <2>2. ASSUME file' # NoFile PROVE RestartKeepsAccount'
    <3>1. /\ file' = file /\ file \in Files /\ cash' = file.cash
          /\ closed' = file.closed /\ positions' = file.positions
      BY <1>2, <2>2 DEF Connect, Restore, TypeOK, Files
    <3>2. file.closed \in Seq(Trades) /\ file.positions \in [Symbols -> Positions \union {NoPosition}]
      BY <3>1 DEF Files
    <3>3. \A i \in 1..Len(file.closed) : Bare(file.closed[i]) = file.closed[i]
      BY <2>2, <3>1, <3>2 DEF FileIsBare
    <3>4. file.closed = [i \in DOMAIN file.closed |-> Bare(file.closed[i])]
      BY <3>2, <3>3
    <3>5. Payload(positions', cash', closed').closed = file'.closed
      BY <3>1, <3>4 DEF Payload
    <3> QED
      BY <3>1, <3>5 DEF RestartKeepsAccount
  <2> QED
    BY <2>1, <2>2 DEF RestartKeepsAccount
<1>3. CASE Disconnect
  BY <1>3 DEF Disconnect, FileIsBare, RestartKeepsAccount
<1>4. CASE UNCHANGED <<connected, positions, cash, closed, file, written>>
  <2>1. Payload(positions', cash', closed') = Payload(positions, cash, closed)
    BY <1>4
  <2> QED
    BY <1>4, <2>1 DEF FileIsBare, RestartKeepsAccount
<1>5. CASE StopMoved
  <2>1. PICK s \in Symbols, stop \in StopPrices : positions[s] # NoPosition /\ UpdateStop(s, stop)
    BY <1>5 DEF StopMoved
  <2>2. /\ positions' = [positions EXCEPT ![s] = [positions[s] EXCEPT !.stop = stop]]
        /\ UNCHANGED <<connected, cash, closed, file, written>>
    BY <2>1 DEF UpdateStop
  <2>3. positions[s] \in Positions /\ stop \in Int
    BY <2>1, ShadowAssumption DEF TypeOK
  <2> DEFINE moved == [positions[s] EXCEPT !.stop = stop]
  <2>4. Unprotected(moved) = Unprotected(positions[s])
    BY <2>3, MovedStop
  <2> HIDE DEF moved
  <2>5. \A r \in Symbols : Unprotected(positions'[r]) = Unprotected(positions[r])
    BY <2>2, <2>4 DEF TypeOK, moved
  <2>6. Payload(positions', cash', closed').closed = Payload(positions, cash, closed).closed
    BY <2>2 DEF Payload
  <2> QED
    BY <2>2, <2>5, <2>6 DEF FileIsBare, RestartKeepsAccount
<1>6. CASE Fill
  <2>1. /\ positions' \in [Symbols -> Positions \union {NoPosition}]
        /\ cash' \in Int /\ closed' \in Seq(Trades)
    BY <1>1 DEF TypeOK
  <2>2. CASE file' = Payload(positions', cash', closed') /\ written' = TRUE
    <3>1. /\ file' \in Files /\ file'.cash = cash'
          /\ Len(file'.closed) = Len(closed')
          /\ \A i \in 1..Len(closed') : file'.closed[i] = Bare(closed'[i])
      BY <2>1, <2>2, PayloadType
    <3>2. \A s \in Symbols : file'.positions[s]
             = IF positions'[s] = NoPosition THEN NoPosition ELSE Bare(positions'[s])
      BY <2>1, <2>2, PayloadType
    <3>3. FileIsBare'
      <4>1. \A i \in 1..Len(closed') : closed'[i] \in Trades
        BY <2>1, ElementOfSeq
      <4>2. DOMAIN file'.closed = 1..Len(closed')
        BY <3>1 DEF Files
      <4> QED
        BY <3>1, <4>1, <4>2, BareTrade DEF FileIsBare
    <3>4. \A s \in Symbols : Unprotected(file'.positions[s]) = Unprotected(positions'[s])
      BY <2>1, <3>2, StoredPosition
    <3> QED
      BY <2>2, <3>1, <3>3, <3>4 DEF RestartKeepsAccount
  <2>3. CASE UNCHANGED file /\ written' = FALSE
    BY <2>3 DEF FileIsBare, RestartKeepsAccount
  <2> QED
    BY <1>6, <2>2, <2>3 DEF Fill, Persist
<1> QED
  BY <1>2, <1>3, <1>4, <1>5, <1>6, AccountSteps

\* A restart finds the balance, the trades and the positions as they are, unless the last
\* write of the file failed.
THEOREM RestartFindsAccount == Spec => []RestartKeepsAccount
<1>1. Init => FileIsBare /\ RestartKeepsAccount
  BY DEF Init, FileIsBare, RestartKeepsAccount
<1> QED
  BY <1>1, RestartNext, ShadowTypeCorrect, PTL DEF Spec

-----------------------------------------------------------------------------
(* Stops *)

\* What a step may do to a position that stays open.
Kept(s) ==
  positions'[s] # NoPosition =>
    /\ positions[s] # NoPosition
    /\ positions'[s].side = positions[s].side /\ positions'[s].entry = positions[s].entry
    /\ positions'[s].stop \in Nat
    /\ positions'[s].stop * positions[s].side >= positions[s].stop * positions[s].side

Opened(s) ==
  /\ positions'[s].side \in {1, -1} /\ positions'[s].entry \in EntryPrices
  /\ positions'[s].stop = Stop[<<positions'[s].side, positions'[s].entry>>]
  /\ positions'[s].stop \in Nat
  /\ watched'[s] = cursor[s]

Restored == Connect /\ file # NoFile /\ positions' = file.positions /\ UNCHANGED file

LEMMA StayingPut ==
  ASSUME TypeOK, Guarded(positions), NEW s \in Symbols, positions'[s] = positions[s]
  PROVE  Kept(s)
<1>1. positions[s] # NoPosition => positions[s].stop \in Nat /\ positions[s].side \in {1, -1}
  BY DEF TypeOK, Guarded, Positions
<1> QED
  BY <1>1 DEF Kept

\* Every step keeps a position, closes it or opens it, or is a restart.
LEMMA PositionSteps ==
  ASSUME TypeOK, Guarded(positions), [Next]_vars, NEW s \in Symbols
  PROVE  Restored \/ Kept(s) \/ Opened(s)
<1>1. CASE Connect
  BY <1>1, StayingPut DEF Connect, Restore, Restored
<1>2. CASE Disconnect
  BY <1>2 DEF Disconnect, Empty, Kept
<1>3. CASE Report \/ (\E r \in Symbols, bar \in Bars : BarCloses(r, bar)) \/ UNCHANGED vars
  BY <1>3, StayingPut DEF Report, BarCloses, vars, account
<1>4. ASSUME NEW r \in Symbols, positions[r] # NoPosition, NEW quantity \in Nat \ {0},
             quantity <= positions[r].quantity, NEW price \in Int, Reduce(r, quantity, price)
      PROVE  Kept(s)
  <2>1. CASE r = s
    <3>1. /\ positions[s].stop \in Nat /\ positions[s].side \in {1, -1}
      BY <1>4, <2>1 DEF TypeOK, Guarded, Positions
    <3>2. positions'[s] # NoPosition =>
            /\ positions'[s].side = positions[s].side /\ positions'[s].entry = positions[s].entry
            /\ positions'[s].stop = positions[s].stop
      BY <1>4, <2>1, ReduceType
    <3> QED
      BY <1>4, <2>1, <3>1, <3>2 DEF Kept
  <2>2. CASE r # s
    <3>1. positions'[s] = positions[s]
      BY <1>4, <2>2, ReduceType
    <3> QED
      BY <3>1, StayingPut
  <2> QED
    BY <2>1, <2>2
<1>5. ASSUME NEW r \in Symbols, GetOhlcv(r) PROVE Kept(s)
  <2>1. CASE positions[r] # NoPosition /\ Touched(positions[r], Unseen(r)) # {}
    <3> DEFINE price == ExitPrice(positions[r], Unseen(r))
    <3>1. positions[r] \in Positions
      BY <2>1 DEF TypeOK
    <3>2. /\ price \in Int /\ positions[r].quantity \in Nat \ {0}
          /\ positions[r].quantity <= positions[r].quantity
      BY <3>1, ExitPriceType
    <3>3. Reduce(r, positions[r].quantity, price)
      BY <1>5, <2>1 DEF GetOhlcv
    <3> HIDE DEF price
    <3> QED
      BY <1>4, <2>1, <3>2, <3>3
  <2>2. CASE ~(positions[r] # NoPosition /\ Touched(positions[r], Unseen(r)) # {})
    BY <1>5, <2>2, StayingPut DEF GetOhlcv
  <2> QED
    BY <2>1, <2>2
<1>6. ASSUME NEW r \in Symbols, NEW quantity \in Quantities, NEW price \in ExitPrices,
             ExitMarket(r, quantity, price)
      PROVE  Kept(s)
  <2> DEFINE cut == IF quantity <= positions[r].quantity THEN quantity ELSE positions[r].quantity
  <2>1. Reduce(r, cut, price) /\ positions[r] # NoPosition
    BY <1>6 DEF ExitMarket
  <2>2. cut \in Nat \ {0} /\ cut <= positions[r].quantity /\ price \in Int
    BY <2>1, ExitQuantity, ShadowAssumption
  <2> HIDE DEF cut
  <2> QED
    BY <1>4, <2>1, <2>2
<1>7. ASSUME NEW r \in Symbols, NEW side \in {1, -1}, NEW quantity \in Quantities,
             NEW price \in EntryPrices, EnterMarket(r, side, quantity, price)
      PROVE  Kept(s) \/ Opened(s)
  <2>1. last_id' = last_id + 1 /\ Open(r, side, quantity, price)
    BY <1>7 DEF EnterMarket
  <2>2. CASE r = s
    <3>1. /\ positions'[s].side = side /\ positions'[s].entry = price
          /\ positions'[s].stop = Stop[<<side, price>>] /\ Stop[<<side, price>>] \in Nat
          /\ watched' = [watched EXCEPT ![s] = cursor[s]]
      BY <2>1, <2>2, OpenType
    <3> QED
      BY <3>1 DEF Opened, TypeOK
  <2>3. CASE r # s
    <3>1. positions'[s] = positions[s]
      BY <2>1, <2>3, OpenType
    <3> QED
      BY <3>1, StayingPut
  <2> QED
    BY <2>2, <2>3
<1>8. ASSUME NEW r \in Symbols, NEW stop \in StopPrices, UpdateStop(r, stop) PROVE Kept(s)
  <2> DEFINE moved == [positions[r] EXCEPT !.stop = stop]
  <2>1. /\ positions[r] \in Positions /\ positions[r].stop \in Nat /\ stop \in Nat
        /\ positions[r].side \in {1, -1}
    BY <1>8, ShadowAssumption DEF UpdateStop, TypeOK, Guarded, Positions
  <2>2. /\ positions' = [positions EXCEPT ![r] = moved]
        /\ stop * positions[r].side >= positions[r].stop * positions[r].side
    BY <1>8, <2>1 DEF UpdateStop, Tighter, NoPrice
  <2>3. moved.side = positions[r].side /\ moved.entry = positions[r].entry /\ moved.stop = stop
    BY <2>1, MovedStop
  <2>4. positions[r] # NoPosition
    BY <1>8 DEF UpdateStop
  <2> HIDE DEF moved
  <2>5. CASE r = s
    <3>1. positions'[s] = moved
      BY <2>2, <2>5 DEF TypeOK
    <3> QED
      BY <2>1, <2>2, <2>3, <2>4, <2>5, <3>1 DEF Kept
  <2>6. CASE r # s
    <3>1. positions'[s] = positions[s]
      BY <2>2, <2>6 DEF TypeOK
    <3> QED
      BY <3>1, StayingPut
  <2> QED
    BY <2>5, <2>6
<1> QED
  BY <1>1, <1>2, <1>3, <1>5, <1>6, <1>7, <1>8 DEF Next

LEMMA GuardedNext == TypeOK /\ StopsGuarded /\ [Next]_vars => StopsGuarded'
<1> SUFFICES ASSUME TypeOK, StopsGuarded, [Next]_vars PROVE StopsGuarded'
  OBVIOUS
<1>1. TypeOK'
  BY ShadowTypeNext
<1>2. Guarded(positions)
  BY DEF StopsGuarded
<1>3. Guarded(positions')
  <2> SUFFICES ASSUME NEW s \in Symbols, positions'[s] # NoPosition
               PROVE  /\ positions'[s].entry \in EntryPrices
                      /\ positions'[s].stop \in Nat
                      /\ positions'[s].stop * positions'[s].side
                           >= Stop[<<positions'[s].side, positions'[s].entry>>] * positions'[s].side
    BY DEF Guarded
  <2>1. CASE Restored
    BY <2>1 DEF Restored, StopsGuarded, Guarded
  <2>2. CASE Kept(s)
    <3> DEFINE p == positions[s]
               first == Stop[<<p.side, p.entry>>]
               now == positions'[s].stop
    <3>1. /\ p \in Positions /\ p.entry \in EntryPrices /\ p.stop \in Nat
          /\ p.stop * p.side >= first * p.side
          /\ positions'[s].side = p.side /\ positions'[s].entry = p.entry
          /\ now \in Nat /\ now * p.side >= p.stop * p.side
      BY <1>2, <2>2 DEF Kept, TypeOK, Guarded
    <3>2. p.side \in {1, -1} /\ first \in Nat
      BY <3>1, ShadowAssumption DEF Positions
    <3>3. now * p.side >= first * p.side
      <4> HIDE DEF p, first, now
      <4> QED
        BY <3>1, <3>2
    <3> QED
      BY <3>1, <3>3
  <2>3. CASE Opened(s)
    <3> DEFINE p == positions'[s]
    <3>1. /\ p.entry \in EntryPrices /\ p.stop \in Nat /\ p.side \in {1, -1}
          /\ p.stop = Stop[<<p.side, p.entry>>]
      BY <2>3 DEF Opened
    <3>2. p.stop * p.side >= p.stop * p.side
      <4> HIDE DEF p
      <4> QED
        BY <3>1
    <3> QED
      BY <3>1, <3>2
  <2> QED
    BY <1>2, <2>1, <2>2, <2>3, PositionSteps
<1>4. file' # NoFile => Guarded(file'.positions)
  <2>1. CASE UNCHANGED file
    BY <2>1 DEF StopsGuarded, Guarded
  <2>2. CASE file' = Payload(positions', cash', closed')
    <3>1. /\ positions' \in [Symbols -> Positions \union {NoPosition}]
          /\ cash' \in Int /\ closed' \in Seq(Trades)
      BY <1>1 DEF TypeOK
    <3>2. ASSUME NEW s \in Symbols
          PROVE  file'.positions[s]
                   = IF positions'[s] = NoPosition THEN NoPosition ELSE Bare(positions'[s])
      BY <2>2, <3>1, PayloadType
    <3>3. ASSUME NEW s \in Symbols, file'.positions[s] # NoPosition
          PROVE  /\ positions'[s] # NoPosition
                 /\ file'.positions[s].side = positions'[s].side
                 /\ file'.positions[s].entry = positions'[s].entry
                 /\ file'.positions[s].stop = positions'[s].stop
      BY <3>1, <3>2, <3>3, BarePosition
    <3> QED
      BY <1>3, <3>3 DEF Guarded
  <2> QED
    BY <2>1, <2>2, AccountSteps DEF Connect, Disconnect, StopMoved, UpdateStop, Fill, Persist
<1> QED
  BY <1>3, <1>4 DEF StopsGuarded, Guarded

\* A bar that reaches a stop reaches every tighter one.
LEMMA TighterIsReached ==
  ASSUME NEW bar \in Bars, NEW side \in {1, -1}, NEW first \in Int, NEW stop \in Int,
         stop * side >= first * side, Reaches(bar, first, -side)
  PROVE  Reaches(bar, stop, -side)
<1>1. bar.low \in Int /\ bar.high \in Int
  BY ShadowAssumption
<1> QED
  BY <1>1 DEF Reaches

LEMMA StopsNext ==
  TypeOK /\ StopsGuarded /\ StopsAreExecuted /\ [Next]_vars => StopsAreExecuted'
<1> SUFFICES ASSUME TypeOK, StopsGuarded, StopsAreExecuted, [Next]_vars,
                    NEW s \in Symbols, positions'[s] # NoPosition,
                    NEW i \in watched'[s] + 1 .. cursor'[s]
             PROVE  ~Reaches(bars'[s][i], Stop[<<positions'[s].side, positions'[s].entry>>],
                             -positions'[s].side)
  BY DEF StopsAreExecuted
<1> USE DEF account
<1> DEFINE Safe == ~Reaches(bars'[s][i], Stop[<<positions'[s].side, positions'[s].entry>>],
                            -positions'[s].side)
<1> SUFFICES Safe
  OBVIOUS
<1>1. /\ Guarded(positions) /\ Len(bars[s]) \in Nat /\ bars[s] \in Seq(Bars)
      /\ cursor[s] \in Nat /\ watched[s] \in Nat /\ cursor[s] <= Len(bars[s])
      /\ cursor'[s] \in Nat /\ watched'[s] \in Nat
  BY ShadowTypeNext DEF TypeOK, StopsGuarded
<1>2. CASE Connect \/ (Opened(s) /\ UNCHANGED cursor)
  <2>1. watched'[s] = cursor'[s]
    BY <1>2 DEF Connect, Opened
  <2> QED
    BY <1>1, <2>1
<1>3. ASSUME Kept(s), i \in watched[s] + 1 .. cursor[s], bars'[s][i] = bars[s][i]
      PROVE  Safe
  BY <1>3 DEF Kept, StopsAreExecuted
<1>4. CASE Disconnect
  BY <1>4 DEF Disconnect, Empty
<1>5. ASSUME Kept(s), UNCHANGED <<watched, cursor, bars>>
      PROVE  Safe
  BY <1>3, <1>5
<1>6. ASSUME NEW r \in Symbols, NEW bar \in Bars, BarCloses(r, bar)
      PROVE  Safe
  <2>1. Kept(s) /\ i \in watched[s] + 1 .. cursor[s] /\ i \in 1..Len(bars[s])
    BY <1>1, <1>6, StayingPut DEF BarCloses
  <2>2. bars'[s][i] = bars[s][i]
    <3>1. bars' = [bars EXCEPT ![r] = Append(bars[r], bar)] /\ bars[r] \in Seq(Bars)
      BY <1>6 DEF BarCloses, TypeOK
    <3>2. r = s => Append(bars[s], bar)[i] = bars[s][i]
      BY <2>1, <3>1, AppendProperties
    <3> QED
      BY <3>1, <3>2 DEF TypeOK
  <2> QED
    BY <1>3, <2>1, <2>2
<1>7. ASSUME NEW r \in Symbols, GetOhlcv(r)
      PROVE  Safe
  <2>1. /\ cursor' = [cursor EXCEPT ![r] = Len(bars[r])] /\ UNCHANGED <<bars, watched>>
        /\ positions[r] # NoPosition /\ Touched(positions[r], Unseen(r)) # {}
             => Reduce(r, positions[r].quantity, ExitPrice(positions[r], Unseen(r)))
        /\ ~(positions[r] # NoPosition /\ Touched(positions[r], Unseen(r)) # {})
             => UNCHANGED positions
    BY <1>7 DEF GetOhlcv
  <2>2. CASE r # s
    <3>1. positions'[s] = positions[s] /\ cursor'[s] = cursor[s]
      BY <2>1, <2>2 DEF TypeOK, Reduce
    <3> QED
      BY <1>1, <1>3, <2>1, <3>1, StayingPut
  <2>3. CASE r = s
    <3> DEFINE p == positions[s]
               new == Unseen(s)
    <3>1. positions' = positions /\ p # NoPosition /\ Touched(p, new) = {}
      <4>1. ~(p # NoPosition /\ Touched(p, new) # {})
        BY <2>1, <2>3 DEF Reduce, TypeOK
      <4> QED
        BY <2>1, <2>3, <4>1
    <3>2. CASE i <= cursor[s]
      BY <1>1, <1>3, <2>1, <3>1, <3>2, StayingPut
    <3>3. CASE i > cursor[s]
      <4> DEFINE j == i - cursor[s]
      <4>1. i \in 1..Len(bars[s]) /\ cursor[s] + 1 \in 1..Len(bars[s])
        BY <1>1, <2>1, <2>3, <3>3 DEF TypeOK
      <4>2. Len(new) = Len(bars[s]) - cursor[s] /\ new \in Seq(Bars)
        <5>1. \A k \in cursor[s] + 1 .. Len(bars[s]) : bars[s][k] \in Bars
          BY <1>1, ElementOfSeq
        <5> QED
          BY <1>1, <4>1, <5>1, SubSeqProperties DEF Unseen
      <4>3. j \in 1..Len(new) /\ j \in DOMAIN new
        BY <1>1, <3>3, <4>1, <4>2
      <4>4. new[j] = bars[s][i]
        <5>1. new[j] = bars[s][cursor[s] + 1 + j - 1]
          <6>1. \A k \in cursor[s] + 1 .. Len(bars[s]) : bars[s][k] \in Bars
            BY <1>1, ElementOfSeq
          <6>2. j \in 1..(Len(bars[s]) - (cursor[s] + 1) + 1)
            BY <1>1, <4>1, <4>2, <4>3
          <6> HIDE DEF j
          <6> QED
            BY <1>1, <4>1, <6>1, <6>2, SubSeqProperties DEF Unseen
        <5>2. cursor[s] + 1 + j - 1 = i
          BY <1>1, <4>1
        <5> QED
          BY <5>1, <5>2
      <4>5. ~StopHit(p, bars[s][i])
        BY <3>1, <4>3, <4>4 DEF Touched
      <4>6. /\ p.stop \in Nat /\ p.side \in {1, -1} /\ p.entry \in EntryPrices
            /\ p.stop * p.side >= Stop[<<p.side, p.entry>>] * p.side
        BY <1>1, <3>1 DEF Guarded, TypeOK, Positions
      <4>7. ~Reaches(bars[s][i], p.stop, -p.side)
        BY <4>5, <4>6 DEF StopHit, NoPrice
      <4>8. bars[s][i] \in Bars /\ Stop[<<p.side, p.entry>>] \in Nat
        BY <1>1, <4>1, <4>6, ElementOfSeq, ShadowAssumption
      <4>9. ~Reaches(bars[s][i], Stop[<<p.side, p.entry>>], -p.side)
        <5> HIDE DEF p
        <5> QED
          BY <4>6, <4>7, <4>8, TighterIsReached
      <4> QED
        BY <2>1, <3>1, <4>9
    <3> QED
      BY <1>1, <3>2, <3>3
  <2> QED
    BY <2>2, <2>3
<1>8. CASE Report \/ UNCHANGED vars
  BY <1>1, <1>5, <1>8, StayingPut DEF Report, vars
<1>9. ASSUME NEW r \in Symbols, NEW stop \in StopPrices, UpdateStop(r, stop)
      PROVE  Safe
  <2>1. Kept(s) \/ Opened(s)
    BY <1>1, <1>9, PositionSteps DEF Restored, Connect, UpdateStop
  <2> QED
    BY <1>2, <1>5, <1>9, <2>1 DEF UpdateStop
<1>10. ASSUME NEW r \in Symbols, NEW quantity \in Quantities, NEW price \in ExitPrices,
              ExitMarket(r, quantity, price)
       PROVE  Safe
  <2>1. Kept(s) \/ Opened(s)
    BY <1>1, <1>10, PositionSteps DEF Restored, Connect, ExitMarket
  <2> QED
    BY <1>2, <1>5, <1>10, <2>1 DEF ExitMarket
<1>11. ASSUME NEW r \in Symbols, NEW side \in {1, -1}, NEW quantity \in Quantities,
              NEW price \in EntryPrices, EnterMarket(r, side, quantity, price)
       PROVE  Safe
  <2>1. UNCHANGED <<cursor, bars>>
    BY <1>11 DEF EnterMarket
  <2>2. CASE r = s
    <3>1. watched'[s] = cursor[s]
      BY <1>11, <2>2 DEF EnterMarket, Open, TypeOK
    <3> QED
      BY <1>1, <2>1, <3>1
  <2>3. CASE r # s
    <3>1. watched'[s] = watched[s] /\ positions'[s] = positions[s]
      BY <1>11, <2>3 DEF EnterMarket, Open, TypeOK
    <3> QED
      BY <1>1, <1>3, <2>1, <3>1, StayingPut
  <2> QED
    BY <2>2, <2>3
<1> HIDE DEF Safe
<1>12. CASE Next
  BY <1>2, <1>4, <1>6, <1>7, <1>8, <1>9, <1>10, <1>11, <1>12 DEF Next
<1> QED
  BY <1>8, <1>12

\* No bar the process has seen reaches the stop a position was opened with while it is
\* held.
THEOREM StopsHold == Spec => []StopsAreExecuted
<1>1. Init => StopsGuarded /\ StopsAreExecuted
  BY DEF Init, Empty, StopsGuarded, Guarded, StopsAreExecuted
<1> QED
  BY <1>1, GuardedNext, StopsNext, ShadowTypeCorrect, PTL DEF Spec
=============================================================================
