-------------------------------- MODULE Verify --------------------------------
(***************************************************************************)
(* run_verification (verify.py): one buy and one close of the smallest size, *)
(* with checks on the way, against an exchange that moves between any two of *)
(* its calls.  pc is the call whose answer is awaited; close_position is     *)
(* called from the round trip and again by _ensure_flat, and phase says by   *)
(* which.  Any call may fail, and an order whose answer is lost may have      *)
(* been taken.                                                               *)
(***************************************************************************)
EXTENDS Exchange

CONSTANT SETTLE_RETRIES

ASSUME RetriesAssumption == SETTLE_RETRIES \in Nat \ {0}

VARIABLES
  dry_run,
  pc,
  phase,    \* "trip", or "ensure" in the finally clause
  tries,    \* looks at the positions left
  read,     \* units of the position being closed, as it was read
  reports,  \* supports_closed_trades
  failed,   \* a critical check failed
  left,     \* position_left_open
  raised,   \* an exception leaves run_verification: nothing is reported
  sent,     \* an order was sent
  crossed,  \* history: a position was closed from outside after that
  opened    \* history: a close opened a position, or reversed one

report  == <<failed, left, raised>>
control == <<tries, read, reports, dry_run>>
noted   == <<crossed, opened>>
vars    == <<exchange, control, pc, phase, report, sent, noted>>

ok == ~failed /\ ~left

Checked(passes) == failed' = (failed \/ ~passes)
Finally == pc' = "ensure" /\ phase' = "ensure"

-----------------------------------------------------------------------------
Init ==
  /\ Account
  /\ dry_run \in BOOLEAN
  /\ pc = "connect" /\ phase = "trip" /\ tries = 0 /\ read = 0
  /\ failed = FALSE /\ left = FALSE /\ raised = FALSE /\ sent = FALSE
  /\ crossed = FALSE /\ opened = FALSE
  /\ reports = (broker # "ccxt")

\* BingX is asked for its history once: what it says of itself is not relied upon.
ProbedHistory == IF broker = "bingx" THEN BOOLEAN ELSE {reports}

Connect ==
  /\ pc = "connect" /\ Resolved # NoMarket
  /\ pc' = "balance"
  /\ reports' \in ProbedHistory
  /\ UNCHANGED <<exchange, tries, read, dry_run, phase, report, sent>>

\* A symbol the exchange does not list is an error of the connection.
ConnectFails ==
  /\ pc = "connect"
  /\ pc' = "done" /\ failed' = TRUE
  /\ UNCHANGED <<exchange, control, phase, left, raised, sent>>

-----------------------------------------------------------------------------
(* _read_only_checks *)

ReadOnlyCheck ==
  /\ \/ pc = "balance" /\ pc' = "ticker" /\ UNCHANGED phase
     \/ pc = "ticker" /\ pc' = "positions" /\ UNCHANGED phase
     \/ pc = "candles" /\ ~dry_run /\ pc' = "quote" /\ UNCHANGED phase
     \/ pc = "candles" /\ dry_run /\ Finally
  /\ \E passes \in BOOLEAN : Checked(passes)
  /\ UNCHANGED <<exchange, control, left, raised, sent>>

\* A position found here fails the check, and the round trip is made all the same.
CheckPositions ==
  /\ pc = "positions"
  /\ \E seen \in PositionAnswers : Checked(seen = 0)
  /\ pc' = "candles"
  /\ UNCHANGED <<exchange, control, phase, left, raised, sent>>

-----------------------------------------------------------------------------
(* _round_trip *)

\* The ticker is asked for outside of any try.
Quote ==
  /\ pc = "quote"
  /\ \/ pc' = "place" /\ UNCHANGED <<phase, raised>>
     \/ Finally /\ raised' = TRUE
  /\ UNCHANGED <<exchange, control, failed, left, sent>>

PlaceOrder ==
  /\ pc = "place"
  /\ EntryTaken
  /\ \E answer \in (IF broker = "oanda" THEN {"closed"} ELSE Answers) :
       Checked(StatusOf(answer) # "rejected")
  /\ pc' = "open" /\ tries' = SETTLE_RETRIES /\ sent' = TRUE
  /\ UNCHANGED <<read, reports, dry_run, phase, left, raised>>

\* Refused, or its answer lost.
PlaceOrderFails ==
  /\ pc = "place"
  /\ EntryTaken \/ UNCHANGED exchange
  /\ Checked(FALSE) /\ Finally /\ sent' = TRUE
  /\ UNCHANGED <<control, left, raised>>

\* Mutant: a position that does not show is a warning.
NeverShownAsWarning == UNCHANGED failed /\ Finally

NeverShown == Checked(FALSE) /\ Finally

WaitUntilOpen ==
  /\ pc = "open"
  /\ \E seen \in PositionAnswers :
       \/ /\ seen = NoAnswer
          /\ Finally /\ raised' = TRUE
          /\ UNCHANGED <<failed, tries>>
       \/ /\ seen \notin {0, NoAnswer}
          /\ pc' = "stop"
          /\ UNCHANGED <<phase, failed, raised, tries>>
       \/ /\ seen = 0 /\ tries > 1
          /\ tries' = tries - 1
          /\ UNCHANGED <<pc, phase, failed, raised>>
       \/ /\ seen = 0 /\ tries = 1
          /\ NeverShown
          /\ UNCHANGED <<tries, raised>>
  /\ UNCHANGED <<exchange, read, reports, dry_run, left, sent>>

\* OANDA's adapter reads the stop neither of a position nor of a pending order.
CheckStopAttached ==
  /\ pc = "stop"
  /\ \E seen \in (IF stop /\ broker # "oanda" THEN BOOLEAN ELSE {FALSE}) : Checked(seen)
  /\ pc' = "close"
  /\ UNCHANGED <<exchange, control, phase, left, raised, sent>>

-----------------------------------------------------------------------------
(* close_position, called twice *)

CloseFails ==
  IF phase = "trip"
  THEN Checked(FALSE) /\ Finally /\ UNCHANGED left
  ELSE pc' = "disconnect" /\ left' = TRUE /\ UNCHANGED <<phase, failed>>

\* Without an order the check of the round trip fails; then the position is waited for.
CloseReturns(order) ==
  /\ pc' = "flat" /\ tries' = SETTLE_RETRIES
  /\ Checked(order \/ phase = "ensure")
  /\ UNCHANGED <<phase, left>>

ClosePosition ==
  /\ pc = "close"
  /\ \E seen \in PositionAnswers :
       \/ seen = NoAnswer /\ CloseFails /\ UNCHANGED <<read, tries>>
       \/ seen = 0 /\ CloseReturns(FALSE) /\ UNCHANGED read
       \/ /\ seen \notin {0, NoAnswer}
          /\ read' = seen
          /\ pc' = IF broker = "oanda" THEN "send" ELSE "recheck"
          /\ UNCHANGED <<phase, tries, failed, left>>
  /\ UNCHANGED <<exchange, reports, dry_run, raised, sent>>

\* ccxt's place_order looks at the positions once more before it sends a reduce-only order.
Recheck ==
  /\ pc = "recheck"
  /\ \E seen \in PositionAnswers :
       IF seen * read > 0 THEN pc' = "send" /\ UNCHANGED <<phase, failed, left>>
       ELSE CloseFails
  /\ UNCHANGED <<exchange, control, raised, sent>>

SendClose ==
  /\ pc = "send" /\ sent' = TRUE
  /\ CloseTaken(read)
  /\ CloseReturns(TRUE)
  /\ UNCHANGED <<read, reports, dry_run, raised>>

SendCloseFails ==
  /\ pc = "send" /\ sent' = TRUE
  /\ CloseTaken(read) \/ UNCHANGED exchange
  /\ CloseFails
  /\ UNCHANGED <<control, raised>>

\* Mutant: it is waited for as long as it takes.
LookAgainForEver == UNCHANGED <<pc, phase, failed, left, tries>>

\* Mutant: a position that is still there after the close is a warning.
LookAgainAsWarning ==
  \/ tries > 1 /\ tries' = tries - 1 /\ UNCHANGED <<pc, phase, failed, left>>
  \/ /\ tries = 1 /\ UNCHANGED <<tries, phase, failed>>
     /\ IF phase = "trip" THEN pc' = "trades" /\ UNCHANGED left
        ELSE pc' = "disconnect" /\ left' = TRUE

\* Mutant: one look too many.
LookAgainOnceMore ==
  \/ tries > 0 /\ tries' = tries - 1 /\ UNCHANGED <<pc, phase, failed, left>>
  \/ /\ tries = 0 /\ UNCHANGED <<tries, phase, failed, left>>
     /\ pc' = IF phase = "trip" THEN "trades" ELSE "disconnect"

\* The position is still there: look again, unless this was the last time.
LookAgain ==
  \/ tries > 1 /\ tries' = tries - 1 /\ UNCHANGED <<pc, phase, failed, left>>
  \/ /\ tries = 1 /\ UNCHANGED <<tries, phase>>
     /\ IF phase = "trip"
        THEN pc' = "trades" /\ Checked(FALSE) /\ UNCHANGED left
        ELSE pc' = "disconnect" /\ left' = TRUE /\ UNCHANGED failed

WaitUntilFlat ==
  /\ pc = "flat"
  /\ \E seen \in PositionAnswers :
       \/ /\ seen = NoAnswer /\ UNCHANGED <<tries, failed>>
          /\ IF phase = "trip" THEN Finally /\ raised' = TRUE /\ UNCHANGED left
             ELSE pc' = "disconnect" /\ left' = TRUE /\ UNCHANGED <<phase, raised>>
       \/ /\ seen = 0 /\ UNCHANGED <<phase, tries, failed, left, raised>>
          /\ pc' = IF phase = "trip" THEN "trades" ELSE "disconnect"
       \/ seen \notin {0, NoAnswer} /\ LookAgain /\ UNCHANGED raised
  /\ UNCHANGED <<exchange, read, reports, dry_run, sent>>

\* Only an adapter that reports closed trades is asked for them.
ClosedTrades ==
  /\ pc = "trades"
  /\ \E passes \in (IF reports THEN BOOLEAN ELSE {TRUE}) : Checked(passes)
  /\ Finally
  /\ UNCHANGED <<exchange, control, left, raised, sent>>

-----------------------------------------------------------------------------
(* _ensure_flat, and the end *)

\* Positions that cannot be asked for count as none.
EnsureFlat ==
  /\ pc = "ensure"
  /\ \E seen \in PositionAnswers :
       pc' = IF seen \in {0, NoAnswer} THEN "disconnect" ELSE "close"
  /\ UNCHANGED <<exchange, control, phase, report, sent>>

Disconnect ==
  /\ pc = "disconnect"
  /\ pc' = "done"
  /\ UNCHANGED <<exchange, control, phase, report, sent>>

\* Ctrl-C cancels the await: of an order it is not known whether it was taken.  The finally
\* clause still runs; cancelled itself, it is over.
Interrupt ==
  /\ pc # "done" /\ raised' = TRUE
  /\ IF phase = "trip" /\ pc # "connect" THEN Finally ELSE pc' = "done" /\ UNCHANGED phase
  /\ IF pc \in {"place", "send"} THEN sent' = TRUE ELSE UNCHANGED sent
  /\ \/ pc = "place" /\ EntryTaken
     \/ pc = "send" /\ CloseTaken(read)
     \/ UNCHANGED exchange
  /\ UNCHANGED <<control, failed, left>>

Verification ==
  /\ \/ Connect \/ ConnectFails \/ ReadOnlyCheck \/ CheckPositions
     \/ Quote \/ PlaceOrder \/ PlaceOrderFails \/ WaitUntilOpen \/ CheckStopAttached
     \/ ClosePosition \/ Recheck \/ SendClose \/ SendCloseFails \/ WaitUntilFlat \/ ClosedTrades
     \/ EnsureFlat \/ Disconnect
  /\ UNCHANGED noted

\* An order that closes leaves less of the position, and nothing on its other side.
Closes(before, after) == after \in (IF before > 0 THEN 0..before ELSE before..0)

\* What the exchange does on its own; only an execution or a drop changes the queue.
Meanwhile ==
  /\ ExchangeNext
  /\ crossed' = (crossed \/ (sent /\ queue' = queue /\ position' # position))
  /\ opened' = (opened \/ (queue' # queue /\ Head(queue).reduces /\ ~Closes(position, position')))
  /\ UNCHANGED <<control, pc, phase, report, sent>>

Next ==
  \/ Verification
  \/ Interrupt /\ UNCHANGED noted
  \/ Meanwhile

Spec == Init /\ [][Next]_vars /\ WF_vars(Verification)

-----------------------------------------------------------------------------
(* Properties *)

Orders == [units : Int, reduces : BOOLEAN, stop : BOOLEAN]

\* Types; no more than the entry and two closes are ever waiting to be executed.
TypeOK ==
  /\ broker \in Brokers /\ markets \in MarketLists /\ {lists, keeps} \subseteq BOOLEAN
  /\ held \in Holdings \union {0}
  /\ {position, visible, read} \subseteq Int /\ queue \in Seq(Orders) /\ Len(queue) <= 3
  /\ {stop, dry_run, reports, failed, left, raised, sent, crossed, opened} \subseteq BOOLEAN
  /\ pc \in {"connect", "balance", "ticker", "positions", "candles", "quote", "place", "open",
             "stop", "close", "recheck", "send", "flat", "trades", "ensure", "disconnect", "done"}
  /\ phase \in {"trip", "ensure"} /\ tries \in 0..SETTLE_RETRIES
  /\ (pc \in {"open", "flat"} => tries > 0) /\ (pc \in {"send", "recheck"} => read # 0)

\* A verification that reports success leaves nothing behind: whatever the exchange did
\* meanwhile, and however late it showed it, no position is open and none will be.  At an
\* exchange that ignores reduce-only this is not claimed of a position that was closed from
\* outside too: the close that crosses it opens the other side.
OkMeansFlat ==
  pc = "done" /\ ok /\ ~raised /\ (keeps \/ ~crossed)
    => position = 0 /\ \A i \in DOMAIN queue : keeps /\ queue[i].reduces

\* What the round trip is there to find out (verify.py:13, 245-258): a close that opens or
\* reverses a position, because reduce-only is ignored, comes of an error that is reported --
\* the position was closed twice, or one was there before -- unless the position was closed
\* from outside too.  A close that looks at the position as it is opens nothing.
OpeningIsReported == opened => crossed \/ failed \/ raised

\* Verification ends: no exchange keeps it waiting for ever.
VerificationEnds == <>(pc = "done")

\* `--dry-run` sends no order (verify.py:33).  Refuted: _ensure_flat runs in any case and
\* closes the position it finds.
DryRunSendsNothing == dry_run => ~sent
=============================================================================
