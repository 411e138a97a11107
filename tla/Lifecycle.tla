------------------------------- MODULE Lifecycle -------------------------------
(***************************************************************************)
(* The life of the trading process: StrategyRunner.run and _shutdown         *)
(* (core/runner.py), the orders OrderManager tracks (core/orders.py), the    *)
(* STOP file of control.py, which other processes write, and the signals     *)
(* that cli.py turns into stop().  What a step trades is TradingLoop's       *)
(* subject: here it opens and closes one position with its attached stop.    *)
(***************************************************************************)
EXTENDS FiniteSets

CONSTANTS
  Resting,     \* orders somebody else may leave at the broker
  Stops,       \* stop orders the exchange attaches to the positions entered
  None

ASSUME OrderAssumption == Resting \intersect Stops = {} /\ None \notin Resting \union Stops

Orders == Resting \union Stops

VARIABLES
  book,        \* the broker: the status of every order
  held,        \* the stop order of the open position, or None without position
  tracked,     \* OrderManager._orders
  todo,        \* the orders refresh or cancel_all has still to ask about
  pc,          \* where run() is
  stop_file,   \* state_dir/STOP exists
  stop_event,  \* _stop_event
  \* History:
  asked,       \* this process was asked to stop after it had looked for old requests
  found,       \* the orders open at the broker when the process took them over
  failed       \* orders whose cancel failed in this shutdown

orders == <<tracked, todo>>
broker == <<book, held>>
asks   == <<stop_file, stop_event, asked>>
vars   == <<broker, orders, pc, asks, found, failed>>

Active(status) == status = "open"
ActiveOrders == {o \in Orders : Active(tracked[o])}
Untracked == [o \in Orders |-> "unknown"]

\* run() has looked at the STOP file: a request made before counts as an old one, also
\* one that was meant for the process that is just starting.
Listening == pc \notin {"down", "launched"}

Init ==
  /\ book = [o \in Orders |-> "none"] /\ held = None
  /\ tracked = Untracked /\ todo = {}
  /\ pc = "down"
  /\ stop_file = FALSE /\ stop_event = FALSE /\ asked = FALSE
  /\ found = {} /\ failed = {}

-----------------------------------------------------------------------------
(* The broker and the people around it *)

OrderLeft(o) ==
  /\ book[o] = "none"
  /\ book' = [book EXCEPT ![o] = "open"]
  /\ UNCHANGED <<held, orders, pc, asks, found, failed>>

OrderFills(o) ==
  /\ book[o] = "open"
  /\ book' = [book EXCEPT ![o] = "filled"]
  /\ held' = IF held = o THEN None ELSE held
  /\ UNCHANGED <<orders, pc, asks, found, failed>>

\* KillSwitch.request, from `zerotrade stop` or forward_stop.sh.
RequestStop ==
  /\ stop_file' = TRUE
  /\ asked' = (asked \/ Listening)
  /\ UNCHANGED <<broker, orders, pc, stop_event, found, failed>>

\* SIGINT or SIGTERM; before the handlers are there they simply end the process.
Signal ==
  /\ pc # "down"
  /\ stop_event' = TRUE
  /\ asked' = (asked \/ Listening)
  /\ UNCHANGED <<broker, orders, pc, stop_file, found, failed>>

-----------------------------------------------------------------------------
(* run() up to its loop *)

Ended ==
  /\ pc' = "down"
  /\ tracked' = Untracked /\ todo' = {}
  /\ stop_event' = FALSE /\ asked' = FALSE /\ found' = {} /\ failed' = {}

Launch ==
  /\ pc = "down"
  /\ pc' = "launched"
  /\ UNCHANGED <<broker, orders, asks, found, failed>>

Crash ==
  /\ pc # "down"
  /\ Ended
  /\ UNCHANGED <<broker, stop_file>>

\* A request found at the start is an old one: starting is the wish to go on.
ClearStop ==
  /\ pc = "launched"
  /\ stop_file' = FALSE
  /\ pc' = "starting"
  /\ UNCHANGED <<broker, orders, stop_event, asked, found, failed>>

\* connect raises outside of run()'s try: nothing is cleaned up.
ConnectFails ==
  /\ pc = "starting"
  /\ Ended
  /\ UNCHANGED <<broker, stop_file>>

ShutdownBegins ==
  /\ pc' = "cancel"
  /\ todo' = ActiveOrders

\* get_balance or get_open_orders raises.
StartFails ==
  /\ pc = "starting"
  /\ ShutdownBegins
  /\ UNCHANGED <<broker, tracked, asks, found, failed>>

\* Mutant: orders that were there before are not taken over.
SyncNothing ==
  /\ pc = "starting"
  /\ pc' = "boundary"
  /\ found' = {o \in Orders : Active(book[o])}
  /\ UNCHANGED <<broker, orders, asks, failed>>

\* sync_open_orders
SyncOpenOrders ==
  /\ pc = "starting"
  /\ tracked' = [o \in Orders |-> IF Active(book[o]) THEN book[o] ELSE tracked[o]]
  /\ found' = {o \in Orders : Active(book[o])}
  /\ pc' = "boundary"
  /\ UNCHANGED <<broker, todo, asks, failed>>

-----------------------------------------------------------------------------
(* The loop *)

\* Mutant: the loop looks at the stop event alone.
StopDueByEvent == stop_event

\* The loop condition and _check_kill_switch.
StopDue == stop_event \/ stop_file

StopSeen ==
  /\ pc = "boundary" /\ StopDue
  /\ stop_event' = TRUE
  /\ ShutdownBegins
  /\ UNCHANGED <<broker, tracked, stop_file, asked, found, failed>>

StepBegins ==
  /\ pc = "boundary" /\ ~StopDue
  /\ pc' = "refresh"
  /\ todo' = ActiveOrders
  /\ UNCHANGED <<broker, tracked, asks, found, failed>>

\* Mutant: what the broker says of an order is not kept.
RefreshWithoutTrack(o) ==
  /\ pc = "refresh" /\ o \in todo
  /\ todo' = todo \ {o}
  /\ UNCHANGED <<broker, tracked, pc, asks, found, failed>>

Refresh(o) ==
  /\ pc = "refresh" /\ o \in todo
  /\ tracked' = [tracked EXCEPT ![o] = book[o]]
  /\ todo' = todo \ {o}
  /\ UNCHANGED <<broker, pc, asks, found, failed>>

RefreshFails(o) ==
  /\ pc = "refresh" /\ o \in todo
  /\ todo' = todo \ {o}
  /\ UNCHANGED <<broker, tracked, pc, asks, found, failed>>

RefreshDone ==
  /\ pc = "refresh" /\ todo = {}
  /\ pc' = "step"
  /\ UNCHANGED <<broker, orders, asks, found, failed>>

\* The order itself is filled at once; the stop attached to it stays open, untracked.
Enter(o) ==
  /\ pc = "step" /\ held = None /\ book[o] = "none"
  /\ held' = o /\ book' = [book EXCEPT ![o] = "open"]
  /\ UNCHANGED <<orders, pc, asks, found, failed>>

Exit ==
  /\ pc = "step" /\ held # None
  /\ held' = None /\ book' = [book EXCEPT ![held] = "cancelled"]
  /\ UNCHANGED <<orders, pc, asks, found, failed>>

\* max_iterations, or an error step() does not catch.
LastStep ==
  /\ pc = "step"
  /\ ShutdownBegins
  /\ UNCHANGED <<broker, tracked, asks, found, failed>>

StepEnds ==
  /\ pc = "step"
  /\ pc' = IF stop_event THEN "cancel" ELSE "sleep"
  /\ todo' = IF stop_event THEN ActiveOrders ELSE todo
  /\ UNCHANGED <<broker, tracked, asks, found, failed>>

\* poll_interval_seconds are over, or the stop event is set; the file wakes nobody.
Wake ==
  /\ pc = "sleep"
  /\ IF stop_event THEN ShutdownBegins ELSE pc' = "boundary" /\ UNCHANGED todo
  /\ UNCHANGED <<broker, tracked, asks, found, failed>>

-----------------------------------------------------------------------------
(* _shutdown: cancel_all, save, disconnect *)

\* An order that is already over stays what it is.
Cancelled(o) == IF book[o] = "open" THEN "cancelled" ELSE book[o]

Cancel(o) ==
  /\ pc = "cancel" /\ o \in todo
  /\ book' = [book EXCEPT ![o] = Cancelled(o)]
  /\ tracked' = [tracked EXCEPT ![o] = Cancelled(o)]
  /\ todo' = todo \ {o}
  /\ UNCHANGED <<held, pc, asks, found, failed>>

\* The call fails, before or after the broker cancelled the order.
CancelFails(o) ==
  /\ pc = "cancel" /\ o \in todo
  /\ book' = [book EXCEPT ![o] = Cancelled(o)] \/ UNCHANGED book
  /\ todo' = todo \ {o}
  /\ failed' = failed \union {o}
  /\ UNCHANGED <<held, tracked, pc, asks, found>>

ShutdownEnds ==
  /\ pc = "cancel" /\ todo = {}
  /\ Ended
  /\ UNCHANGED <<broker, stop_file>>

-----------------------------------------------------------------------------
Process ==
  \/ ClearStop \/ ConnectFails \/ StartFails \/ SyncOpenOrders
  \/ StopSeen \/ StepBegins \/ RefreshDone \/ LastStep \/ StepEnds \/ Wake \/ ShutdownEnds
  \/ \E o \in Orders : Refresh(o) \/ RefreshFails(o) \/ Cancel(o) \/ CancelFails(o)

Next ==
  \/ Process \/ Launch \/ Crash \/ RequestStop \/ Signal
  \/ Exit
  \/ \E o \in Stops : Enter(o)
  \/ \E o \in Resting : OrderLeft(o)
  \/ \E o \in Orders : OrderFills(o)

Spec == Init /\ [][Next]_vars

\* The event loop runs a process whose await is over and every await ends; a broker
\* asked about an order in step after step answers some day.
FairSpec == Spec /\ WF_vars(Process) /\ \A o \in Orders : SF_vars(Refresh(o))

-----------------------------------------------------------------------------
(* Properties *)

Statuses == {"open", "filled", "cancelled"}

TypeOK ==
  /\ book \in [Orders -> Statuses \union {"none"}]
  /\ held \in Stops \union {None} /\ (held # None => book[held] \in {"open", "cancelled"})
  /\ tracked \in [Orders -> Statuses \union {"unknown"}]
  /\ todo \subseteq Orders /\ failed \subseteq Orders
  /\ pc \in {"down", "launched", "starting", "boundary", "refresh", "step", "sleep", "cancel"}
  /\ {stop_file, stop_event, asked} \subseteq BOOLEAN
  /\ found \subseteq Orders

\* A process asked to stop ends, whether it sleeps, waits for the broker or is starting,
\* and however the request came (runner.py:118, control.py).
StopsWhenAsked == asked ~> pc = "down"

\* The safety half of it: a request is never forgotten, so that no step begins after it and
\* the process stops at the next loop boundary (runner.py:122-124), however it was asked.
NoStepOnceAsked == [][asked /\ pc = "boundary" => pc' # "refresh"]_vars

\* What has become of an order the process knows reaches it (orders.py, refresh), if the
\* process lives, although any one question about it may fail.
OrdersSettle ==
  \A o \in Orders : (Active(tracked[o]) /\ ~Active(book[o])) ~> ~Active(tracked[o])

\* A shutdown leaves no order open that was at the broker when the process started,
\* unless its cancel failed (orders.py:182: none may slip through a restart).
FoundOrdersCancelled ==
  [][pc = "cancel" /\ pc' = "down" /\ todo = {} =>
       \A o \in found : Active(book[o]) => o \in failed]_vars

\* verify.py:283-284: without a stop at the exchange a position is unprotected as soon as
\* the process is gone, so no process may leave one behind.
PositionsStayProtected == pc = "down" /\ held # None => Active(book[held])
=============================================================================
