---------------------------- MODULE LifecycleProofs ----------------------------
(***************************************************************************)
(* Safety proofs for Lifecycle: for any orders at the broker, any number of  *)
(* starts, crashes and requests, and fills at any moment.                    *)
(***************************************************************************)
EXTENDS Lifecycle, TLAPS

-----------------------------------------------------------------------------
(* The inductive invariants, beside TypeOK *)

\* The process has its orders from the broker, where none disappears: so one that it knows,
\* asks about or found there exists, and what refresh brings is a status.
KnownExist ==
  \A o \in Orders : tracked[o] # "unknown" \/ o \in todo \union found => book[o] # "none"

\* The orders found at the start stay tracked as open for as long as they are open at the
\* broker, and in the shutdown each of those is still to be cancelled, unless its cancel
\* has failed.
FoundTracked ==
  /\ pc \in {"down", "launched", "starting"} => found = {}
  /\ \A o \in found : Active(book[o]) => Active(tracked[o])
  /\ pc = "cancel" => \A o \in found : Active(book[o]) => o \in todo \/ o \in failed

\* A request the process has not seen yet is in the file or in the event, and only a
\* process that has not yet looked for old ones removes the file.
RequestKept == asked => Listening /\ (stop_file \/ stop_event)

LInv == TypeOK /\ KnownExist /\ FoundTracked /\ RequestKept

-----------------------------------------------------------------------------

LEMMA LifecycleInit == Init => LInv
BY OrderAssumption
   DEF Init, LInv, TypeOK, KnownExist, FoundTracked, RequestKept, Orders, Statuses, Untracked

LEMMA LifecycleTypeNext == LInv /\ [Next]_vars => TypeOK' /\ KnownExist'
<1> SUFFICES ASSUME LInv, [Next]_vars PROVE TypeOK' /\ KnownExist'
  OBVIOUS
<1> USE DEF LInv, TypeOK, KnownExist, Statuses, Active, vars, broker, orders, asks
<1>1. None \notin Orders /\ Stops \subseteq Orders /\ Resting \subseteq Orders
  BY OrderAssumption DEF Orders
<1>2. ActiveOrders \subseteq Orders /\ \A o \in ActiveOrders : book[o] # "none"
  BY DEF ActiveOrders
<1>3. CASE UNCHANGED vars
  BY <1>3
<1>4. ASSUME NEW o \in Resting, OrderLeft(o) PROVE TypeOK' /\ KnownExist'
  BY <1>1, <1>4 DEF OrderLeft
<1>5. ASSUME NEW o \in Orders, OrderFills(o) PROVE TypeOK' /\ KnownExist'
  BY <1>1, <1>5 DEF OrderFills
<1>6. CASE RequestStop \/ Signal \/ Launch \/ ClearStop
  BY <1>6 DEF RequestStop, Signal, Launch, ClearStop, Listening
<1>7. CASE Crash \/ ConnectFails \/ ShutdownEnds
  BY <1>7 DEF Crash, ConnectFails, ShutdownEnds, Ended, Untracked
<1>8. CASE StartFails \/ StopSeen \/ LastStep
  BY <1>2, <1>8 DEF StartFails, StopSeen, LastStep, ShutdownBegins
<1>9. CASE SyncOpenOrders
  BY <1>9 DEF SyncOpenOrders
<1>10. CASE StepBegins \/ StepEnds \/ RefreshDone
  BY <1>2, <1>10 DEF StepBegins, StepEnds, RefreshDone
<1>11. CASE Wake
  BY <1>2, <1>11 DEF Wake, ShutdownBegins
<1>12. ASSUME NEW o \in Orders, Refresh(o) \/ RefreshFails(o) PROVE TypeOK' /\ KnownExist'
  BY <1>12 DEF Refresh, RefreshFails
<1>13. ASSUME NEW o \in Stops, Enter(o) PROVE TypeOK' /\ KnownExist'
  BY <1>1, <1>13 DEF Enter
<1>14. CASE Exit
  BY <1>1, <1>14 DEF Exit
<1>15. ASSUME NEW o \in Orders, Cancel(o) \/ CancelFails(o) PROVE TypeOK' /\ KnownExist'
  BY <1>1, <1>15 DEF Cancel, CancelFails, Cancelled
<1> QED
  BY <1>3, <1>4, <1>5, <1>6, <1>7, <1>8, <1>9, <1>10, <1>11, <1>12, <1>13, <1>14, <1>15
     DEF Next, Process

LEMMA FoundTrackedNext == LInv /\ [Next]_vars => FoundTracked'
<1> SUFFICES ASSUME LInv, [Next]_vars PROVE FoundTracked'
  OBVIOUS
<1> USE DEF LInv, TypeOK, KnownExist, FoundTracked, Active, vars, broker, orders, asks
<1>1. None \notin Orders /\ Stops \subseteq Orders /\ Resting \subseteq Orders
  BY OrderAssumption DEF Orders
<1>2. \A o \in found : Active(book[o]) => o \in ActiveOrders
  BY DEF ActiveOrders
<1>3. CASE UNCHANGED vars
  BY <1>3
<1>4. ASSUME NEW o \in Resting, OrderLeft(o) PROVE FoundTracked'
  BY <1>1, <1>4 DEF OrderLeft
<1>5. ASSUME NEW o \in Orders, OrderFills(o) PROVE FoundTracked'
  BY <1>1, <1>5 DEF OrderFills
<1>6. CASE RequestStop \/ Signal \/ Launch \/ ClearStop
  BY <1>6 DEF RequestStop, Signal, Launch, ClearStop, Listening
<1>7. CASE Crash \/ ConnectFails \/ ShutdownEnds
  BY <1>7 DEF Crash, ConnectFails, ShutdownEnds, Ended
<1>8. CASE StartFails \/ StopSeen \/ LastStep
  BY <1>2, <1>8 DEF StartFails, StopSeen, LastStep, ShutdownBegins
<1>9. CASE SyncOpenOrders
  BY <1>9 DEF SyncOpenOrders
<1>10. CASE StepBegins \/ StepEnds \/ RefreshDone
  BY <1>2, <1>10 DEF StepBegins, StepEnds, RefreshDone
<1>11. CASE Wake
  BY <1>2, <1>11 DEF Wake, ShutdownBegins
<1>12. ASSUME NEW o \in Orders, Refresh(o) \/ RefreshFails(o) PROVE FoundTracked'
  BY <1>12 DEF Refresh, RefreshFails
<1>13. ASSUME NEW o \in Stops, Enter(o) PROVE FoundTracked'
  BY <1>1, <1>13 DEF Enter
<1>14. CASE Exit
  BY <1>1, <1>14 DEF Exit
<1>15. ASSUME NEW o \in Orders, Cancel(o) \/ CancelFails(o) PROVE FoundTracked'
  BY <1>1, <1>15 DEF Cancel, CancelFails, Cancelled
<1> QED
  BY <1>3, <1>4, <1>5, <1>6, <1>7, <1>8, <1>9, <1>10, <1>11, <1>12, <1>13, <1>14, <1>15
     DEF Next, Process

LEMMA RequestKeptNext == LInv /\ [Next]_vars => RequestKept'
<1> SUFFICES ASSUME LInv, [Next]_vars PROVE RequestKept'
  OBVIOUS
<1> USE DEF LInv, TypeOK, RequestKept, Listening, vars, broker, orders, asks
<1>1. CASE RequestStop \/ Signal
  BY <1>1 DEF RequestStop, Signal
<1>2. CASE Launch \/ ClearStop \/ StartFails \/ SyncOpenOrders
  BY <1>2 DEF Launch, ClearStop, StartFails, SyncOpenOrders, ShutdownBegins
<1>3. CASE Crash \/ ConnectFails \/ ShutdownEnds
  BY <1>3 DEF Crash, ConnectFails, ShutdownEnds, Ended
<1>4. CASE StopSeen \/ StepBegins \/ RefreshDone \/ LastStep \/ StepEnds \/ Wake
  BY <1>4 DEF StopSeen, StepBegins, RefreshDone, LastStep, StepEnds, Wake, ShutdownBegins
<1>5. ASSUME NEW o \in Orders, Refresh(o) \/ RefreshFails(o) \/ Cancel(o) \/ CancelFails(o)
             PROVE RequestKept'
  BY <1>5 DEF Refresh, RefreshFails, Cancel, CancelFails
<1>6. ASSUME NEW o, OrderLeft(o) \/ OrderFills(o) \/ Enter(o) PROVE RequestKept'
  BY <1>6 DEF OrderLeft, OrderFills, Enter
<1>7. CASE Exit \/ UNCHANGED vars
  BY <1>7 DEF Exit
<1> QED
  BY <1>1, <1>2, <1>3, <1>4, <1>5, <1>6, <1>7 DEF Next, Process

LEMMA LifecycleInvariant == Spec => []LInv
<1>1. Init => LInv
  BY LifecycleInit
<1>2. LInv /\ [Next]_vars => LInv'
  BY LifecycleTypeNext, FoundTrackedNext, RequestKeptNext DEF LInv
<1>3. QED
  BY <1>1, <1>2, PTL DEF Spec

\* Orders and positions have a status the broker could have given them, whatever was
\* asked, filled and cancelled in between (orders.py, OrderManager._orders).
THEOREM LifecycleTypeCorrect == Spec => []TypeOK
<1>1. LInv => TypeOK
  BY DEF LInv
<1>2. QED
  BY <1>1, LifecycleInvariant, PTL

\* A process that was asked to stop begins no further step: the request is kept until the
\* process has seen it at the loop boundary (runner.py:122-124, control.py).
THEOREM AskedBeginsNoStep == Spec => NoStepOnceAsked
<1>1. LInv /\ [Next]_vars => [asked /\ pc = "boundary" => pc' # "refresh"]_vars
  <2> SUFFICES ASSUME LInv, Next, asked, pc = "boundary" PROVE pc' # "refresh"
    OBVIOUS
  <2> USE DEF LInv, RequestKept, asks
  <2>1. StopDue
    BY DEF StopDue
  <2>2. CASE Process
    BY <2>1, <2>2 DEF Process, ClearStop, ConnectFails, StartFails, SyncOpenOrders, StopSeen,
       ShutdownBegins, StepBegins, RefreshDone, LastStep, StepEnds, Wake, ShutdownEnds, Ended,
       Refresh, RefreshFails, Cancel, CancelFails
  <2>3. CASE Launch \/ Crash \/ RequestStop \/ Signal \/ Exit
    BY <2>3 DEF Launch, Crash, Ended, RequestStop, Signal, Exit
  <2>4. ASSUME NEW o, Enter(o) \/ OrderLeft(o) \/ OrderFills(o) PROVE pc' # "refresh"
    BY <2>4 DEF Enter, OrderLeft, OrderFills
  <2> QED
    BY <2>2, <2>3, <2>4 DEF Next
<1>2. QED
  BY <1>1, LifecycleInvariant, PTL DEF Spec, NoStepOnceAsked

\* A shutdown that runs to its end leaves no order open that was at the broker when the
\* process started, unless its cancel failed: whatever happened to the order, the refresh
\* and the process in between (orders.py, sync_open_orders and cancel_all).
THEOREM ShutdownCancelsFound == Spec => FoundOrdersCancelled
<1> DEFINE A == pc = "cancel" /\ pc' = "down" /\ todo = {} =>
                  \A o \in found : Active(book[o]) => o \in failed
<1>1. LInv /\ [Next]_vars => [A]_vars
  BY DEF LInv, FoundTracked
<1>2. QED
  BY <1>1, LifecycleInvariant, PTL DEF Spec, FoundOrdersCancelled
=============================================================================
