------------------------------- MODULE LossGate -------------------------------
(***************************************************************************)
(* What RiskManager promises, in terms of what really happened and with     *)
(* nothing of its memory or its file: once a loss limit is reached no entry *)
(* is approved for the rest of the day, and a day sees no more entries than *)
(* MaxDailyTrades.  Two things excuse it: a killed process may forget       *)
(* entries of that day (killed), and a file the disk or a second process    *)
(* destroyed may forget everything (lost).                                  *)
(***************************************************************************)
EXTENDS Integers

CONSTANTS MaxDailyTrades

VARIABLES
  day,
  tripped,   \* a limit was reached today and the operator has not resumed since
  approved,  \* an entry is approved and on its way to the broker
  entries,   \* entries placed today
  killed,    \* the process was killed today
  lost       \* the record on disk was destroyed at some time

vars == <<day, tripped, approved, entries, killed, lost>>

Init ==
  /\ day \in Nat /\ entries = 0
  /\ tripped = FALSE /\ approved = FALSE /\ killed = FALSE /\ lost = FALSE

NewDay ==
  /\ day' \in Nat /\ day' > day
  /\ tripped' = FALSE /\ entries' = 0 /\ killed' = FALSE
  /\ UNCHANGED <<approved, lost>>

Approve ==
  /\ ~approved /\ (~tripped \/ lost)
  /\ approved' = TRUE
  /\ UNCHANGED <<day, tripped, entries, killed, lost>>

Enter ==
  /\ approved /\ approved' = FALSE
  /\ entries < MaxDailyTrades \/ killed \/ lost
  /\ entries' = entries + 1
  /\ UNCHANGED <<day, tripped, killed, lost>>

Drop ==
  /\ approved /\ approved' = FALSE
  /\ UNCHANGED <<day, tripped, entries, killed, lost>>

LossLimitReached ==
  /\ ~approved
  /\ tripped' = TRUE
  /\ UNCHANGED <<day, approved, entries, killed, lost>>

Lift ==
  /\ tripped' = FALSE
  /\ UNCHANGED <<day, approved, entries, killed, lost>>

Kill ==
  /\ killed' = TRUE /\ approved' = FALSE /\ lost' \in {lost, TRUE}
  /\ UNCHANGED <<day, tripped, entries>>

LoseRecord ==
  /\ lost' = TRUE /\ tripped' \in {tripped, FALSE}
  /\ UNCHANGED <<day, approved, entries, killed>>

Next ==
  \/ NewDay \/ Approve \/ Enter \/ Drop \/ LossLimitReached
  \/ Lift \/ Kill \/ LoseRecord

Spec == Init /\ [][Next]_vars
=============================================================================
