-------------------------------- MODULE Alarm --------------------------------
(***************************************************************************)
(* What the alarms promise: a receiver that finds more than the current    *)
(* alert calls, and the alert is raised, never lowered by it; one that is   *)
(* current ends because it is old and not critical, or in the confusion of *)
(* a call beside the turn in which it is cleared.  Stamps, the wrap of the *)
(* clock, beeps, the LED and the threads' steps are not known.             *)
(***************************************************************************)
EXTENDS Integers

CONSTANTS Alerts, None, Critical, Timeout

VARIABLES
  current, age,   \* the alert, and the time since it was raised
  calling,        \* the alert a call is about, or None
  made,           \* the call has raised it
  beside          \* a call ran beside this turn

state == <<current, age, calling, made, beside>>

Init ==
  /\ current = None /\ age = 0 /\ calling = None
  /\ made = FALSE /\ beside = FALSE

Call(a) ==
  /\ calling = None /\ current < a
  /\ calling' = a
  /\ UNCHANGED <<current, age, made, beside>>

Raise ==
  /\ calling # None /\ made = FALSE /\ current < calling
  /\ current' = calling /\ age' = 0
  /\ made' = TRUE /\ beside' = TRUE
  /\ UNCHANGED calling

Proceed ==
  /\ made = TRUE /\ beside' = TRUE
  /\ UNCHANGED <<current, age, calling, made>>

Return ==
  /\ made = TRUE /\ made' = FALSE /\ calling' = None /\ beside' = TRUE
  /\ UNCHANGED <<current, age>>

Turn ==
  /\ beside' = (calling # None)
  /\ UNCHANGED <<current, age, calling, made>>

Clear ==
  /\ current # None
  /\ beside \/ (age > Timeout /\ current # Critical)
  /\ current' = None
  /\ UNCHANGED <<age, calling, made, beside>>

Pass ==
  /\ age' = IF age > Timeout THEN age ELSE age + 1
  /\ UNCHANGED <<current, calling, made, beside>>

Next ==
  \/ \E a \in Alerts : Call(a)
  \/ Raise \/ Proceed \/ Return \/ Turn \/ Clear \/ Pass

Spec == Init /\ [][Next]_state
=============================================================================
