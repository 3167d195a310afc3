---------------------------- MODULE ActivityBoard ----------------------------
(***************************************************************************)
(* What the dashboard and the display are promised of the activity: one    *)
(* record for all receivers, taken by every reading above none, whatever it *)
(* showed before, and with the level the alarm is raised for.  It is kept   *)
(* for the timeout, and forgotten by the first reading of nothing after it, *)
(* a pause later at most.  Thresholds, stamps and the clock are not known.  *)
(***************************************************************************)
EXTENDS Integers

CONSTANTS Receivers, Levels, Nothing, Timeout, Pause

VARIABLES
  given,         \* receiver and level of the reading in hand, or Nothing
  by, shown,     \* the record: receiver and level, 0 when it is empty
  quiet          \* time the record was not renewed

state == <<given, by, shown, quiet>>

Init == given = Nothing /\ by \in Receivers /\ shown = 0 /\ quiet = 0

Observe(r, l) ==
  /\ given = Nothing /\ l > 0
  /\ given' = <<r, l>> /\ by' = r /\ shown' = l /\ quiet' = 0

ObserveNothing(r) ==
  /\ given = Nothing /\ given' = <<r, 0>>
  /\ UNCHANGED by
  /\ IF quiet > Timeout THEN shown' = 0 /\ quiet' = 0
     ELSE UNCHANGED <<shown, quiet>>

Report == given # Nothing /\ given' = Nothing /\ UNCHANGED <<by, shown, quiet>>

Pass ==
  /\ given = Nothing /\ shown > 0
  /\ quiet' = quiet + 1 /\ quiet' <= Timeout + Pause
  /\ UNCHANGED <<given, by, shown>>

Next ==
  \/ \E r \in Receivers : ObserveNothing(r) \/ \E l \in Levels : Observe(r, l)
  \/ Report \/ Pass

Spec == Init /\ [][Next]_state
=============================================================================
