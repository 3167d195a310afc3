------------------------------ MODULE Neighbours ------------------------------
(***************************************************************************)
(* What the mesh promises of the nodes around: a node that is heard is      *)
(* known, as long as there are places, and present at once; a present node  *)
(* goes only after a silence, or in the confusion a message may cause; none *)
(* is present that has been silent too long.  A known node keeps its place  *)
(* until this node starts again.  Slots, stamps and threads are not known.  *)
(***************************************************************************)
EXTENDS Integers

CONSTANTS Nodes, Capacity, Stale, Latest

VARIABLES
  known, present,   \* sets of nodes
  places,           \* taken by known nodes
  silence,          \* of the known nodes
  disturbed         \* a message came since the last look at a silence

state == <<known, present, places, silence, disturbed>>

Init ==
  /\ known = {} /\ present = {} /\ places = 0
  /\ silence = [n \in Nodes |-> 0] /\ disturbed = FALSE

Hear(n) ==
  /\ \/ n \in known /\ UNCHANGED places
     \/ n \notin known /\ places < Capacity /\ places' = places + 1
  /\ known' = known \cup {n} /\ present' = present \cup {n}
  /\ silence' = [silence EXCEPT ![n] = 0]
  /\ disturbed' = TRUE

Look == disturbed' = FALSE /\ UNCHANGED <<known, present, places, silence>>

Drop(n) ==
  /\ n \in present
  /\ disturbed \/ silence[n] > Stale
  /\ present' = present \ {n}
  /\ UNCHANGED <<known, places, silence, disturbed>>

Pass ==
  /\ silence' = [n \in Nodes |-> IF n \notin known THEN 0
                                 ELSE IF silence[n] > Latest THEN silence[n]
                                 ELSE silence[n] + 1]
  /\ \A n \in present : silence'[n] <= Latest
  /\ UNCHANGED <<known, present, places, disturbed>>

StartAgain ==
  /\ known' = {} /\ present' = {} /\ places' = 0
  /\ silence' = [n \in Nodes |-> 0] /\ disturbed' = FALSE

Next == (\E n \in Nodes : Hear(n) \/ Drop(n)) \/ Look \/ Pass \/ StartAgain

Spec == Init /\ [][Next]_state
=============================================================================
