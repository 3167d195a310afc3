---------------------------- MODULE AircraftTable ----------------------------
(***************************************************************************)
(* What RemoteIDDetector promises about its table: one entry for each name *)
(* heard, no more entries than there is room for, every message of a name  *)
(* renews its entry, and an entry goes only after the name has been silent *)
(* for the timeout.  Nothing here knows of an order of entries.            *)
(***************************************************************************)
EXTENDS Integers

CONSTANTS Names, Capacity, Timeout, MaxSilence

VARIABLES
  entries,   \* [uasID, silence] for each name in the table
  used       \* places taken

NewEntry(name) == [uasID |-> name, silence |-> 0]
Others(name) == {e \in entries : e.uasID # name}
Known(name) == \E e \in entries : e.uasID = name

Init == entries = {} /\ used = 0

Add(name) ==
  /\ ~Known(name) /\ used < Capacity
  /\ entries' = entries \cup {NewEntry(name)} /\ used' = used + 1

Renew(name) ==
  /\ Known(name)
  /\ entries' = Others(name) \cup {NewEntry(name)} /\ UNCHANGED used

Expire(e) ==
  /\ e \in entries /\ e.silence > Timeout
  /\ entries' = Others(e.uasID) /\ used' = used - 1

Later(e) ==
  [e EXCEPT !.silence = IF e.silence < MaxSilence THEN e.silence + 1
                                                  ELSE e.silence]

Pass == entries' = {Later(e) : e \in entries} /\ UNCHANGED used

Next ==
  \/ \E name \in Names : Add(name) \/ Renew(name)
  \/ \E e \in entries : Expire(e)
  \/ Pass

Spec == Init /\ [][Next]_<<entries, used>>
=============================================================================
