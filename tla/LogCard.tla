------------------------------- MODULE LogCard -------------------------------
(***************************************************************************)
(* What the logger promises of the card: the set of logs changes only in   *)
(* the hands of the one task that has the bus.  An entry goes to one log   *)
(* and ends the task's turn; a log is given up only when there are more    *)
(* than MaxFiles, and in the session that began with an empty card never   *)
(* the one with the latest entry.  Sizes, stamps and calls are not known.  *)
(***************************************************************************)
EXTENDS Integers, FiniteSets

CONSTANTS Tasks, NoTask, Names, MaxFiles

VARIABLES
  owner,    \* the task that has the bus
  logs,     \* the files on the card
  latest,   \* the file with the latest entry
  first     \* no session came before this one

state == <<owner, logs, latest, first>>

Init == owner = NoTask /\ logs = {} /\ latest = 0 /\ first = TRUE

Take(t) ==
  /\ owner = NoTask /\ owner' = t
  /\ UNCHANGED <<logs, latest, first>>

Release ==
  /\ owner # NoTask /\ owner' = NoTask
  /\ UNCHANGED <<logs, latest, first>>

\* The entry may be lost on its way to the log.
Enter(f) ==
  /\ owner # NoTask /\ owner' = NoTask
  /\ logs' = logs \cup {f} /\ latest' \in {f, latest}
  /\ UNCHANGED first

GiveUp(f) ==
  /\ owner # NoTask
  /\ f \in logs /\ Cardinality(logs) > MaxFiles
  /\ first => f # latest
  /\ logs' = logs \ {f}
  /\ UNCHANGED <<owner, latest, first>>

NextSession ==
  /\ owner = NoTask /\ first /\ first' = FALSE
  /\ UNCHANGED <<owner, logs, latest>>

Next ==
  \/ \E t \in Tasks : Take(t)
  \/ Release \/ NextSession
  \/ \E f \in Names : Enter(f) \/ GiveUp(f)

Spec == Init /\ [][Next]_state
=============================================================================
