--------------------------- MODULE SettingsStore ---------------------------
(***************************************************************************)
(* What ConfigManager promises about /config.json: one durable value that  *)
(* is replaced by a write with a beginning and an end.  A write destroys   *)
(* the old value when it begins, so a crash inside it leaves nothing; no   *)
(* other step touches the value except an explicit erase.                  *)
(***************************************************************************)
CONSTANTS Values, None

VARIABLES stored, writing

Init == stored \in Values \cup {None} /\ writing = FALSE

BeginWrite == ~writing /\ writing' = TRUE /\ stored' = None

Commit == writing /\ writing' = FALSE /\ stored' \in Values

Abort == writing /\ writing' = FALSE /\ stored' = None

Erase == ~writing /\ stored' = None /\ UNCHANGED writing

Next == BeginWrite \/ Commit \/ Abort \/ Erase

Spec == Init /\ [][Next]_<<stored, writing>>
=============================================================================
