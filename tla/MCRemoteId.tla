----------------------------- MODULE MCRemoteId -----------------------------
(* Two aircraft and a table of two: with the entry that has no name the table *)
(* can be full.  A scan takes two units of time, the task's delay one.        *)
EXTENDS RemoteId, TLC

CONSTANTS a1, a2

MCAircraft == {a1, a2}
=============================================================================
