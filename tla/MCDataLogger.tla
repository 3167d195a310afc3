---------------------------- MODULE MCDataLogger ----------------------------
(* DataLogger with two tasks on the bus, two files and entries that fill a *)
(* file at once, or in steps when print() writes a part of them.           *)
EXTENDS DataLogger

CONSTANTS rf, rid

MCTasks == {rf, rid}
MCRadioTasks == {rf}
MCEntrySizes == {2}
MCBootTimes == {1}
MCFaults == {"open", "remove", "print", "directory"}
=============================================================================
