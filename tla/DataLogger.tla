----------------------------- MODULE DataLogger -----------------------------
(***************************************************************************)
(* The microSD log (data_logger.cpp) and the SPI bus it shares with the    *)
(* radios (spi_manager.cpp).  Tasks take the bus mutex with a timeout; the *)
(* HTTP handlers for /api/logs use the card without it.  Power can be cut  *)
(* at any step: the files stay, everything else starts again.              *)
(*                                                                         *)
(* A file is named by millis() when its name was made, and stamped with    *)
(* the time of its last write.  Nothing in the firmware sets the clock, so *)
(* both restart with every boot.  An entry takes at least 1 ms to write.   *)
(***************************************************************************)
EXTENDS Integers, FiniteSets

CONSTANTS
  Tasks,        \* tasks that log: taskRFScanning, and taskRemoteID
  RadioTasks,   \* those that also sample a radio on the bus
  NoTask,
  MaxFiles,     \* MAX_LOG_FILES
  RotateSize,   \* logRotationSize
  EntrySizes,   \* bytes of an entry
  CountMod,     \* 2^8: getLogFileCount() returns a uint8_t
  BootTimes,    \* uptime when begin() runs
  CardFaults,   \* faults of the card: "open" of a log, "remove" of one, "print"
                \* of an entry, "directory": LOG_DIR does not open
  MaxUptime,    \* bound on uptime
  MaxBoots      \* bound on boots

ASSUME LoggerAssumption ==
  /\ RadioTasks \subseteq Tasks /\ NoTask \notin Tasks
  /\ MaxFiles \in Nat /\ RotateSize \in Nat \ {0} /\ CountMod \in Nat \ {0}
  /\ MaxUptime \in Nat /\ MaxBoots \in Nat
  /\ EntrySizes \subseteq Nat \ {0}
  /\ BootTimes \subseteq 0..MaxUptime
  /\ CardFaults \subseteq {"open", "remove", "print", "directory"}

Names == 0..MaxUptime
NoName == -1                \* the empty String before begin()

VARIABLES
  up, boots, uptime,
  holder,            \* SPIManager::mutex
  pc,                \* where each task is
  web,               \* a handler of /api/logs is using the card
  \* the card
  logs, size, lastWrite,
  \* fields of DataLogger
  sdCardAvailable, currentLogFile, currentFileSize,
  \* for the properties
  latest,            \* the file with the latest entry
  lapses             \* rotations that a fault kept from deleting

card == <<logs, size, lastWrite, latest, lapses>>
logger == <<sdCardAvailable, currentLogFile, currentFileSize>>
power == <<up, boots, uptime>>
vars == <<power, holder, pc, web, card, logger>>

Init ==
  /\ up = FALSE /\ boots = 0 /\ uptime = 0
  /\ holder = NoTask /\ pc = [t \in Tasks |-> "idle"] /\ web = FALSE
  /\ logs = {} /\ size = [f \in Names |-> 0]
  /\ lastWrite = [f \in Names |-> 0] /\ latest = 0 /\ lapses = 0
  /\ sdCardAvailable = FALSE
  /\ currentLogFile = NoName /\ currentFileSize = 0

Goto(t, label) == pc' = [pc EXCEPT ![t] = label]

-----------------------------------------------------------------------------
(* Power, and begin() as setup() calls it before the tasks exist.          *)

begin ==
  /\ ~up /\ boots < MaxBoots
  /\ up' = TRUE /\ boots' = boots + 1
  /\ uptime' \in BootTimes
  /\ \/ sdCardAvailable' = TRUE /\ currentLogFile' = uptime'
     \/ UNCHANGED <<sdCardAvailable, currentLogFile>>
  /\ UNCHANGED <<holder, pc, web, card, currentFileSize>>

PowerOff ==
  /\ up /\ up' = FALSE
  /\ uptime' = 0 /\ holder' = NoTask /\ pc' = [t \in Tasks |-> "idle"]
  /\ web' = FALSE
  /\ sdCardAvailable' = FALSE
  /\ currentLogFile' = NoName /\ currentFileSize' = 0
  /\ UNCHANGED <<boots, card>>

Tick ==
  /\ up /\ uptime < MaxUptime
  /\ uptime' = uptime + 1
  /\ UNCHANGED <<up, boots, holder, pc, web, card, logger>>

-----------------------------------------------------------------------------
(* The bus mutex.                                                          *)

logDetection(t) ==
  /\ up /\ pc[t] = "idle" /\ sdCardAvailable
  /\ Goto(t, "log")
  /\ UNCHANGED <<power, holder, web, card, logger>>

readReceiverRssi(t) ==
  /\ up /\ t \in RadioTasks /\ pc[t] = "idle"
  /\ Goto(t, "radio")
  /\ UNCHANGED <<power, holder, web, card, logger>>

acquire(t) ==
  /\ pc[t] \in {"log", "radio"} /\ holder = NoTask
  /\ holder' = t
  /\ Goto(t, IF pc[t] = "log" THEN "rotate" ELSE "sample")
  /\ UNCHANGED <<power, web, card, logger>>

\* (variant) ~SPIBusLock() releases whether or not it has the lock
timeout_Releases(t) ==
  /\ pc[t] \in {"log", "radio"} /\ holder # NoTask
  /\ holder' = NoTask
  /\ Goto(t, "idle")
  /\ UNCHANGED <<power, web, card, logger>>

\* The entry is dropped, or the sample reads as 0.
timeout(t) ==
  /\ pc[t] \in {"log", "radio"} /\ holder # NoTask
  /\ Goto(t, "idle")
  /\ UNCHANGED <<power, holder, web, card, logger>>

sample(t) ==
  /\ pc[t] = "sample"
  /\ Goto(t, "idle") /\ holder' = NoTask
  /\ UNCHANGED <<power, web, card, logger>>

-----------------------------------------------------------------------------
(* A log entry, under the lock.                                            *)

\* The count, in a uint8_t; 0 when LOG_DIR does not open.
Counted == Cardinality(logs) % CountMod
getLogFileCount == {Counted} \cup {n \in {0} : "directory" \in CardFaults}

Lapse(too_many) == lapses' = IF too_many THEN lapses + 1 ELSE lapses

\* (variant) one file too many is allowed
rotateLogsIfNeeded_OffByOne(t) ==
  /\ pc[t] = "rotate"
  /\ IF currentFileSize >= RotateSize
     THEN /\ currentLogFile' = uptime /\ currentFileSize' = 0
          /\ \E count \in getLogFileCount :
               /\ Goto(t, IF count > MaxFiles + 1 THEN "delete" ELSE "append")
               /\ Lapse(Counted > MaxFiles + 1 /\ count <= MaxFiles + 1)
     ELSE /\ Goto(t, "append")
          /\ UNCHANGED <<currentLogFile, currentFileSize, lapses>>
  /\ UNCHANGED <<power, holder, web, logs, size, lastWrite, latest,
                 sdCardAvailable>>

\* The files are counted before the new one exists.
rotateLogsIfNeeded(t) ==
  /\ pc[t] = "rotate"
  /\ IF currentFileSize >= RotateSize
     THEN /\ currentLogFile' = uptime /\ currentFileSize' = 0
          /\ \E count \in getLogFileCount :
               /\ Goto(t, IF count > MaxFiles THEN "delete" ELSE "append")
               /\ Lapse(Counted > MaxFiles /\ count <= MaxFiles)
     ELSE /\ Goto(t, "append")
          /\ UNCHANGED <<currentLogFile, currentFileSize, lapses>>
  /\ UNCHANGED <<power, holder, web, logs, size, lastWrite, latest,
                 sdCardAvailable>>

\* (variant) the comparison of the stamps is turned round
Oldest_Newest == {f \in logs : \A g \in logs : lastWrite[f] >= lastWrite[g]}

\* Of files with equal stamps the first in the directory is taken.
Oldest == {f \in logs : \A g \in logs : lastWrite[f] <= lastWrite[g]}

\* Nothing is deleted if the directory does not open or the card refuses.
deleteOldestLog(t) ==
  /\ pc[t] = "delete"
  /\ Goto(t, "append")
  /\ \/ \E f \in Oldest :
          /\ logs' = logs \ {f}
          /\ size' = [size EXCEPT ![f] = 0]
          /\ lastWrite' = [lastWrite EXCEPT ![f] = 0]
          /\ UNCHANGED lapses
     \/ /\ CardFaults \cap {"remove", "directory"} # {}
        /\ Lapse(TRUE) /\ UNCHANGED <<logs, size, lastWrite>>
  /\ UNCHANGED <<power, holder, web, latest, logger>>

\* (variants) what was written is not counted; the lock is kept when the
\* file does not open
write_NotCounted(t, n) ==
  /\ pc[t] = "append" /\ uptime < MaxUptime
  /\ uptime' = uptime + 1
  /\ logs' = logs \cup {currentLogFile}
  /\ size' = [size EXCEPT ![currentLogFile] = @ + n]
  /\ lastWrite' = [lastWrite EXCEPT ![currentLogFile] = uptime']
  /\ latest' = currentLogFile
  /\ Goto(t, "idle") /\ holder' = NoTask
  /\ UNCHANGED <<up, boots, web, logger, lapses>>

openFails_KeepsLock(t) ==
  /\ pc[t] = "append" /\ "open" \in CardFaults
  /\ Goto(t, "idle")
  /\ UNCHANGED <<power, holder, web, card, logger>>

\* What print() returns for an entry of n bytes.
print(n) == IF "print" \in CardFaults THEN 0..n ELSE {n}

\* Open for append, which creates the file, print, close; the lock goes when
\* the call returns.
write(t, n) ==
  /\ pc[t] = "append" /\ uptime < MaxUptime
  /\ uptime' = uptime + 1
  /\ logs' = logs \cup {currentLogFile}
  /\ \E written \in print(n) :
       /\ size' = [size EXCEPT ![currentLogFile] = @ + written]
       /\ latest' = IF written > 0 THEN currentLogFile ELSE latest
       /\ currentFileSize' = currentFileSize + written
  /\ lastWrite' = [lastWrite EXCEPT ![currentLogFile] = uptime']
  /\ Goto(t, "idle") /\ holder' = NoTask
  /\ UNCHANGED <<up, boots, web, sdCardAvailable, currentLogFile, lapses>>

openFails(t) ==
  /\ pc[t] = "append" /\ "open" \in CardFaults
  /\ Goto(t, "idle") /\ holder' = NoTask
  /\ UNCHANGED <<power, web, card, logger>>

-----------------------------------------------------------------------------
(* GET /api/logs and /api/logs/download, on the async_tcp task.            *)

listLogs ==
  /\ up /\ ~web /\ web' = TRUE
  /\ UNCHANGED <<power, holder, pc, card, logger>>

sendLogs ==
  /\ web /\ web' = FALSE
  /\ UNCHANGED <<power, holder, pc, card, logger>>

-----------------------------------------------------------------------------

underLock(t) ==
  \/ sample(t) \/ rotateLogsIfNeeded(t) \/ deleteOldestLog(t) \/ openFails(t)
  \/ \E n \in EntrySizes : write(t, n)

task(t) ==
  \/ logDetection(t) \/ readReceiverRssi(t) \/ acquire(t) \/ timeout(t)
  \/ underLock(t)

Next ==
  \/ begin \/ PowerOff \/ Tick
  \/ listLogs \/ sendLogs
  \/ \E t \in Tasks : task(t)

Spec == Init /\ [][Next]_vars

\* A task that has the bus keeps running.
FairSpec == Spec /\ \A t \in Tasks : WF_vars(underLock(t))

-----------------------------------------------------------------------------
(* Properties.                                                             *)

Holding == {"rotate", "delete", "append", "sample"}

\* The fields of the logger, the card and the tasks; a logger that accepts
\* entries has a file to write them to.
TypeOK ==
  /\ up \in BOOLEAN /\ boots \in 0..MaxBoots /\ uptime \in Names
  /\ holder \in Tasks \cup {NoTask}
  /\ pc \in [Tasks -> {"idle", "log", "radio"} \cup Holding]
  /\ web \in BOOLEAN
  /\ logs \subseteq Names /\ latest \in Names
  /\ size \in [Names -> Nat] /\ lastWrite \in [Names -> Names] /\ lapses \in Nat
  /\ sdCardAvailable \in BOOLEAN
  /\ currentLogFile \in Names \cup {NoName} /\ currentFileSize \in Nat
  /\ sdCardAvailable => currentLogFile \in Names

\* A task is between acquire() and release() exactly while it is the one
\* with the mutex: two tasks never share the bus, and no call, timed out or
\* failed, leaves the mutex taken (data_logger.cpp:6-20, main.cpp:65-76).
LockedExclusive == \A t \in Tasks : pc[t] \in Holding <=> holder = t

\* Rotation keeps the card from filling up: there is at most one file more
\* than MAX_LOG_FILES in the first session, each later one adds at most one
\* (rotateLogsIfNeeded counts before the new file exists, and only when a
\* file is full), and so does each rotation whose count or deletion failed:
\* no other step lets a file stay, as long as the uint8_t holds the count.
FilesAllowed == MaxFiles + boots + lapses
FileCountBounded ==
  FilesAllowed < CountMod => Cardinality(logs) <= FilesAllowed

\* A file is closed at the rotation size, give or take an entry, once for
\* every session that used its name.
FileSizeBounded ==
  \A f \in logs : \E n \in EntrySizes : size[f] < boots * (RotateSize + n)

\* In a session that started with an empty card, rotation never deletes the
\* file with the latest entry.
LatestLogKept ==
  [][boots = 1 /\ up' /\ latest \in logs => latest \in logs']_vars

\* The card as its users see it: only the task that has the bus adds or
\* deletes a log, one is deleted only if there are too many, and never the
\* latest one of the first session (data_logger.cpp:77-114, 136-151).
Card == INSTANCE LogCard WITH owner <- holder, first <- boots <= 1

CardSpec == Card!Spec

\* The bus is given back on every path, those of a failing card included.
LockReleased == \A t \in Tasks : holder = t ~> holder # t

-----------------------------------------------------------------------------
(* What the documentation says and the code does not do.                   *)

\* CONTRIBUTING.md:34: every SPI user must coordinate through spiManager.
BusExclusive == ~(web /\ holder # NoTask)
=============================================================================
