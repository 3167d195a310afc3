-------------------------- MODULE DataLoggerProofs --------------------------
(***************************************************************************)
(* Theorems about DataLogger, for any number of tasks, files, sessions and *)
(* entry sizes.                                                            *)
(***************************************************************************)
EXTENDS DataLogger, FiniteSetTheorems, TLAPS

\* TypeOK by the parts of the state the actions change together.
BoardOK ==
  /\ up \in BOOLEAN /\ web \in BOOLEAN
  /\ boots \in 0..MaxBoots /\ uptime \in Names
TasksOK ==
  /\ holder \in Tasks \cup {NoTask}
  /\ pc \in [Tasks -> {"idle", "log", "radio"} \cup Holding]
CardOK ==
  /\ logs \subseteq Names /\ latest \in Names
  /\ size \in [Names -> Nat] /\ lastWrite \in [Names -> Names] /\ lapses \in Nat
LoggerOK ==
  /\ sdCardAvailable \in BOOLEAN
  /\ currentLogFile \in Names \cup {NoName} /\ currentFileSize \in Nat
  /\ sdCardAvailable => currentLogFile \in Names

LEMMA TypeParts == TypeOK <=> BoardOK /\ TasksOK /\ CardOK /\ LoggerOK
BY DEF TypeOK, BoardOK, TasksOK, CardOK, LoggerOK

\* Only a running device has tasks in a call, and only a logger with an open
\* card has one in a log call.
Calls ==
  /\ up => boots > 0
  /\ \A t \in Tasks : pc[t] # "idle" => up
  /\ \A t \in Tasks :
       pc[t] \in {"log", "rotate", "delete", "append"} => sdCardAvailable

Inv == BoardOK /\ TasksOK /\ CardOK /\ LoggerOK /\ LockedExclusive /\ Calls

LEMMA ZeroIsName == 0 \in Names
BY LoggerAssumption DEF Names

LEMMA InitInv == Init => Inv
<1> SUFFICES ASSUME Init PROVE Inv
  OBVIOUS
<1> USE ZeroIsName DEF Init
<1>1. BoardOK
  <2>1. up \in BOOLEAN /\ web \in BOOLEAN
    OBVIOUS
  <2>2. boots \in 0..MaxBoots /\ uptime \in Names
    BY LoggerAssumption
  <2> QED BY <2>1, <2>2 DEF BoardOK
<1>2. TasksOK
  BY DEF TasksOK
<1>3. CardOK
  BY DEF CardOK
<1>4. LoggerOK
  BY DEF LoggerOK
<1>5. LockedExclusive /\ Calls
  BY LoggerAssumption DEF LockedExclusive, Calls, Holding
<1> QED BY <1>1, <1>2, <1>3, <1>4, <1>5 DEF Inv

\* A step that leaves a part alone preserves it.
LEMMA Frames ==
  /\ BoardOK /\ UNCHANGED <<power, web>> => BoardOK'
  /\ TasksOK /\ UNCHANGED <<holder, pc>> => TasksOK'
  /\ CardOK /\ UNCHANGED card => CardOK'
  /\ LoggerOK /\ UNCHANGED logger => LoggerOK'
BY DEF BoardOK, TasksOK, CardOK, LoggerOK, power, card, logger

\* Steps of the board and of the web handlers.
LEMMA BoardInv ==
  Inv /\ (begin \/ PowerOff \/ Tick \/ listLogs \/ sendLogs) => Inv'
<1> SUFFICES ASSUME Inv, begin \/ PowerOff \/ Tick \/ listLogs \/ sendLogs
             PROVE  Inv'
  OBVIOUS
<1> USE Frames DEF Inv
<1>1. CASE begin
  <2>1. BoardOK' /\ boots' > 0
    BY <1>1, LoggerAssumption DEF begin, BoardOK, Names
  <2>2. TasksOK' /\ CardOK'
    BY <1>1 DEF begin
  <2>3. LoggerOK'
    <3>1. CASE sdCardAvailable' = TRUE /\ currentLogFile' = uptime'
      BY <1>1, <2>1, <3>1 DEF begin, LoggerOK, BoardOK
    <3>2. CASE UNCHANGED <<sdCardAvailable, currentLogFile>>
      BY <1>1, <3>2 DEF begin, LoggerOK
    <3> QED BY <1>1, <3>1, <3>2 DEF begin
  <2>4. LockedExclusive' /\ Calls'
    <3>1. up' /\ UNCHANGED <<pc, holder>> /\ \A t \in Tasks : pc[t] = "idle"
      BY <1>1 DEF begin, Calls
    <3> QED BY <2>1, <3>1 DEF LockedExclusive, Calls, Holding
  <2> QED BY <2>1, <2>2, <2>3, <2>4
<1>2. CASE PowerOff
  <2>1. BoardOK'
    BY <1>2, ZeroIsName DEF PowerOff, BoardOK
  <2>2. TasksOK' /\ \A t \in Tasks : pc'[t] = "idle"
    BY <1>2 DEF PowerOff, TasksOK
  <2>3. CardOK'
    BY <1>2 DEF PowerOff
  <2>4. LoggerOK'
    BY <1>2 DEF PowerOff, LoggerOK
  <2>5. LockedExclusive' /\ Calls'
    BY <1>2, <2>2, LoggerAssumption
    DEF PowerOff, LockedExclusive, Calls, Holding
  <2> QED BY <2>1, <2>2, <2>3, <2>4, <2>5
<1>3. CASE Tick
  <2>1. BoardOK'
    BY <1>3, LoggerAssumption DEF Tick, BoardOK, Names
  <2> QED BY <1>3, <2>1 DEF Tick, LockedExclusive, Calls, logger
<1>4. CASE listLogs \/ sendLogs
  <2>1. BoardOK'
    BY <1>4 DEF listLogs, sendLogs, BoardOK, power
  <2> QED
    BY <1>4, <2>1
    DEF listLogs, sendLogs, LockedExclusive, Calls, power, logger
<1> QED BY <1>1, <1>2, <1>3, <1>4

\* Where a step may take a task: the lock and Calls stay in order.
LEMMA TaskMoves ==
  ASSUME Inv, NEW t \in Tasks, NEW label,
         label \in {"idle", "log", "radio"} \cup Holding,
         Goto(t, label),
         pc[t] # "idle" \/ up,
         UNCHANGED <<up, boots, sdCardAvailable>>,
         label \in {"log", "rotate", "delete", "append"} => sdCardAvailable,
         \/ label \notin Holding /\ pc[t] \notin Holding /\ UNCHANGED holder
         \/ label \in Holding /\ holder' = t /\ holder \in {t, NoTask}
         \/ label \notin Holding /\ holder = t /\ holder' = NoTask
  PROVE  TasksOK' /\ LockedExclusive' /\ Calls'
<1> USE LoggerAssumption DEF Inv, TasksOK, LockedExclusive, Calls, Goto
<1>1. pc' = [pc EXCEPT ![t] = label] /\ pc'[t] = label
      /\ \A u \in Tasks \ {t} : pc'[u] = pc[u]
  OBVIOUS
<1>2. TasksOK'
  BY <1>1
<1>3. LockedExclusive'
  <2> SUFFICES ASSUME NEW u \in Tasks
               PROVE  pc'[u] \in Holding <=> holder' = u
    OBVIOUS
  <2>0. /\ pc[t] \in Holding <=> holder = t
        /\ pc[u] \in Holding <=> holder = u
    OBVIOUS
  <2>1. CASE u = t
    BY <1>1, <2>0, <2>1
  <2>2. CASE u # t
    BY <1>1, <2>0, <2>2
  <2> QED BY <2>1, <2>2
<1>4. Calls'
  <2>1. up
    OBVIOUS
  <2> QED BY <1>1, <2>1
<1> QED BY <1>2, <1>3, <1>4

\* What k printed bytes of an entry change.
Printed(k) ==
  /\ size' = [size EXCEPT ![currentLogFile] = @ + k]
  /\ latest' = IF k > 0 THEN currentLogFile ELSE latest
  /\ currentFileSize' = currentFileSize + k

LEMMA WritePrints ==
  ASSUME NEW t \in Tasks, NEW n \in EntrySizes, write(t, n)
  PROVE  \E k \in print(n) : Printed(k)
BY DEF write, Printed

LEMMA PrintAtMost ==
  ASSUME NEW n \in EntrySizes, NEW k \in print(n)
  PROVE  n \in Nat /\ k \in Nat /\ k <= n
BY LoggerAssumption DEF print

\* Steps of a task.
LEMMA TaskInv == ASSUME Inv, NEW t \in Tasks, task(t) PROVE Inv'
<1> USE Frames DEF Inv
<1>0. /\ pc[t] \in Holding <=> holder = t
      /\ pc[t] \in {"log", "rotate", "delete", "append"} => sdCardAvailable
      /\ holder \in Tasks \cup {NoTask}
  BY DEF LockedExclusive, Calls, TasksOK
<1>1. CASE logDetection(t)
  <2>1. TasksOK' /\ LockedExclusive' /\ Calls'
    BY <1>1, TaskMoves DEF logDetection, Holding, power, logger
  <2> QED BY <1>1, <2>1 DEF logDetection
<1>2. CASE readReceiverRssi(t)
  <2>1. TasksOK' /\ LockedExclusive' /\ Calls'
    BY <1>2, TaskMoves DEF readReceiverRssi, Holding, power, logger
  <2> QED BY <1>2, <2>1 DEF readReceiverRssi
<1>3. CASE acquire(t)
  <2>1. TasksOK' /\ LockedExclusive' /\ Calls'
    BY <1>0, <1>3, TaskMoves DEF acquire, Holding, power, logger
  <2> QED BY <1>3, <2>1 DEF acquire
<1>4. CASE timeout(t)
  <2>1. TasksOK' /\ LockedExclusive' /\ Calls'
    BY <1>4, TaskMoves DEF timeout, Holding, power, logger
  <2> QED BY <1>4, <2>1 DEF timeout
<1>5. CASE sample(t)
  <2>1. TasksOK' /\ LockedExclusive' /\ Calls'
    BY <1>0, <1>5, TaskMoves DEF sample, Holding, power, logger
  <2> QED BY <1>5, <2>1 DEF sample
<1>6. CASE rotateLogsIfNeeded(t)
  <2>1. PICK label \in {"delete", "append"} : Goto(t, label)
    BY <1>6 DEF rotateLogsIfNeeded
  <2>2. TasksOK' /\ LockedExclusive' /\ Calls'
    BY <1>0, <1>6, <2>1, TaskMoves DEF rotateLogsIfNeeded, Holding, power
  <2>3. LoggerOK'
    BY <1>6 DEF rotateLogsIfNeeded, LoggerOK, BoardOK
  <2>4. CardOK'
    BY <1>6 DEF rotateLogsIfNeeded, Lapse, CardOK
  <2> QED BY <1>6, <2>2, <2>3, <2>4 DEF rotateLogsIfNeeded
<1>7. CASE deleteOldestLog(t)
  <2>1. TasksOK' /\ LockedExclusive' /\ Calls'
    BY <1>0, <1>7, TaskMoves DEF deleteOldestLog, Holding, power, logger
  <2>2. CardOK'
    <3>1. CASE Lapse(TRUE) /\ UNCHANGED <<logs, size, lastWrite>>
      BY <1>7, <3>1 DEF deleteOldestLog, Lapse, CardOK
    <3>2. ASSUME NEW f \in Oldest,
                 logs' = logs \ {f},
                 size' = [size EXCEPT ![f] = 0],
                 lastWrite' = [lastWrite EXCEPT ![f] = 0],
                 UNCHANGED lapses
          PROVE  CardOK'
      BY <1>7, <3>2, ZeroIsName DEF deleteOldestLog, CardOK
    <3> QED BY <1>7, <3>1, <3>2 DEF deleteOldestLog
  <2> QED BY <1>7, <2>1, <2>2 DEF deleteOldestLog
<1>8. CASE openFails(t)
  <2>1. TasksOK' /\ LockedExclusive' /\ Calls'
    BY <1>0, <1>8, TaskMoves DEF openFails, Holding, power, logger
  <2> QED BY <1>8, <2>1 DEF openFails
<1>9. ASSUME NEW n \in EntrySizes, write(t, n) PROVE Inv'
  <2>1. TasksOK' /\ LockedExclusive' /\ Calls'
    BY <1>0, <1>9, TaskMoves DEF write, Holding
  <2>2. BoardOK'
    BY <1>9, LoggerAssumption DEF write, BoardOK, Names
  <2>3. PICK k \in print(n) : Printed(k)
    BY <1>9, WritePrints
  <2>4. currentLogFile \in Names /\ k \in Nat
    BY <1>0, <1>9, <2>3, PrintAtMost DEF write, LoggerOK
  <2>5. CardOK'
    BY <1>9, <2>2, <2>3, <2>4 DEF write, Printed, CardOK, BoardOK
  <2>6. LoggerOK'
    BY <1>9, <2>3, <2>4 DEF write, Printed, LoggerOK
  <2> QED BY <2>1, <2>2, <2>5, <2>6
<1> QED
  BY <1>1, <1>2, <1>3, <1>4, <1>5, <1>6, <1>7, <1>8, <1>9
  DEF task, underLock

LEMMA StepInv == Inv /\ [Next]_vars => Inv'
<1>1. Inv /\ UNCHANGED vars => Inv'
  BY Frames DEF Inv, LockedExclusive, Calls, vars, power, logger
<1> QED BY <1>1, BoardInv, TaskInv DEF Next

THEOREM Invariance == Spec => []Inv
BY InitInv, StepInv, PTL DEF Spec

\* Every field keeps its type, and a logger that accepts entries has a file.
THEOREM TypeCorrect == Spec => []TypeOK
<1>1. Inv => TypeOK
  BY TypeParts DEF Inv
<1> QED BY <1>1, Invariance, PTL

\* Whatever calls time out or fail, no task uses the bus without the mutex
\* and none keeps the mutex when its call is over.
THEOREM Exclusive == Spec => []LockedExclusive
<1>1. Inv => LockedExclusive
  BY DEF Inv
<1> QED BY <1>1, Invariance, PTL

-----------------------------------------------------------------------------
(* The number of files.                                                    *)

LEMMA CardFinite ==
  ASSUME CardOK PROVE IsFiniteSet(logs) /\ Cardinality(logs) \in Nat
<1>1. IsFiniteSet(Names)
  BY LoggerAssumption, FS_Interval DEF Names
<1>2. IsFiniteSet(logs)
  BY <1>1, FS_Subset DEF CardOK
<1> QED BY <1>2, FS_CardinalityType

LEMMA OneMore ==
  ASSUME NEW S, NEW f, IsFiniteSet(S)
  PROVE  /\ Cardinality(S) \in Nat /\ Cardinality(S \cup {f}) \in Nat
         /\ Cardinality(S \cup {f}) <= Cardinality(S) + 1
<1>1. IsFiniteSet(S \cup {f})
  BY FS_AddElement
<1>2. Cardinality(S) \in Nat /\ Cardinality(S \cup {f}) \in Nat
  BY <1>1, FS_CardinalityType
<1>3. Cardinality(S \cup {f}) =
        IF f \in S THEN Cardinality(S) ELSE Cardinality(S) + 1
  BY FS_AddElement
<1> QED BY <1>2, <1>3

\* The next entry may still create the current file: it is counted too,
\* except between the count of a rotation and its deletion.
CountInv ==
  FilesAllowed < CountMod =>
    /\ Cardinality(logs) <= FilesAllowed
    /\ sdCardAvailable /\ (\A t \in Tasks : pc[t] # "delete")
         => Cardinality(logs \cup {currentLogFile}) <= FilesAllowed

LEMMA SumGrows ==
  ASSUME NEW a \in Nat, NEW b \in Nat, NEW c \in Nat, NEW d \in Nat, NEW e,
         d >= b, e = c \/ e = c + 1
  PROVE  /\ a + b + c \in Nat /\ a + d + e \in Nat
         /\ a + b + c <= a + d + e
OBVIOUS

\* The bound only rises.
LEMMA AllowedGrows ==
  ASSUME Inv, boots' \in Nat, boots' >= boots,
         lapses' = lapses \/ lapses' = lapses + 1
  PROVE  /\ FilesAllowed \in Nat /\ FilesAllowed' \in Nat
         /\ FilesAllowed' = MaxFiles + boots' + lapses'
         /\ FilesAllowed <= FilesAllowed' /\ boots \in Nat /\ lapses \in Nat
<1>1. boots \in Nat /\ lapses \in Nat /\ MaxFiles \in Nat
  BY LoggerAssumption DEF Inv, BoardOK, CardOK
<1>2. /\ MaxFiles + boots + lapses \in Nat
      /\ MaxFiles + boots' + lapses' \in Nat
      /\ MaxFiles + boots + lapses <= MaxFiles + boots' + lapses'
  BY <1>1, SumGrows
<1> QED BY <1>1, <1>2 DEF FilesAllowed

LEMMA BoardCount ==
  Inv /\ CountInv /\ (begin \/ PowerOff \/ Tick \/ listLogs \/ sendLogs)
    => CountInv'
<1> SUFFICES ASSUME Inv, CountInv,
                    begin \/ PowerOff \/ Tick \/ listLogs \/ sendLogs
             PROVE  CountInv'
  OBVIOUS
<1> USE DEF CountInv
<1>1. CASE begin
  <2>1. IsFiniteSet(logs) /\ Cardinality(logs) \in Nat
    BY CardFinite DEF Inv
  <2>2. /\ Cardinality(logs \cup {currentLogFile'}) <= Cardinality(logs) + 1
        /\ Cardinality(logs \cup {currentLogFile'}) \in Nat
    BY <2>1, OneMore
  <2>3. /\ boots \in Nat /\ boots' = boots + 1
        /\ UNCHANGED <<logs, lapses, pc>>
    BY <1>1, LoggerAssumption DEF begin, Inv, BoardOK, card
  <2>4. /\ FilesAllowed' = FilesAllowed + 1 /\ FilesAllowed \in Nat
        /\ CountMod \in Nat
    <3>1. lapses \in Nat /\ MaxFiles \in Nat /\ CountMod \in Nat
      BY LoggerAssumption DEF Inv, CardOK
    <3> QED BY <2>3, <3>1 DEF FilesAllowed
  <2> QED BY <2>1, <2>2, <2>3, <2>4
<1>2. CASE PowerOff
  BY <1>2 DEF PowerOff, card, FilesAllowed
<1>3. CASE Tick \/ listLogs \/ sendLogs
  BY <1>3 DEF Tick, listLogs, sendLogs, card, logger, power, FilesAllowed
<1> QED BY <1>1, <1>2, <1>3

\* A rotation deletes or lapses, unless a new file is within the bound.
LEMMA RotateCount ==
  ASSUME Inv, CountInv, NEW t \in Tasks, rotateLogsIfNeeded(t)
  PROVE  CountInv'
<1> USE DEF CountInv
<1>0. /\ IsFiniteSet(logs) /\ Cardinality(logs) \in Nat
      /\ pc \in [Tasks -> {"idle", "log", "radio"} \cup Holding]
      /\ MaxFiles \in Nat /\ CountMod \in Nat \ {0}
  BY CardFinite, LoggerAssumption DEF Inv, TasksOK
<1>1. UNCHANGED <<boots, logs, sdCardAvailable>> /\ pc[t] = "rotate"
  BY DEF rotateLogsIfNeeded, power
<1>2. boots > 0 /\ boots \in Nat /\ lapses \in Nat
  BY <1>1, LoggerAssumption DEF Inv, Calls, BoardOK, CardOK
<1>3. /\ Cardinality(logs \cup {currentLogFile'}) <= Cardinality(logs) + 1
      /\ Cardinality(logs \cup {currentLogFile'}) \in Nat
  BY <1>0, OneMore
<1>4. CASE ~(currentFileSize >= RotateSize)
  <2>1. Goto(t, "append") /\ UNCHANGED <<currentLogFile, lapses>>
    BY <1>4 DEF rotateLogsIfNeeded
  <2> QED BY <1>0, <1>1, <2>1 DEF Goto, FilesAllowed
<1>5. ASSUME currentFileSize >= RotateSize, NEW count \in getLogFileCount,
             Goto(t, IF count > MaxFiles THEN "delete" ELSE "append"),
             Lapse(Counted > MaxFiles /\ count <= MaxFiles)
      PROVE  CountInv'
  <2>1. count \in {Counted, 0} /\ Counted \in Nat
    BY <1>0 DEF getLogFileCount, Counted
  <2>2. /\ FilesAllowed \in Nat /\ FilesAllowed' \in Nat
        /\ FilesAllowed <= FilesAllowed'
        /\ FilesAllowed' = MaxFiles + boots + lapses'
    BY <1>1, <1>2, <1>5, AllowedGrows DEF Lapse
  <2>3. CASE count > MaxFiles
    <3>1. pc'[t] = "delete"
      BY <1>0, <1>5, <2>3 DEF Goto
    <3> QED BY <1>0, <1>1, <2>2, <3>1
  <2>4. CASE count <= MaxFiles /\ Counted > MaxFiles
    <3>1. lapses' = lapses + 1
      BY <1>5, <2>4 DEF Lapse
    <3>2. FilesAllowed' = FilesAllowed + 1
      BY <1>0, <1>1, <1>2, <3>1 DEF FilesAllowed
    <3> QED BY <1>0, <1>1, <1>3, <2>2, <3>2
  <2>5. CASE count <= MaxFiles /\ Counted <= MaxFiles
    <3>1. lapses' = lapses
      BY <1>0, <2>1, <1>5, <2>5 DEF Lapse
    <3>2. FilesAllowed' = FilesAllowed /\ MaxFiles + 1 <= FilesAllowed
      BY <1>0, <1>1, <1>2, <3>1 DEF FilesAllowed
    <3>3. FilesAllowed < CountMod => Cardinality(logs) = Counted
      BY <1>0, <2>2 DEF Counted
    <3> QED BY <1>0, <1>1, <1>3, <2>1, <2>2, <2>5, <3>2, <3>3
  <2> QED BY <1>0, <2>1, <2>3, <2>4, <2>5
<1> QED BY <1>4, <1>5 DEF rotateLogsIfNeeded

LEMMA DeleteCount ==
  ASSUME Inv, CountInv, NEW t \in Tasks, deleteOldestLog(t)
  PROVE  CountInv'
<1> USE DEF CountInv
<1>0. /\ IsFiniteSet(logs) /\ Cardinality(logs) \in Nat
      /\ boots \in Nat /\ lapses \in Nat
      /\ MaxFiles \in Nat /\ CountMod \in Nat
  BY CardFinite, LoggerAssumption DEF Inv, BoardOK, CardOK
<1>1. UNCHANGED <<boots, logger>>
  BY DEF deleteOldestLog, power
<1>2. CASE Lapse(TRUE) /\ UNCHANGED logs
  <2>1. FilesAllowed' = FilesAllowed + 1 /\ FilesAllowed \in Nat
    BY <1>0, <1>1, <1>2 DEF Lapse, FilesAllowed
  <2>2. /\ Cardinality(logs \cup {currentLogFile}) <= Cardinality(logs) + 1
        /\ Cardinality(logs \cup {currentLogFile}) \in Nat
    BY <1>0, OneMore
  <2> QED BY <1>0, <1>1, <1>2, <2>1, <2>2 DEF logger
<1>3. ASSUME NEW f \in logs, logs' = logs \ {f}, UNCHANGED lapses
      PROVE  CountInv'
  <2>1. /\ Cardinality(logs') = Cardinality(logs) - 1
        /\ IsFiniteSet(logs')
    BY <1>0, <1>3, FS_RemoveElement
  <2>2. /\ Cardinality(logs' \cup {currentLogFile}) <= Cardinality(logs') + 1
        /\ Cardinality(logs' \cup {currentLogFile}) \in Nat
        /\ Cardinality(logs') \in Nat
    BY ONLY <2>1, OneMore
  <2>3. FilesAllowed' = FilesAllowed /\ FilesAllowed \in Nat
    BY <1>0, <1>1, <1>3 DEF FilesAllowed
  <2> QED BY <1>0, <1>1, <2>1, <2>2, <2>3 DEF logger
<1> QED BY <1>2, <1>3 DEF deleteOldestLog, Oldest

LEMMA TaskCount ==
  ASSUME Inv, CountInv, NEW t \in Tasks, task(t)
  PROVE  CountInv'
<1> USE DEF CountInv
<1>0. pc \in [Tasks -> {"idle", "log", "radio"} \cup Holding]
  BY DEF Inv, TasksOK
<1>1. ASSUME UNCHANGED <<card, logger, boots>>, pc[t] # "delete",
             NEW label, label # "delete", Goto(t, label)
      PROVE  CountInv'
  BY <1>0, <1>1 DEF Goto, card, logger, FilesAllowed
<1>2. CASE logDetection(t) \/ readReceiverRssi(t)
  BY <1>1, <1>2 DEF logDetection, readReceiverRssi, power
<1>3. CASE acquire(t)
  BY <1>1, <1>3 DEF acquire, power
<1>4. CASE timeout(t) \/ sample(t) \/ openFails(t)
  BY <1>1, <1>4 DEF timeout, sample, openFails, power
<1>5. CASE rotateLogsIfNeeded(t) \/ deleteOldestLog(t)
  BY <1>5, RotateCount, DeleteCount
<1>6. ASSUME NEW n \in EntrySizes, write(t, n) PROVE CountInv'
  <2>1. /\ logs' = logs \cup {currentLogFile} /\ pc[t] = "append"
        /\ UNCHANGED <<boots, sdCardAvailable, currentLogFile, lapses>>
        /\ Goto(t, "idle")
    BY <1>6 DEF write
  <2>2. \A u \in Tasks : pc[u] # "delete" /\ pc'[u] # "delete"
    BY <1>0, <2>1 DEF Inv, LockedExclusive, Holding, Goto
  <2>3. sdCardAvailable
    BY <2>1 DEF Inv, Calls
  <2>4. logs' \cup {currentLogFile'} = logs'
    BY <2>1
  <2> QED BY <2>1, <2>2, <2>3, <2>4 DEF FilesAllowed
<1> QED
  BY <1>2, <1>3, <1>4, <1>5, <1>6 DEF task, underLock

\* Whatever the card does, a file stays beyond MAX_LOG_FILES only by a boot
\* or a rotation that the card kept from deleting, as long as the uint8_t can
\* count the files.
THEOREM FilesBounded == Spec => []FileCountBounded
<1>1. Init => CountInv
  <2> SUFFICES ASSUME Init PROVE CountInv
    OBVIOUS
  <2>1. Cardinality(logs) = 0 /\ boots = 0 /\ lapses = 0 /\ ~sdCardAvailable
    BY FS_EmptySet DEF Init
  <2> QED BY <2>1, LoggerAssumption DEF CountInv, FilesAllowed
<1>2. Inv /\ CountInv /\ [Next]_vars => CountInv'
  <2>1. CountInv /\ UNCHANGED vars => CountInv'
    BY DEF CountInv, FilesAllowed, vars, power, card, logger
  <2> QED BY <2>1, BoardCount, TaskCount DEF Next
<1>3. CountInv => FileCountBounded
  BY DEF CountInv, FileCountBounded
<1> QED BY <1>1, <1>2, <1>3, Invariance, PTL DEF Spec

-----------------------------------------------------------------------------
(* The first session.                                                      *)

\* Stamps grow with the uptime; while the current file has entries, and
\* while a deletion is due because it is full, the latest entry has the
\* highest stamp; a deletion finds more than MAX_LOG_FILES files.
LatestNewest ==
  latest \in logs => \A f \in logs \ {latest} : lastWrite[f] < lastWrite[latest]
FirstSession ==
  /\ boots = 0 => logs = {}
  /\ boots = 1 /\ up =>
       /\ \A f \in logs : lastWrite[f] <= uptime
       /\ currentFileSize > 0 => latest = currentLogFile /\ LatestNewest
       /\ (\E t \in Tasks : pc[t] = "delete") => LatestNewest
  /\ boots = 0 \/ ~up => currentFileSize = 0
  /\ \A t \in Tasks : pc[t] = "delete" => Cardinality(logs) > MaxFiles

LEMMA CountAtMost ==
  ASSUME CardOK, NEW count \in getLogFileCount
  PROVE  count \in Nat /\ Cardinality(logs) \in Nat /\ count <= Cardinality(logs)
<1>1. Cardinality(logs) \in Nat
  BY CardFinite
<1> QED BY <1>1, LoggerAssumption DEF getLogFileCount, Counted

\* A directory with two files has one besides the latest.
LEMMA AnotherFile ==
  ASSUME NEW S, IsFiniteSet(S), Cardinality(S) > 1, NEW f
  PROVE  \E g \in S : g # f
<1> SUFFICES ASSUME \A g \in S : g = f PROVE FALSE
  OBVIOUS
<1>1. S = {} \/ S = {f}
  OBVIOUS
<1>2. Cardinality({}) = 0 /\ Cardinality({f}) = 1
  BY FS_EmptySet, FS_Singleton
<1> QED BY <1>1, <1>2

\* A rotation closes a file with entries.
LEMMA FirstRotate ==
  ASSUME Inv, FirstSession, NEW t \in Tasks, rotateLogsIfNeeded(t)
  PROVE  FirstSession'
<1> USE DEF FirstSession
<1>0. /\ pc \in [Tasks -> {"idle", "log", "radio"} \cup Holding]
      /\ currentFileSize \in Nat /\ RotateSize \in Nat \ {0} /\ MaxFiles \in Nat
  BY LoggerAssumption DEF Inv, TasksOK, LoggerOK
<1>1. UNCHANGED <<power, logs, lastWrite, latest>> /\ pc[t] = "rotate"
  BY DEF rotateLogsIfNeeded
<1>2. up /\ boots > 0
  BY <1>1 DEF Inv, Calls
<1>3. CASE ~(currentFileSize >= RotateSize)
  <2>1. Goto(t, "append") /\ UNCHANGED <<currentLogFile, currentFileSize>>
    BY <1>3 DEF rotateLogsIfNeeded
  <2>2. \A u \in Tasks : pc'[u] = "delete" => pc[u] = "delete"
    BY <1>0, <2>1 DEF Goto
  <2> QED BY <1>1, <1>2, <2>1, <2>2 DEF power, LatestNewest
<1>4. ASSUME currentFileSize >= RotateSize, NEW count \in getLogFileCount,
             Goto(t, IF count > MaxFiles THEN "delete" ELSE "append"),
             currentFileSize' = 0
      PROVE  FirstSession'
  <2>1. currentFileSize > 0
    BY <1>0, <1>4
  <2>2. boots = 1 => LatestNewest'
    BY <1>1, <1>2, <2>1 DEF LatestNewest
  <2>3. ASSUME NEW u \in Tasks, pc'[u] = "delete"
        PROVE  Cardinality(logs) > MaxFiles
    <3>1. CASE u = t
      <4>1. count > MaxFiles
        BY <1>0, <1>4, <2>3, <3>1 DEF Goto
      <4>2. count \in Nat /\ Cardinality(logs) \in Nat /\ count <= Cardinality(logs)
        BY CountAtMost DEF Inv
      <4> QED BY <1>0, <4>1, <4>2
    <3>2. CASE u # t
      BY <1>0, <1>4, <2>3, <3>2 DEF Goto
    <3> QED BY <3>1, <3>2
  <2> QED BY <1>1, <1>2, <1>4, <2>2, <2>3 DEF power
<1> QED BY <1>3, <1>4 DEF rotateLogsIfNeeded

LEMMA FirstWrite ==
  ASSUME Inv, FirstSession, NEW t \in Tasks, NEW n \in EntrySizes, write(t, n)
  PROVE  FirstSession'
<1> USE DEF FirstSession
<1>0. /\ boots \in Nat /\ uptime \in Nat /\ currentFileSize \in Nat
      /\ pc \in [Tasks -> {"idle", "log", "radio"} \cup Holding]
      /\ lastWrite \in [Names -> Names] /\ logs \subseteq Names
  <2>1. boots \in Nat /\ uptime \in Nat
    BY LoggerAssumption DEF Inv, BoardOK, Names
  <2>2. pc \in [Tasks -> {"idle", "log", "radio"} \cup Holding]
    BY DEF Inv, TasksOK
  <2>3. lastWrite \in [Names -> Names] /\ logs \subseteq Names
    BY DEF Inv, CardOK
  <2>4. currentFileSize \in Nat
    BY DEF Inv, LoggerOK
  <2> QED BY <2>1, <2>2, <2>3, <2>4
<1>1. /\ uptime' = uptime + 1 /\ logs' = logs \cup {currentLogFile}
      /\ lastWrite' = [lastWrite EXCEPT ![currentLogFile] = uptime']
      /\ UNCHANGED <<up, boots, currentLogFile>>
      /\ Goto(t, "idle") /\ pc[t] = "append"
  BY DEF write
<1>2. currentLogFile \in Names /\ up /\ boots > 0
  BY <1>1 DEF Inv, Calls, LoggerOK
<1>3. PICK k \in print(n) : Printed(k)
  BY WritePrints
<1>4. k \in Nat
  BY PrintAtMost
<1>5. /\ lastWrite'[currentLogFile] = uptime + 1
      /\ \A f \in logs \ {currentLogFile} : lastWrite'[f] = lastWrite[f]
  BY <1>0, <1>1, <1>2
<1>6. \A f \in logs : lastWrite[f] \in Nat
  BY <1>0, LoggerAssumption DEF Names
<1>7. \A u \in Tasks : pc'[u] # "delete"
  BY <1>0, <1>1 DEF Inv, LockedExclusive, Holding, Goto
<1>8. boots = 1 => \A f \in logs' : lastWrite'[f] <= uptime'
  BY <1>0, <1>1, <1>2, <1>5, <1>6
<1>9. boots = 1 /\ currentFileSize' > 0 => latest' = currentLogFile
  BY <1>0, <1>2, <1>3, <1>4 DEF Printed
<1>10. boots = 1 /\ latest' = currentLogFile => LatestNewest'
  BY <1>0, <1>1, <1>2, <1>5, <1>6 DEF LatestNewest
<1> QED BY <1>0, <1>1, <1>2, <1>7, <1>8, <1>9, <1>10

LEMMA FirstSessionStep ==
  Inv /\ FirstSession /\ [Next]_vars => FirstSession'
<1> SUFFICES ASSUME Inv, FirstSession, [Next]_vars PROVE FirstSession'
  OBVIOUS
<1> USE DEF FirstSession
<1>0. /\ boots \in Nat /\ uptime \in Nat
      /\ pc \in [Tasks -> {"idle", "log", "radio"} \cup Holding]
      /\ lastWrite \in [Names -> Names] /\ logs \subseteq Names
  <2>1. boots \in Nat /\ uptime \in Nat
    BY LoggerAssumption DEF Inv, BoardOK, Names
  <2>2. pc \in [Tasks -> {"idle", "log", "radio"} \cup Holding]
    BY DEF Inv, TasksOK
  <2>3. lastWrite \in [Names -> Names] /\ logs \subseteq Names
    BY DEF Inv, CardOK
  <2> QED BY <2>1, <2>2, <2>3
<1>1. CASE begin
  <2>1. /\ boots' = boots + 1 /\ UNCHANGED <<logs, pc, currentFileSize>>
        /\ ~up /\ up'
    BY <1>1 DEF begin, card
  <2>2. \A t \in Tasks : pc[t] # "delete"
    BY <2>1 DEF Inv, Calls
  <2> QED BY <1>0, <2>1, <2>2
<1>2. CASE PowerOff
  BY <1>0, <1>2 DEF PowerOff, card
<1>3. CASE Tick
  <2>1. uptime' = uptime + 1 /\ UNCHANGED <<up, boots, pc, card, logger>>
    BY <1>3 DEF Tick
  <2>2. \A f \in logs : lastWrite[f] \in Nat
    BY <1>0, LoggerAssumption DEF Names
  <2> QED BY <1>0, <2>1, <2>2 DEF card, logger, LatestNewest
<1>4. CASE listLogs \/ sendLogs \/ UNCHANGED vars
  BY <1>4 DEF listLogs, sendLogs, vars, power, card, logger, LatestNewest
<1>5. ASSUME NEW t \in Tasks, task(t) PROVE FirstSession'
  <2>0. pc[t] # "idle" => up /\ boots > 0
    BY DEF Inv, Calls
  <2>1. ASSUME UNCHANGED <<power, card, logger>>, NEW label, label # "delete",
               Goto(t, label)
        PROVE  FirstSession'
    <3>1. \A u \in Tasks : pc'[u] = "delete" => pc[u] = "delete"
      BY <1>0, <2>1 DEF Goto
    <3> QED BY <2>1, <3>1 DEF power, card, logger, LatestNewest
  <2>2. CASE logDetection(t) \/ readReceiverRssi(t)
    BY <2>1, <2>2 DEF logDetection, readReceiverRssi
  <2>3. CASE acquire(t)
    BY <2>1, <2>3 DEF acquire
  <2>4. CASE timeout(t) \/ sample(t) \/ openFails(t)
    BY <2>1, <2>4 DEF timeout, sample, openFails
  <2>5. CASE rotateLogsIfNeeded(t)
    BY <2>5, FirstRotate
  <2>6. CASE deleteOldestLog(t)
    <3>1. UNCHANGED <<up, boots, uptime, latest, logger>> /\ Goto(t, "append")
          /\ pc[t] = "delete"
      BY <2>6 DEF deleteOldestLog, power
    <3>2. \A u \in Tasks : pc'[u] # "delete"
      BY <1>0, <3>1 DEF Inv, LockedExclusive, Holding, Goto
    <3>3. CASE UNCHANGED <<logs, size, lastWrite>>
      BY <2>0, <3>1, <3>2, <3>3 DEF logger, LatestNewest
    <3>4. ASSUME NEW f \in Oldest, logs' = logs \ {f},
                 lastWrite' = [lastWrite EXCEPT ![f] = 0]
          PROVE  FirstSession'
      <4>1. \A g \in logs' : g \in logs /\ lastWrite'[g] = lastWrite[g]
        BY <1>0, <3>4
      <4> QED BY <2>0, <3>1, <3>2, <4>1 DEF logger, LatestNewest
    <3> QED BY <2>6, <3>3, <3>4 DEF deleteOldestLog
  <2>7. ASSUME NEW n \in EntrySizes, write(t, n) PROVE FirstSession'
    BY <2>7, FirstWrite
  <2> QED
    BY <1>5, <2>2, <2>3, <2>4, <2>5, <2>6, <2>7 DEF task, underLock
<1> QED BY <1>1, <1>2, <1>3, <1>4, <1>5 DEF Next

\* What a deletion takes is not the latest log.
LEMMA OldestNotLatest ==
  ASSUME MaxFiles > 0, Inv, FirstSession, boots <= 1,
         NEW t \in Tasks, pc[t] = "delete", NEW f \in Oldest
  PROVE  f # latest
<1> SUFFICES ASSUME f = latest PROVE FALSE
  OBVIOUS
<1>1. up /\ boots = 1
  <2>1. up /\ boots > 0 /\ boots \in Nat
    BY LoggerAssumption DEF Inv, Calls, BoardOK
  <2> QED BY <2>1
<1>2. IsFiniteSet(logs) /\ Cardinality(logs) > 1
  <2>1. IsFiniteSet(logs) /\ Cardinality(logs) \in Nat
    BY CardFinite DEF Inv
  <2> QED BY <2>1, LoggerAssumption DEF FirstSession
<1>3. PICK g \in logs : g # latest
  BY <1>2, AnotherFile
<1>4. latest \in logs /\ lastWrite[latest] <= lastWrite[g]
  BY <1>3 DEF Oldest
<1>5. lastWrite[g] < lastWrite[latest]
  BY <1>1, <1>3, <1>4 DEF FirstSession, LatestNewest
<1>6. lastWrite[g] \in Nat /\ lastWrite[latest] \in Nat
  BY <1>3, <1>4, LoggerAssumption DEF Inv, CardOK, Names
<1> QED BY <1>4, <1>5, <1>6

\* While the clock has never restarted, rotation keeps the latest log.
THEOREM LatestKept == ASSUME MaxFiles > 0 PROVE Spec => LatestLogKept
<1>1. Init => FirstSession
  BY DEF Init, FirstSession
<1>2. ASSUME Inv, FirstSession, [Next]_vars,
             boots = 1, up', latest \in logs, latest \notin logs'
      PROVE  FALSE
  <2>1. PICK t \in Tasks : deleteOldestLog(t)
    BY <1>2
    DEF Next, vars, begin, PowerOff, Tick, listLogs, sendLogs, task, underLock,
        logDetection, readReceiverRssi, acquire, timeout, sample,
        rotateLogsIfNeeded, openFails, write, card
  <2>2. latest \in Oldest /\ pc[t] = "delete"
    BY <1>2, <2>1 DEF deleteOldestLog
  <2> QED BY <1>2, <2>2, OldestNotLatest
<1>3. Inv /\ FirstSession /\ [Next]_vars
        => [boots = 1 /\ up' /\ latest \in logs => latest \in logs']_vars
  BY <1>2
<1> QED
  BY <1>1, <1>3, FirstSessionStep, Invariance, PTL DEF Spec, LatestLogKept

-----------------------------------------------------------------------------
(* The logger implements LogCard: the task that acts has the bus or takes  *)
(* it, and changes the files only as LogCard says; the board and the       *)
(* handlers leave the files alone and give the bus up at most.             *)

LEMMA CardCounts == Card!Cardinality(logs) = Cardinality(logs)
BY DEF Card!Cardinality, Cardinality

LEMMA CardStutter ==
  ASSUME UNCHANGED <<holder, logs, latest, boots>>
  PROVE  [Card!Next]_(Card!state)
BY DEF Card!state

LEMMA CardBoard ==
  ASSUME Inv, begin \/ PowerOff \/ Tick \/ listLogs \/ sendLogs
  PROVE  [Card!Next]_(Card!state)
<1>1. CASE begin
  <2>1. /\ boots \in Nat /\ boots' = boots + 1 /\ holder' = holder
        /\ UNCHANGED <<logs, latest>>
    BY <1>1, LoggerAssumption DEF begin, Inv, BoardOK, card
  <2>2. holder = NoTask
    <3>1. ~up
      BY <1>1 DEF begin
    <3>2. holder \in Tasks => pc[holder] = "idle"
      BY <3>1 DEF Inv, Calls
    <3>3. holder \notin Tasks
      BY <3>2 DEF Inv, LockedExclusive, Holding
    <3> QED BY <3>3 DEF Inv, TasksOK
  <2>3. CASE boots = 1
    BY <2>1, <2>2, <2>3 DEF Card!Next, Card!NextSession
  <2>4. CASE boots # 1
    BY <2>1, <2>4 DEF Card!state
  <2> QED BY <2>3, <2>4
<1>2. CASE PowerOff
  <2>1. holder' = NoTask /\ UNCHANGED <<logs, latest, boots>>
    BY <1>2 DEF PowerOff, card
  <2> QED BY <2>1 DEF Card!Next, Card!Release, Card!state
<1>3. CASE Tick \/ listLogs \/ sendLogs
  BY <1>3, CardStutter DEF Tick, listLogs, sendLogs, card, power
<1> QED BY <1>1, <1>2, <1>3

LEMMA CardTask ==
  ASSUME MaxFiles > 0, Inv, FirstSession, NEW t \in Tasks, task(t)
  PROVE  [Card!Next]_(Card!state)
<1>0. pc[t] \in Holding => holder = t /\ holder # NoTask
  BY LoggerAssumption DEF Inv, LockedExclusive
<1>1. CASE logDetection(t) \/ readReceiverRssi(t) \/ timeout(t)
  BY <1>1, CardStutter DEF logDetection, readReceiverRssi, timeout, card, power
<1>2. CASE acquire(t)
  <2>1. holder = NoTask /\ holder' = t /\ UNCHANGED <<logs, latest, boots>>
    BY <1>2 DEF acquire, card, power
  <2> QED BY <2>1 DEF Card!Next, Card!Take
<1>3. CASE sample(t) \/ openFails(t)
  <2>1. pc[t] \in Holding /\ holder' = NoTask /\ UNCHANGED <<logs, latest, boots>>
    BY <1>3 DEF sample, openFails, card, power, Holding
  <2> QED BY <1>0, <2>1 DEF Card!Next, Card!Release
<1>4. CASE rotateLogsIfNeeded(t)
  BY <1>4, CardStutter DEF rotateLogsIfNeeded, power
<1>5. CASE deleteOldestLog(t)
  <2>1. /\ UNCHANGED <<holder, latest, boots>> /\ pc[t] = "delete"
        /\ (UNCHANGED logs \/ \E f \in Oldest : logs' = logs \ {f})
    BY <1>5 DEF deleteOldestLog, power
  <2>2. ASSUME NEW f \in Oldest, logs' = logs \ {f}
        PROVE  [Card!Next]_(Card!state)
    <3>1. f \in logs /\ f \in Names
      BY DEF Oldest, Inv, CardOK
    <3>2. Card!Cardinality(logs) > MaxFiles
      BY <2>1, CardCounts DEF FirstSession
    <3>3. boots <= 1 => f # latest
      BY <2>1, OldestNotLatest
    <3> QED
      BY <1>0, <2>1, <2>2, <3>1, <3>2, <3>3
      DEF Card!Next, Card!GiveUp, Holding
  <2> QED BY <2>1, <2>2, CardStutter
<1>6. ASSUME NEW n \in EntrySizes, write(t, n)
      PROVE  [Card!Next]_(Card!state)
  <2>1. /\ pc[t] = "append" /\ holder' = NoTask /\ boots' = boots
        /\ logs' = logs \cup {currentLogFile}
        /\ latest' \in {currentLogFile, latest}
    BY <1>6 DEF write
  <2>2. currentLogFile \in Names
    BY <2>1 DEF Inv, Calls, LoggerOK
  <2> QED BY <1>0, <2>1, <2>2 DEF Card!Next, Card!Enter, Holding
<1> QED
  BY <1>1, <1>2, <1>3, <1>4, <1>5, <1>6 DEF task, underLock

\* Every step of the logger, of the tasks and of the power supply is one the
\* card's users were promised, or none: only the task with the bus touches
\* the logs, deletes one only where there are too many, and the latest never
\* while the clock has not restarted.
THEOREM ImplementsCard == ASSUME MaxFiles > 0 PROVE Spec => CardSpec
<1>1. Init => Card!Init
  BY DEF Init, Card!Init
<1>2. Init => FirstSession
  BY DEF Init, FirstSession
<1>3. Inv /\ FirstSession /\ [Next]_vars => [Card!Next]_(Card!state)
  <2>1. UNCHANGED vars => UNCHANGED <<holder, logs, latest, boots>>
    BY DEF vars, power, card
  <2> QED BY <2>1, CardStutter, CardBoard, CardTask DEF Next
<1> QED
  BY <1>1, <1>2, <1>3, FirstSessionStep, Invariance, PTL
  DEF Spec, CardSpec, Card!Spec

-----------------------------------------------------------------------------
(* The size of a file.                                                     *)

\* What b sessions can leave in a file: nothing, or less than b times the
\* rotation size and an entry.
Small(b, x) == x <= 0 \/ \E n \in EntrySizes : x < b * (RotateSize + n)

LEMMA EntryNumbers ==
  /\ RotateSize \in Nat \ {0} /\ EntrySizes \subseteq Nat \ {0}
BY LoggerAssumption

LEMMA TimesGrows ==
  ASSUME NEW b \in Nat, NEW x \in Nat, NEW y \in Nat, x <= y
  PROVE  /\ b * x \in Nat /\ b * y \in Nat /\ (b + 1) * y \in Nat
         /\ b * x <= b * y /\ (b + 1) * y = b * y + y
<1>1. b * x \in Nat /\ b * y \in Nat /\ (b + 1) * y = b * y + y
  OBVIOUS
<1>2. b * y - b * x = b * (y - x) /\ y - x \in Nat
  OBVIOUS
<1>3. b * (y - x) \in Nat
  BY <1>2
<1> QED BY <1>1, <1>2, <1>3

LEMMA SmallGrows ==
  ASSUME NEW b \in Nat, NEW x \in Int, Small(b, x) PROVE Small(b + 1, x)
<1>1. ASSUME NEW n \in EntrySizes, x < b * (RotateSize + n)
      PROVE  x < (b + 1) * (RotateSize + n)
  <2>1. RotateSize + n \in Nat
    BY EntryNumbers
  <2>2. /\ b * (RotateSize + n) \in Nat
        /\ (b + 1) * (RotateSize + n) = b * (RotateSize + n) + (RotateSize + n)
    BY ONLY <2>1, TimesGrows, b \in Nat
  <2> QED BY <1>1, <2>1, <2>2
<1> QED BY <1>1 DEF Small

\* A session adds less than the rotation size and an entry.
LEMMA SmallPlus ==
  ASSUME NEW b \in Nat, NEW x \in Int, Small(b, x),
         NEW c \in Nat, c < RotateSize, NEW n \in EntrySizes
  PROVE  \E m \in EntrySizes : x + c + n < (b + 1) * (RotateSize + m)
<1>1. n \in Nat /\ RotateSize \in Nat
  BY EntryNumbers
<1>2. ASSUME NEW z \in Nat, x <= 0 \/ x < b * (RotateSize + z), z <= n
      PROVE  x + c + n < (b + 1) * (RotateSize + n)
  <2>1. /\ b * (RotateSize + z) <= b * (RotateSize + n)
        /\ b * (RotateSize + z) \in Nat /\ b * (RotateSize + n) \in Nat
        /\ (b + 1) * (RotateSize + n) = b * (RotateSize + n) + (RotateSize + n)
    <3>1. /\ RotateSize + z \in Nat /\ RotateSize + n \in Nat
          /\ RotateSize + z <= RotateSize + n
      BY <1>1, <1>2
    <3> QED BY ONLY <3>1, TimesGrows, b \in Nat
  <2> QED BY <1>1, <1>2, <2>1
<1>3. ASSUME NEW z \in EntrySizes, x < b * (RotateSize + z), z > n
      PROVE  x + c + n < (b + 1) * (RotateSize + z)
  <2>1. RotateSize + z \in Nat /\ z \in Nat
    BY EntryNumbers
  <2>2. /\ b * (RotateSize + z) \in Nat
        /\ (b + 1) * (RotateSize + z) = b * (RotateSize + z) + (RotateSize + z)
    BY ONLY <2>1, TimesGrows, b \in Nat
  <2> QED BY <1>1, <1>3, <2>1, <2>2
<1>4. CASE x <= 0
  BY <1>1, <1>2, <1>4
<1>5. ASSUME NEW z \in EntrySizes, x < b * (RotateSize + z)
      PROVE  \E m \in EntrySizes : x + c + n < (b + 1) * (RotateSize + m)
  BY <1>1, <1>2, <1>3, <1>5, EntryNumbers
<1> QED BY <1>4, <1>5 DEF Small

\* The sessions before this one account for every file but for what the
\* current one has in its file; names of this session lie in the past.
Named ==
  sdCardAvailable =>
    /\ currentLogFile <= uptime
    /\ currentFileSize > 0 => currentLogFile < uptime
Earlier ==
  sdCardAvailable =>
    /\ Small(boots - 1, size[currentLogFile] - currentFileSize)
    /\ \A f \in Names : f > currentLogFile => Small(boots - 1, size[f])
SizeInv ==
  /\ FileSizeBounded
  /\ \A f \in Names : f \notin logs => size[f] = 0
  /\ ~up => sdCardAvailable = FALSE /\ currentFileSize = 0
  /\ Named /\ Earlier
  /\ \A t \in Tasks :
       pc[t] \in {"delete", "append"} => currentFileSize < RotateSize

LEMMA SizeFrame ==
  ASSUME Inv, SizeInv, UNCHANGED <<up, boots, card, logger>>, uptime' >= uptime,
         uptime' \in Names,
         \A t \in Tasks : pc'[t] \in {"delete", "append"}
                            => pc[t] \in {"delete", "append"}
  PROVE  SizeInv'
<1>1. uptime \in Nat /\ uptime' \in Nat
  BY LoggerAssumption DEF Inv, BoardOK, Names
<1>2. sdCardAvailable => currentLogFile \in Nat
  BY LoggerAssumption DEF Inv, LoggerOK, Names
<1>3. Named'
  BY <1>1, <1>2 DEF SizeInv, Named, logger
<1>4. Earlier'
  BY DEF SizeInv, Earlier, logger, card
<1> QED BY <1>3, <1>4 DEF SizeInv, FileSizeBounded, logger, card

LEMMA AllSmall ==
  ASSUME Inv, SizeInv, NEW f \in Names
  PROVE  size[f] \in Nat /\ boots \in Nat /\ Small(boots, size[f])
<1>1. size[f] \in Nat /\ boots \in Nat
  BY LoggerAssumption DEF Inv, BoardOK, CardOK
<1> QED BY <1>1 DEF SizeInv, FileSizeBounded, Small

LEMMA BoardSize ==
  ASSUME Inv, SizeInv, begin \/ PowerOff \/ Tick \/ listLogs \/ sendLogs
  PROVE  SizeInv'
<1>0. uptime \in Nat /\ uptime \in Names /\ boots \in Nat
  BY LoggerAssumption DEF Inv, BoardOK, Names
<1>1. CASE begin
  <2>1. /\ boots' = boots + 1 /\ up' /\ ~up /\ UNCHANGED <<pc, currentFileSize>>
        /\ UNCHANGED <<logs, size>> /\ currentFileSize = 0
        /\ sdCardAvailable = FALSE /\ uptime' \in Names
    BY <1>1, LoggerAssumption DEF begin, card, SizeInv, Names
  <2>2. FileSizeBounded'
    <3> SUFFICES ASSUME NEW f \in logs
                 PROVE  \E n \in EntrySizes : size[f] < (boots + 1) * (RotateSize + n)
      BY <2>1 DEF FileSizeBounded
    <3>1. PICK n \in EntrySizes : size[f] < boots * (RotateSize + n)
      BY DEF SizeInv, FileSizeBounded
    <3>2. size[f] \in Nat /\ RotateSize + n \in Nat
      BY EntryNumbers DEF Inv, CardOK
    <3>3. /\ boots * (RotateSize + n) \in Nat
          /\ (boots + 1) * (RotateSize + n)
               = boots * (RotateSize + n) + (RotateSize + n)
      BY ONLY <3>2, TimesGrows, <1>0
    <3>4. size[f] < (boots + 1) * (RotateSize + n)
      BY <3>1, <3>2, <3>3
    <3> QED BY <3>4
  <2>3. Named' /\ Earlier'
    <3>1. CASE sdCardAvailable' = TRUE /\ currentLogFile' = uptime'
      <4>1. boots' - 1 = boots /\ uptime' \in Int
        BY <1>0, <2>1, LoggerAssumption DEF Names
      <4>2. \A f \in Names : Small(boots, size[f]) /\ size[f] \in Nat
        BY AllSmall
      <4>3. size[uptime'] - 0 = size[uptime']
        BY <2>1, <4>2
      <4> QED BY <2>1, <3>1, <4>1, <4>2, <4>3 DEF Named, Earlier
    <3>2. CASE UNCHANGED sdCardAvailable
      BY <2>1, <3>2 DEF Named, Earlier
    <3> QED BY <1>1, <3>1, <3>2 DEF begin
  <2> QED BY <2>1, <2>2, <2>3 DEF SizeInv
<1>2. CASE PowerOff
  <2>1. /\ UNCHANGED <<boots, logs, size>> /\ sdCardAvailable' = FALSE
        /\ currentFileSize' = 0
        /\ \A t \in Tasks : pc'[t] = "idle"
    BY <1>2 DEF PowerOff, card
  <2> QED BY <2>1 DEF SizeInv, FileSizeBounded, Named, Earlier
<1>3. CASE Tick \/ listLogs \/ sendLogs
  <2>1. UNCHANGED <<up, boots, card, logger, pc>> /\ uptime' >= uptime
    BY <1>0, <1>3 DEF Tick, listLogs, sendLogs, power
  <2>2. uptime' \in Names
    BY <1>0, <1>3, LoggerAssumption DEF Tick, listLogs, sendLogs, power, Names
  <2> QED BY <2>1, <2>2, SizeFrame
<1> QED BY <1>1, <1>2, <1>3

LEMMA TaskSize ==
  ASSUME Inv, SizeInv, NEW t \in Tasks, task(t)
  PROVE  SizeInv'
<1>0. /\ uptime \in Nat /\ uptime \in Names /\ boots \in Nat
      /\ pc \in [Tasks -> {"idle", "log", "radio"} \cup Holding]
      /\ size \in [Names -> Nat] /\ currentFileSize \in Nat
      /\ sdCardAvailable => currentLogFile \in Names
  <2>1. uptime \in Nat /\ uptime \in Names /\ boots \in Nat
    BY LoggerAssumption DEF Inv, BoardOK, Names
  <2>2. pc \in [Tasks -> {"idle", "log", "radio"} \cup Holding]
    BY DEF Inv, TasksOK
  <2>3. size \in [Names -> Nat]
    BY DEF Inv, CardOK
  <2>4. currentFileSize \in Nat /\ (sdCardAvailable => currentLogFile \in Names)
    BY DEF Inv, LoggerOK
  <2> QED BY <2>1, <2>2, <2>3, <2>4
<1>1. ASSUME UNCHANGED <<power, card, logger>>, NEW label,
             label \notin {"delete", "append"}, Goto(t, label)
      PROVE  SizeInv'
  <2>1. \A u \in Tasks : pc'[u] \in {"delete", "append"}
                           => pc[u] \in {"delete", "append"}
    BY <1>0, <1>1 DEF Goto
  <2> QED BY <1>0, <1>1, <2>1, SizeFrame DEF power
<1>2. CASE logDetection(t) \/ readReceiverRssi(t)
  BY <1>1, <1>2 DEF logDetection, readReceiverRssi
<1>3. CASE acquire(t)
  BY <1>1, <1>3 DEF acquire
<1>4. CASE timeout(t) \/ sample(t) \/ openFails(t)
  BY <1>1, <1>4 DEF timeout, sample, openFails
<1>5. CASE rotateLogsIfNeeded(t)
  <2>1. /\ UNCHANGED <<up, boots, uptime, logs, size, sdCardAvailable>>
        /\ pc[t] = "rotate"
    BY <1>5 DEF rotateLogsIfNeeded, power
  <2>2. sdCardAvailable /\ up
    BY <2>1 DEF Inv, Calls
  <2>3. PICK label \in {"delete", "append"} : Goto(t, label)
    BY <1>5 DEF rotateLogsIfNeeded
  <2>4. CASE currentFileSize >= RotateSize
    <3>1. currentLogFile' = uptime /\ currentFileSize' = 0
      BY <1>5, <2>4 DEF rotateLogsIfNeeded
    <3>2. currentLogFile < uptime
      BY <1>0, <2>2, <2>4, EntryNumbers DEF SizeInv, Named
    <3>3. Named'
      BY <1>0, <2>1, <3>1 DEF Named
    <3>4. Earlier'
      <4>1. /\ \A f \in Names : f >= uptime => Small(boots - 1, size[f])
            /\ size[uptime] - 0 = size[uptime]
        <5>1. ASSUME NEW f \in Names, f >= uptime
              PROVE  Small(boots - 1, size[f])
          <6>1. f > currentLogFile
            BY <1>0, <2>2, <3>2, <5>1, LoggerAssumption DEF Names
          <6> QED BY <2>2, <6>1 DEF SizeInv, Earlier
        <5> QED BY <1>0, <5>1
      <4> QED BY <1>0, <2>1, <3>1, <4>1, LoggerAssumption DEF Earlier, Names
    <3> QED
      BY <2>1, <2>2, <3>1, <3>3, <3>4, EntryNumbers DEF SizeInv, FileSizeBounded
  <2>5. CASE currentFileSize < RotateSize
    <3>1. UNCHANGED <<currentLogFile, currentFileSize>>
      BY <1>0, <1>5, <2>5, EntryNumbers DEF rotateLogsIfNeeded
    <3> QED
      BY <2>1, <2>2, <2>5, <3>1
      DEF SizeInv, FileSizeBounded, Named, Earlier
  <2> QED BY <1>0, <2>4, <2>5, EntryNumbers
<1>6. CASE deleteOldestLog(t)
  <2>1. UNCHANGED <<up, boots, uptime, logger>> /\ pc[t] = "delete"
        /\ Goto(t, "append")
    BY <1>6 DEF deleteOldestLog, power
  <2>2. \A u \in Tasks : pc'[u] \in {"delete", "append"}
                           => pc[u] \in {"delete", "append"}
    BY <1>0, <2>1 DEF Goto
  <2>3. CASE UNCHANGED <<logs, size>>
    BY <2>1, <2>2, <2>3 DEF SizeInv, FileSizeBounded, Named, Earlier, logger
  <2>4. ASSUME NEW f \in Oldest, logs' = logs \ {f},
               size' = [size EXCEPT ![f] = 0]
        PROVE  SizeInv'
    <3>1. f \in Names /\ f \in logs
      BY DEF Oldest, Inv, CardOK
    <3>2. size'[f] = 0 /\ \A g \in Names \ {f} : size'[g] = size[g]
      BY <1>0, <2>4, <3>1
    <3>3. FileSizeBounded'
      <4>1. \A g \in logs' : g \in logs /\ size'[g] = size[g]
        BY <1>0, <2>4
      <4> QED BY <2>1, <4>1 DEF SizeInv, FileSizeBounded
    <3>4. \A g \in Names : g \notin logs' => size'[g] = 0
      BY <2>4, <3>2 DEF SizeInv
    <3>5. Earlier'
      <4>1. Small(boots - 1, 0) /\ Small(boots - 1, 0 - currentFileSize)
        BY <1>0 DEF Small
      <4> QED
        BY <1>0, <2>1, <3>2, <4>1 DEF SizeInv, Earlier, logger
    <3> QED
      BY <2>1, <2>2, <3>3, <3>4, <3>5 DEF SizeInv, Named, logger
  <2> QED BY <1>6, <2>3, <2>4 DEF deleteOldestLog
<1>7. ASSUME NEW n \in EntrySizes, write(t, n) PROVE SizeInv'
  <2>0. PICK k \in print(n) : Printed(k)
    BY <1>7, WritePrints
  <2>1. /\ uptime' = uptime + 1 /\ logs' = logs \cup {currentLogFile}
        /\ size' = [size EXCEPT ![currentLogFile] = @ + k]
        /\ currentFileSize' = currentFileSize + k
        /\ UNCHANGED <<up, boots, sdCardAvailable, currentLogFile>>
        /\ Goto(t, "idle") /\ pc[t] = "append"
    BY <1>7, <2>0 DEF write, Printed
  <2>2. /\ sdCardAvailable /\ up /\ boots > 0 /\ currentLogFile \in Names
        /\ currentFileSize < RotateSize /\ currentLogFile \in Nat
        /\ n \in Nat /\ k \in Nat /\ k <= n
    BY <1>0, <2>1, EntryNumbers, PrintAtMost, LoggerAssumption
    DEF SizeInv, Inv, Calls, Names
  <2>3. /\ size'[currentLogFile] = size[currentLogFile] + k
        /\ \A f \in Names \ {currentLogFile} : size'[f] = size[f]
        /\ size[currentLogFile] \in Nat
    BY <1>0, <2>1, <2>2
  <2>4. FileSizeBounded'
    <3>1. \E m \in EntrySizes : size'[currentLogFile] < boots * (RotateSize + m)
      <4> DEFINE x == size[currentLogFile] - currentFileSize
      <4>1. x \in Int /\ x + currentFileSize + k = size'[currentLogFile]
        BY <1>0, <2>2, <2>3
      <4>2. Small(boots - 1, x)
        BY <2>2 DEF SizeInv, Earlier
      <4>3. boots - 1 \in Nat /\ (boots - 1) + 1 = boots
        BY <1>0, <2>2
      <4> HIDE DEF x
      <4>4. PICK m \in EntrySizes :
              x + currentFileSize + n < ((boots - 1) + 1) * (RotateSize + m)
        BY <1>0, <2>2, <4>1, <4>2, <4>3, SmallPlus
      <4>5. /\ x + currentFileSize + k <= x + currentFileSize + n
            /\ x + currentFileSize + k \in Int /\ x + currentFileSize + n \in Int
        BY <1>0, <2>2, <4>1
      <4>6. boots * (RotateSize + m) \in Int
        BY <1>0, EntryNumbers
      <4> QED BY <4>1, <4>3, <4>4, <4>5, <4>6
    <3>2. \A f \in logs' : f = currentLogFile
                           \/ (f \in logs /\ f \in Names \ {currentLogFile})
      BY <2>1 DEF Inv, CardOK
    <3> QED
      BY <2>1, <2>3, <3>1, <3>2 DEF SizeInv, FileSizeBounded
  <2>5. \A f \in Names : f \notin logs' => size'[f] = 0
    BY <2>1, <2>3 DEF SizeInv
  <2>6. Named'
    BY <1>0, <2>1, <2>2 DEF SizeInv, Named
  <2>7. Earlier'
    <3>1. size'[currentLogFile] - currentFileSize'
            = size[currentLogFile] - currentFileSize
      BY <1>0, <2>1, <2>2, <2>3
    <3>2. \A f \in Names : f > currentLogFile => size'[f] = size[f]
      BY <2>2, <2>3, LoggerAssumption DEF Names
    <3> QED BY <2>1, <2>2, <3>1, <3>2 DEF SizeInv, Earlier
  <2>8. \A u \in Tasks : pc'[u] \notin {"delete", "append"}
    BY <1>0, <2>1 DEF Inv, LockedExclusive, Holding, Goto
  <2> QED BY <2>1, <2>2, <2>4, <2>5, <2>6, <2>7, <2>8 DEF SizeInv
<1> QED
  BY <1>2, <1>3, <1>4, <1>5, <1>6, <1>7 DEF task, underLock

\* A file holds less than the rotation size and an entry for every session so
\* far, whatever the card refuses and whenever the power goes.
THEOREM SizeBounded == Spec => []FileSizeBounded
<1>1. Init => SizeInv
  BY DEF Init, SizeInv, FileSizeBounded, Named, Earlier
<1>2. Inv /\ SizeInv /\ [Next]_vars => SizeInv'
  <2>1. SizeInv /\ UNCHANGED vars => SizeInv'
    BY DEF SizeInv, FileSizeBounded, Named, Earlier, vars, power, card, logger
  <2> QED BY <2>1, BoardSize, TaskSize DEF Next
<1>3. SizeInv => FileSizeBounded
  BY DEF SizeInv
<1> QED BY <1>1, <1>2, <1>3, Invariance, PTL DEF Spec
=============================================================================
