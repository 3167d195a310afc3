------------------------------ MODULE RemoteId ------------------------------
(***************************************************************************)
(* RemoteIDDetector (remote_id_detector.cpp) and taskRemoteID (main.cpp),  *)
(* in the build that opts in.  The task thins the table out, scans and     *)
(* reports; advertisements arrive on the BLE task, in onResult(), and      *)
(* nothing locks the table.  Whether the two meet depends on the library:  *)
(* a blocking scan hears aircraft only while the task waits for it.  The   *)
(* comment at the call says the scan does not block; both are modelled.    *)
(*                                                                         *)
(* Ages stand for lastSeen: the time since, capped where it no longer      *)
(* matters.  Of a coordinate only whether it is 0 is kept.                 *)
(***************************************************************************)
EXTENDS Integers

CONSTANTS
  Aircraft,
  NoName,                  \* the empty id
  MAX_DETECTED_DRONES,
  BLE_SCAN_INTERVAL_MS,
  REMOTE_ID_CLEANUP_MS,
  TaskDelay,               \* vTaskDelay() of the task
  MaxLag                   \* bound on the time a pass of the cleanup takes

ASSUME RemoteIdAssumption ==
  /\ NoName \notin Aircraft
  /\ MAX_DETECTED_DRONES \in Nat \ {0} /\ MaxLag \in Nat
  /\ BLE_SCAN_INTERVAL_MS \in Nat \ {0} /\ REMOTE_ID_CLEANUP_MS \in Nat
  /\ TaskDelay \in Nat \ {0}

VARIABLES
  detectedDrones, droneCount,
  sinceScan,     \* millis() - lastScanTime
  taskPc,        \* "delay", "update", "clean", "scan", "report"
  index, writeIdx,
  count,         \* droneCount as the task read it for its report
  lag,           \* millis() - currentTime in the cleanup
  delayLeft, scanLeft,
  callback,      \* onResult(): [step, drone, idx]
  blocking

task == <<sinceScan, taskPc, index, writeIdx, count, lag, delayLeft, scanLeft>>
vars == <<detectedDrones, droneCount, task, callback, blocking>>

Slots == 0..MAX_DETECTED_DRONES - 1
Names == Aircraft \cup {NoName}
Places == {"zero", "place"}

\* From here on no property tells ages apart.
OldAge == REMOTE_ID_CLEANUP_MS + BLE_SCAN_INTERVAL_MS + MaxLag + 1
Ages == 0..OldAge
Older(age) == IF age < OldAge THEN age + 1 ELSE age

Drone == [uasID : Names, latitude : Places, longitude : Places,
          isValid : BOOLEAN, age : Ages]
NoDrone == [uasID |-> NoName, latitude |-> "zero", longitude |-> "zero",
            isValid |-> FALSE, age |-> OldAge]

\* What a message of each kind makes of an empty entry: only a Basic ID names
\* the aircraft, only a Location places it.
Heard(id, lat, lon, valid) ==
  [uasID |-> id, latitude |-> lat, longitude |-> lon, isValid |-> valid,
   age |-> 0]
parseBasicIDMessage(id, idType) ==
  Heard(id, "zero", "zero", idType > 0 /\ id # NoName)
parseLocationMessage(lat, lon) ==
  Heard(NoName, lat, lon, lat # "zero" /\ lon # "zero")
parseSystemMessage == Heard(NoName, "zero", "zero", TRUE)
parseOperatorIDMessage == Heard(NoName, "zero", "zero", TRUE)

Messages ==
  {parseBasicIDMessage(id, idType) : id \in Names, idType \in 0..1}
  \cup {parseLocationMessage(lat, lon) : lat, lon \in Places}
  \cup {parseSystemMessage, parseOperatorIDMessage}

Idle == [step |-> "idle", drone |-> NoDrone, idx |-> 0]

Init ==
  /\ detectedDrones = [i \in Slots |-> NoDrone] /\ droneCount = 0
  /\ sinceScan \in {0, BLE_SCAN_INTERVAL_MS}  \* setup() was short or long
  /\ taskPc = "update" /\ index = 0 /\ writeIdx = 0 /\ count = 0
  /\ lag = 0 /\ delayLeft = 0 /\ scanLeft = 0
  /\ callback = Idle /\ blocking \in BOOLEAN
-----------------------------------------------------------------------------
(* onResult(), on the BLE task.                                            *)

\* Every entry the search could return; ids differ unless the table was torn.
findDroneByID(uasID) ==
  {i \in Slots : i < droneCount /\ detectedDrones[i].uasID = uasID}

\* (variant) no test for room
onResult_AnyRoom(drone) ==
  /\ scanLeft > 0 /\ callback = Idle /\ drone.isValid
  /\ findDroneByID(drone.uasID) = {}
  /\ callback' = [step |-> "add", drone |-> drone, idx |-> droneCount]
  /\ UNCHANGED <<detectedDrones, droneCount, task, blocking>>

\* The search, and the test for room.  Entries the cleanup moves meanwhile
\* may be missed.
onResult(drone) ==
  LET found == findDroneByID(drone.uasID) IN
  /\ scanLeft > 0 /\ callback = Idle
  /\ \/ \E i \in found :
          callback' = [step |-> "update", drone |-> drone, idx |-> i]
     \/ /\ found = {} \/ taskPc = "clean"
        /\ drone.isValid /\ droneCount < MAX_DETECTED_DRONES
        /\ callback' = [step |-> "add", drone |-> drone, idx |-> droneCount]
  /\ UNCHANGED <<detectedDrones, droneCount, task, blocking>>

Update(old, drone) ==
  LET Newer(new, was) == IF new # "zero" THEN new ELSE was IN
  [uasID |-> old.uasID, isValid |-> old.isValid, age |-> drone.age,
   latitude |-> Newer(drone.latitude, old.latitude),
   longitude |-> Newer(drone.longitude, old.longitude)]

updateExisting ==
  /\ callback.step = "update"
  /\ detectedDrones' = [detectedDrones EXCEPT
                          ![callback.idx] = Update(@, callback.drone)]
  /\ callback' = Idle
  /\ UNCHANGED <<droneCount, task, blocking>>

\* droneCount is read anew or kept in a register.
addNew ==
  /\ callback.step = "add"
  /\ \E i \in {callback.idx, droneCount} :
       /\ detectedDrones' = [detectedDrones EXCEPT ![i] = callback.drone]
       /\ callback' = [callback EXCEPT !.step = "count", !.idx = i]
  /\ UNCHANGED <<droneCount, task, blocking>>

countNew ==
  /\ callback.step = "count"
  /\ droneCount' \in {callback.idx + 1, droneCount + 1}
  /\ callback' = Idle
  /\ UNCHANGED <<detectedDrones, task, blocking>>
-----------------------------------------------------------------------------
(* The task.                                                               *)

update ==
  /\ taskPc = "update"
  /\ IF sinceScan < BLE_SCAN_INTERVAL_MS
     THEN /\ taskPc' = "report" /\ count' = droneCount
          /\ UNCHANGED <<sinceScan, index>>
     ELSE taskPc' = "clean" /\ sinceScan' = 0 /\ UNCHANGED <<index, count>>
  /\ UNCHANGED <<detectedDrones, droneCount, writeIdx, lag, delayLeft, scanLeft,
                 callback, blocking>>

\* currentTime - lastSeen, unsigned: an entry renewed after currentTime was
\* read seems 49 days old.
Recent(i) == detectedDrones[i].age - lag \in 0..REMOTE_ID_CLEANUP_MS

\* (variant) the entries are not moved up
Keep_InPlace(i) ==
  writeIdx' = (IF Recent(i) THEN writeIdx + 1 ELSE writeIdx)
  /\ UNCHANGED detectedDrones

Keep(i) ==
  IF Recent(i)
  THEN /\ detectedDrones' = [detectedDrones EXCEPT
                               ![writeIdx] = detectedDrones[i]]
       /\ writeIdx' = writeIdx + 1
  ELSE UNCHANGED <<detectedDrones, writeIdx>>

cleanupOldDetections ==
  /\ taskPc = "clean" /\ index < droneCount
  /\ Keep(index) /\ index' = index + 1
  /\ UNCHANGED <<droneCount, sinceScan, taskPc, count, lag, delayLeft,
                 scanLeft, callback, blocking>>

\* (variant) the entries at the end are not given up
startScan_KeepsCount ==
  /\ taskPc = "clean" /\ index >= droneCount
  /\ scanLeft' \in {0, BLE_SCAN_INTERVAL_MS}
  /\ taskPc' = "scan" /\ index' = 0 /\ writeIdx' = 0 /\ lag' = 0
  /\ UNCHANGED <<detectedDrones, droneCount, sinceScan, count, delayLeft,
                 callback, blocking>>

\* The count is set and the scan started, which may fail.
startScan ==
  /\ taskPc = "clean" /\ index >= droneCount
  /\ droneCount' = writeIdx
  /\ scanLeft' \in {0, BLE_SCAN_INTERVAL_MS}
  /\ taskPc' = "scan" /\ index' = 0 /\ writeIdx' = 0 /\ lag' = 0
  /\ UNCHANGED <<detectedDrones, sinceScan, count, delayLeft, callback, blocking>>

\* (variant) start() with a completion callback, which does not wait
getDetectedDroneCount_NoWait ==
  /\ taskPc = "scan" /\ taskPc' = "report" /\ count' = droneCount
  /\ UNCHANGED <<detectedDrones, droneCount, sinceScan, index, writeIdx, lag,
                 delayLeft, scanLeft, callback, blocking>>

\* start() returns, and the task turns to its report.
getDetectedDroneCount ==
  /\ taskPc = "scan" /\ (blocking => scanLeft = 0 /\ callback = Idle)
  /\ taskPc' = "report" /\ count' = droneCount
  /\ UNCHANGED <<detectedDrones, droneCount, sinceScan, index, writeIdx, lag,
                 delayLeft, scanLeft, callback, blocking>>

getDroneData(i) ==
  IF i < droneCount THEN detectedDrones[i] ELSE NoDrone

\* What the task broadcasts and logs.
Reporting == taskPc = "report" /\ index < count /\ getDroneData(index).isValid

report ==
  /\ taskPc = "report"
  /\ IF index < count
     THEN index' = index + 1 /\ UNCHANGED <<taskPc, delayLeft, count>>
     ELSE taskPc' = "delay" /\ delayLeft' = TaskDelay /\ index' = 0 /\ count' = 0
  /\ UNCHANGED <<detectedDrones, droneCount, sinceScan, writeIdx, lag, scanLeft,
                 callback, blocking>>

wake ==
  /\ taskPc = "delay" /\ delayLeft = 0 /\ taskPc' = "update"
  /\ UNCHANGED <<detectedDrones, droneCount, sinceScan, index, writeIdx, count,
                 lag, delayLeft, scanLeft, callback, blocking>>
-----------------------------------------------------------------------------
(* Time passes in the delay, in the scan and a little in the cleanup; the  *)
(* rest of the loop takes none.                                            *)

Less(t) == IF t > 0 THEN t - 1 ELSE 0

Tick ==
  /\ callback = Idle
  /\ \/ taskPc = "delay" /\ delayLeft > 0 /\ UNCHANGED lag
     \/ taskPc = "scan" /\ blocking /\ scanLeft > 0 /\ UNCHANGED lag
     \/ taskPc = "clean" /\ lag < MaxLag /\ lag' = lag + 1
  /\ detectedDrones' = [i \in Slots |->
                          [detectedDrones[i] EXCEPT !.age = Older(@)]]
  /\ sinceScan' = IF sinceScan < BLE_SCAN_INTERVAL_MS THEN sinceScan + 1
                                                      ELSE sinceScan
  /\ delayLeft' = Less(delayLeft) /\ scanLeft' = Less(scanLeft)
  /\ UNCHANGED <<droneCount, taskPc, index, writeIdx, count, callback, blocking>>

Task == update \/ cleanupOldDetections \/ startScan \/ getDetectedDroneCount
        \/ report \/ wake
Callback == updateExisting \/ addNew \/ countNew

Next == (\E drone \in Messages : onResult(drone)) \/ Callback \/ Task \/ Tick

Spec == Init /\ [][Next]_vars
-----------------------------------------------------------------------------
(* Properties.                                                             *)

\* No message and no interleaving of the two tasks writes behind the table.
TypeOK ==
  /\ detectedDrones \in [Slots -> Drone] /\ droneCount \in 0..MAX_DETECTED_DRONES
  /\ sinceScan \in 0..BLE_SCAN_INTERVAL_MS
  /\ taskPc \in {"delay", "update", "clean", "scan", "report"}
  /\ index \in 0..MAX_DETECTED_DRONES /\ writeIdx \in 0..index
  /\ count \in 0..MAX_DETECTED_DRONES /\ lag \in 0..MaxLag
  /\ delayLeft \in 0..TaskDelay /\ scanLeft \in 0..BLE_SCAN_INTERVAL_MS
  /\ callback \in [step : {"idle", "update", "add", "count"},
                   drone : Drone, idx : Slots]
  /\ blocking \in BOOLEAN

Listed == {i \in Slots : i < droneCount}

\* Behind a blocking scan no aircraft has two entries.  (While the cleanup
\* moves entries up an entry is there twice.)
OneEntryEach ==
  blocking /\ taskPc # "clean" =>
    \A i, j \in Listed :
      detectedDrones[i].uasID = detectedDrones[j].uasID => i = j

\* Positions never come under a name: Location messages carry no id, so that
\* those of all aircraft end in the one entry without a name.
NamedNotPlaced ==
  blocking => \A i \in Listed :
    detectedDrones[i].uasID # NoName =>
      detectedDrones[i].latitude = "zero" /\ detectedDrones[i].longitude = "zero"

\* With a blocking scan an aircraft leaves the table only after it has been
\* silent for the timeout.
LiveStays ==
  [][ blocking => \A i \in Listed :
        \/ detectedDrones[i].age > REMOTE_ID_CLEANUP_MS
        \/ \E j \in Slots : j < droneCount'
             /\ detectedDrones'[j].uasID = detectedDrones[i].uasID ]_vars

\* With a blocking scan nothing is reported that was not heard within the
\* timeout and the scan that followed.
ReportedFresh ==
  blocking /\ Reporting =>
    getDroneData(index).age <=
      REMOTE_ID_CLEANUP_MS + BLE_SCAN_INTERVAL_MS + MaxLag
-----------------------------------------------------------------------------
(* The abstract table.                                                     *)

\* The entries of the table; during the cleanup those it has kept and those it
\* has not looked at.
Live(i) == i < droneCount /\ (taskPc = "clean" => i < writeIdx \/ index <= i)

Entry(i) ==
  [uasID |-> detectedDrones[i].uasID, silence |-> detectedDrones[i].age]

tableEntries ==
  IF blocking THEN {Entry(i) : i \in {j \in Slots : Live(j)}} ELSE {}

tableUsed ==
  IF ~blocking THEN 0
  ELSE IF taskPc = "clean" THEN writeIdx + (droneCount - index)
  ELSE droneCount

Table == INSTANCE AircraftTable WITH
           Capacity <- MAX_DETECTED_DRONES, Timeout <- REMOTE_ID_CLEANUP_MS,
           MaxSilence <- OldAge, entries <- tableEntries, used <- tableUsed

\* Behind a blocking scan the array is such a table: the search, the two steps
\* of an addition and the cleanup, which moves entries up one by one, give each
\* aircraft one entry, renew it with each message and drop it only after the
\* timeout.  (Nothing is promised of a scan that does not block.)
TableSpec == Table!Spec
=============================================================================
