--------------------------- MODULE RemoteIdProofs ---------------------------
(***************************************************************************)
(* The Remote ID table for any number of aircraft, any size of the table   *)
(* and any times: within bounds under every interleaving, and consistent   *)
(* behind a scan that blocks.                                              *)
(***************************************************************************)
EXTENDS RemoteId, TLAPS

\* What the loops know of the count.
Room ==
  /\ taskPc = "clean" => writeIdx <= index /\ index <= droneCount
  /\ taskPc \in {"update", "scan", "delay"} => index = 0
  /\ taskPc # "clean" => writeIdx = 0 /\ lag = 0
  /\ taskPc = "report" => index <= count
  /\ callback.step \in {"add", "count"} =>
       droneCount < MAX_DETECTED_DRONES /\ droneCount <= callback.idx

Safe == TypeOK /\ Room

LEMMA Numbers ==
  /\ MAX_DETECTED_DRONES \in Nat /\ MAX_DETECTED_DRONES >= 1 /\ MaxLag \in Nat
  /\ BLE_SCAN_INTERVAL_MS \in Nat /\ BLE_SCAN_INTERVAL_MS >= 1
  /\ REMOTE_ID_CLEANUP_MS \in Nat /\ TaskDelay \in Nat /\ TaskDelay >= 1
  /\ OldAge \in Nat /\ OldAge > REMOTE_ID_CLEANUP_MS + BLE_SCAN_INTERVAL_MS + MaxLag
  /\ NoName \in Names /\ 0 \in Ages
  /\ Ages = 0..OldAge /\ 0 \in Slots
BY RemoteIdAssumption DEF OldAge, Names, Ages, Slots

LEMMA NoDroneOK == NoDrone \in Drone /\ Idle.drone = NoDrone /\ Idle.step = "idle"
                   /\ Idle.idx = 0
BY Numbers DEF NoDrone, Drone, Idle, Places

\* Entries grow older, and nothing else changes in them.
LEMMA OlderDrone ==
  ASSUME NEW d \in Drone
  PROVE  /\ [d EXCEPT !.age = Older(@)] \in Drone
         /\ [d EXCEPT !.age = Older(@)].uasID = d.uasID
         /\ [d EXCEPT !.age = Older(@)].latitude = d.latitude
         /\ [d EXCEPT !.age = Older(@)].longitude = d.longitude
         /\ [d EXCEPT !.age = Older(@)].age = Older(d.age)
         /\ Older(d.age) \in Ages /\ d.age \in Ages
<1>1. d.age \in Ages
  BY DEF Drone
<1>2. Older(d.age) \in Ages
  BY <1>1, Numbers DEF Older
<1> QED
  BY <1>1, <1>2 DEF Drone

\* A message names an aircraft or places one, not both.
LEMMA MessageFacts ==
  ASSUME NEW d \in Messages
  PROVE  /\ d \in Drone /\ d.age = 0
         /\ d.uasID # NoName => d.latitude = "zero" /\ d.longitude = "zero"
<1>1. ASSUME NEW id \in Names, NEW lat \in Places, NEW lon \in Places,
             NEW valid \in BOOLEAN
      PROVE  /\ Heard(id, lat, lon, valid) \in Drone
             /\ Heard(id, lat, lon, valid).age = 0
             /\ Heard(id, lat, lon, valid).uasID = id
             /\ Heard(id, lat, lon, valid).latitude = lat
             /\ Heard(id, lat, lon, valid).longitude = lon
  BY Numbers DEF Heard, Drone
<1>2. "zero" \in Places /\ NoName \in Names
  BY Numbers DEF Places
<1>3. ASSUME NEW id \in Names, NEW t \in 0..1, d = parseBasicIDMessage(id, t)
      PROVE  /\ d \in Drone /\ d.age = 0
             /\ d.latitude = "zero" /\ d.longitude = "zero"
  <2> DEFINE valid == t > 0 /\ id # NoName
  <2>1. valid \in BOOLEAN /\ d = Heard(id, "zero", "zero", valid)
    BY <1>3 DEF parseBasicIDMessage
  <2> HIDE DEF valid
  <2> QED
    BY <1>1, <1>2, <2>1
<1>4. ASSUME NEW lat \in Places, NEW lon \in Places,
             d = parseLocationMessage(lat, lon)
      PROVE  d \in Drone /\ d.age = 0 /\ d.uasID = NoName
  <2> DEFINE valid == lat # "zero" /\ lon # "zero"
  <2>1. valid \in BOOLEAN /\ d = Heard(NoName, lat, lon, valid)
    BY <1>4 DEF parseLocationMessage
  <2> HIDE DEF valid
  <2> QED
    BY <1>1, <1>2, <2>1
<1>5. CASE d \in {parseSystemMessage, parseOperatorIDMessage}
  <2> DEFINE valid == TRUE
  <2>1. valid \in BOOLEAN /\ d = Heard(NoName, "zero", "zero", valid)
    BY <1>5 DEF parseSystemMessage, parseOperatorIDMessage
  <2> HIDE DEF valid
  <2> QED
    BY <1>1, <1>2, <2>1
<1>6. CASE d \in {parseBasicIDMessage(id, t) : id \in Names, t \in 0..1}
  <2>1. PICK id \in Names, t \in 0..1 : d = parseBasicIDMessage(id, t)
    BY <1>6
  <2> QED
    BY <1>3, <2>1
<1>7. CASE d \in {parseLocationMessage(lat, lon) : lat, lon \in Places}
  <2>1. PICK lat \in Places, lon \in Places : d = parseLocationMessage(lat, lon)
    BY <1>7
  <2> QED
    BY <1>4, <2>1
<1> QED
  BY <1>5, <1>6, <1>7 DEF Messages

\* updateExisting() keeps the name and takes the age.
LEMMA UpdateFacts ==
  ASSUME NEW old \in Drone, NEW d \in Drone
  PROVE  /\ Update(old, d) \in Drone
         /\ Update(old, d).uasID = old.uasID /\ Update(old, d).age = d.age
         /\ old.latitude = "zero" /\ d.latitude = "zero"
              => Update(old, d).latitude = "zero"
         /\ old.longitude = "zero" /\ d.longitude = "zero"
              => Update(old, d).longitude = "zero"
BY DEF Update, Drone

LEMMA SafeInit == Init => Safe
<1> SUFFICES ASSUME Init PROVE Safe
  OBVIOUS
<1> USE Numbers, NoDroneOK DEF Init
<1>1. detectedDrones \in [Slots -> Drone] /\ droneCount \in 0..MAX_DETECTED_DRONES
  OBVIOUS
<1>2. sinceScan \in 0..BLE_SCAN_INTERVAL_MS /\ index \in 0..MAX_DETECTED_DRONES
      /\ count \in 0..MAX_DETECTED_DRONES /\ lag \in 0..MaxLag
      /\ delayLeft \in 0..TaskDelay /\ scanLeft \in 0..BLE_SCAN_INTERVAL_MS
      /\ writeIdx \in 0..MAX_DETECTED_DRONES
  OBVIOUS
<1>3. callback \in [step : {"idle", "update", "add", "count"},
                    drone : Drone, idx : Slots]
  BY DEF Idle
<1>4. Room
  BY <1>2 DEF Room
<1> QED
  BY <1>1, <1>2, <1>3, <1>4 DEF Safe, TypeOK

\* The types, one by one.
LEMMA SafeFacts ==
  ASSUME Safe
  PROVE  /\ detectedDrones \in [Slots -> Drone]
         /\ droneCount \in 0..MAX_DETECTED_DRONES
         /\ index \in 0..MAX_DETECTED_DRONES /\ writeIdx \in 0..MAX_DETECTED_DRONES
         /\ count \in 0..MAX_DETECTED_DRONES /\ lag \in 0..MaxLag
         /\ sinceScan \in 0..BLE_SCAN_INTERVAL_MS
         /\ scanLeft \in 0..BLE_SCAN_INTERVAL_MS /\ delayLeft \in 0..TaskDelay
         /\ callback.drone \in Drone /\ callback.idx \in Slots
         /\ Slots = 0..MAX_DETECTED_DRONES - 1 /\ MAX_DETECTED_DRONES \in Nat
         /\ \A i \in Slots : /\ detectedDrones[i] \in Drone
                             /\ detectedDrones[i].age \in 0..OldAge
<1>1. callback.drone \in Drone /\ callback.idx \in Slots
  BY DEF Safe, TypeOK
<1>2. \A i \in Slots : detectedDrones[i] \in Drone
  BY DEF Safe, TypeOK
<1>3. \A i \in Slots : detectedDrones[i].age \in 0..OldAge
  BY <1>2 DEF Drone, Ages
<1> QED
  BY <1>1, <1>2, <1>3, Numbers DEF Safe, TypeOK, Slots

LEMMA SafeNext == Safe /\ [Next]_vars => Safe'
<1> SUFFICES ASSUME Safe, [Next]_vars PROVE Safe'
  OBVIOUS
<1>0. /\ TypeOK /\ Room
      /\ droneCount \in 0..MAX_DETECTED_DRONES /\ MAX_DETECTED_DRONES \in Nat
      /\ index \in 0..MAX_DETECTED_DRONES /\ writeIdx \in 0..MAX_DETECTED_DRONES
      /\ detectedDrones \in [Slots -> Drone] /\ NoDrone \in Drone /\ 0 \in Slots
      /\ callback.drone \in Drone /\ callback.idx \in Slots
      /\ Slots = 0..MAX_DETECTED_DRONES - 1
  BY SafeFacts, Numbers, NoDroneOK DEF Safe
<1>a. /\ lag \in 0..MaxLag /\ MaxLag \in Nat
      /\ sinceScan \in 0..BLE_SCAN_INTERVAL_MS /\ BLE_SCAN_INTERVAL_MS \in Nat
      /\ scanLeft \in 0..BLE_SCAN_INTERVAL_MS
      /\ delayLeft \in 0..TaskDelay /\ TaskDelay \in Nat
  BY SafeFacts, Numbers
<1>b. callback = Idle => callback.step = "idle"
  BY NoDroneOK
<1>1. ASSUME NEW drone \in Messages, onResult(drone) PROVE Safe'
  <2>1. drone \in Drone
    BY <1>1, MessageFacts
  <2>2. /\ callback' \in [step : {"idle", "update", "add", "count"},
                          drone : Drone, idx : Slots]
        /\ callback'.step \in {"add", "count"} =>
             droneCount < MAX_DETECTED_DRONES /\ droneCount <= callback'.idx
    <3>1. ASSUME NEW i \in findDroneByID(drone.uasID),
                 callback' = [step |-> "update", drone |-> drone, idx |-> i]
          PROVE  /\ callback' \in [step : {"idle", "update", "add", "count"},
                                   drone : Drone, idx : Slots]
                 /\ callback'.step = "update"
      BY <1>0, <2>1, <3>1 DEF findDroneByID
    <3>2. CASE /\ droneCount < MAX_DETECTED_DRONES
               /\ callback' = [step |-> "add", drone |-> drone, idx |-> droneCount]
      BY <1>0, <2>1, <3>2
    <3> QED
      BY <1>1, <3>1, <3>2 DEF onResult
  <2>3. UNCHANGED <<detectedDrones, droneCount, sinceScan, taskPc, index, writeIdx,
                    count, lag, delayLeft, scanLeft, blocking>>
    BY <1>1 DEF onResult, task
  <2> QED
    BY <1>0, <2>2, <2>3 DEF Safe, TypeOK, Room
<1>2. CASE updateExisting
  <2>1. UNCHANGED <<droneCount, sinceScan, taskPc, index, writeIdx,
                    count, lag, delayLeft, scanLeft, blocking>> /\ callback' = Idle
    BY <1>2 DEF updateExisting, task
  <2>2. detectedDrones' \in [Slots -> Drone]
    BY <1>0, <1>2, UpdateFacts DEF updateExisting
  <2>3. callback' \in [step : {"idle", "update", "add", "count"},
                       drone : Drone, idx : Slots]
    BY <1>0, <2>1 DEF Idle
  <2>4. callback'.step = "idle"
    BY <2>1, NoDroneOK
  <2> QED
    BY <1>0, <2>1, <2>2, <2>3, <2>4 DEF Safe, TypeOK, Room
<1>3. CASE addNew
  <2>1. UNCHANGED <<droneCount, sinceScan, taskPc, index, writeIdx,
                    count, lag, delayLeft, scanLeft, blocking>>
        /\ droneCount < MAX_DETECTED_DRONES
    BY <1>0, <1>3 DEF addNew, task, Room
  <2>2. PICK i \in {callback.idx, droneCount} :
          /\ detectedDrones' = [detectedDrones EXCEPT ![i] = callback.drone]
          /\ callback' = [callback EXCEPT !.step = "count", !.idx = i]
    BY <1>3 DEF addNew
  <2>3. i \in Slots /\ droneCount <= i
    BY <1>0, <1>3, <2>1 DEF Room, addNew
  <2>4. detectedDrones' \in [Slots -> Drone]
    BY <1>0, <2>2, <2>3
  <2>5. callback' \in [step : {"idle", "update", "add", "count"},
                       drone : Drone, idx : Slots]
    <3>1. callback \in [step : {"idle", "update", "add", "count"},
                        drone : Drone, idx : Slots]
      BY <1>0 DEF TypeOK
    <3> QED
      BY <2>2, <2>3, <3>1
  <2>6. callback'.idx = i
    <3>1. callback \in [step : {"idle", "update", "add", "count"},
                        drone : Drone, idx : Slots]
      BY <1>0 DEF TypeOK
    <3> QED
      BY <2>2, <3>1
  <2> QED
    BY <1>0, <2>1, <2>3, <2>4, <2>5, <2>6 DEF Safe, TypeOK, Room
<1>4. CASE countNew
  <2>1. UNCHANGED <<detectedDrones, sinceScan, taskPc, index, writeIdx,
                    count, lag, delayLeft, scanLeft, blocking>> /\ callback' = Idle
    BY <1>4 DEF countNew, task
  <2>2. droneCount < MAX_DETECTED_DRONES /\ droneCount <= callback.idx
    BY <1>0, <1>4 DEF countNew, Room
  <2>3. droneCount' \in 0..MAX_DETECTED_DRONES /\ droneCount' > droneCount
    <3>1. droneCount' \in {callback.idx + 1, droneCount + 1}
      BY <1>4 DEF countNew
    <3> QED
      BY ONLY <1>0, <2>2, <3>1
  <2>4. callback' \in [step : {"idle", "update", "add", "count"},
                       drone : Drone, idx : Slots]
    BY <1>0, <2>1 DEF Idle
  <2>5. taskPc = "clean" => index <= droneCount'
    BY <1>0, <2>3 DEF Room
  <2>6. callback'.step = "idle"
    BY <2>1, NoDroneOK
  <2> QED
    BY <1>0, <2>1, <2>3, <2>4, <2>5, <2>6 DEF Safe, TypeOK, Room
<1>5. CASE update
  BY <1>0, <1>a, <1>5 DEF update, Safe, TypeOK, Room
<1>6. CASE cleanupOldDetections
  <2>1. UNCHANGED <<droneCount, sinceScan, taskPc, count, lag, delayLeft,
                    scanLeft, callback, blocking>>
        /\ taskPc = "clean" /\ index' = index + 1 /\ index < droneCount
        /\ writeIdx <= index
    BY <1>0, <1>6 DEF cleanupOldDetections, Room
  <2>2. detectedDrones' \in [Slots -> Drone] /\ writeIdx' \in {writeIdx, writeIdx + 1}
    <3>1. index \in Slots /\ writeIdx \in Slots
      BY <1>0, <2>1
    <3> QED
      BY <1>0, <1>6, <3>1 DEF cleanupOldDetections, Keep
  <2>3. /\ index' \in 0..MAX_DETECTED_DRONES /\ writeIdx' \in 0..MAX_DETECTED_DRONES
        /\ writeIdx' <= index' /\ index' <= droneCount
    <3>1. index' = index + 1 /\ index < droneCount /\ writeIdx <= index
      BY <2>1
    <3> QED
      BY ONLY <1>0, <2>2, <3>1
  <2> QED
    BY <1>0, <2>1, <2>2, <2>3 DEF Safe, TypeOK, Room
<1>7. CASE startScan
  <2>1. writeIdx <= droneCount
    BY <1>0, <1>7 DEF startScan, Room
  <2>2. /\ droneCount' = writeIdx /\ scanLeft' \in 0..BLE_SCAN_INTERVAL_MS
        /\ taskPc' = "scan" /\ index' = 0 /\ writeIdx' = 0 /\ lag' = 0
        /\ UNCHANGED <<detectedDrones, sinceScan, count, delayLeft, callback,
                       blocking>>
    BY <1>7, <1>a DEF startScan
  <2>3. \/ droneCount' < MAX_DETECTED_DRONES /\ droneCount' <= callback.idx
        \/ callback.step \notin {"add", "count"}
    BY <1>0, <2>1, <2>2 DEF Room
  <2> QED
    BY <1>0, <1>a, <2>2, <2>3 DEF Safe, TypeOK, Room
<1>8. CASE getDetectedDroneCount
  BY <1>0, <1>8 DEF getDetectedDroneCount, Safe, TypeOK, Room
<1>9. CASE report
  BY <1>0, <1>a, <1>9 DEF report, Safe, TypeOK, Room
<1>10. CASE wake
  BY <1>0, <1>10 DEF wake, Safe, TypeOK, Room
<1>11. CASE Tick
  <2>1. UNCHANGED <<droneCount, taskPc, index, writeIdx, count, callback, blocking>>
    BY <1>11 DEF Tick
  <2>2. detectedDrones' \in [Slots -> Drone]
    BY <1>0, <1>11, OlderDrone DEF Tick
  <2>3. lag' \in 0..MaxLag /\ (taskPc # "clean" => lag' = lag)
    BY <1>a, <1>11 DEF Tick
  <2>4. /\ sinceScan' \in 0..BLE_SCAN_INTERVAL_MS
        /\ delayLeft' \in 0..TaskDelay /\ scanLeft' \in 0..BLE_SCAN_INTERVAL_MS
    BY <1>a, <1>11 DEF Tick, Less
  <2> QED
    BY <1>0, <1>a, <2>1, <2>2, <2>3, <2>4 DEF Safe, TypeOK, Room
<1>12. CASE UNCHANGED vars
  BY <1>0, <1>12 DEF vars, task, Safe, TypeOK, Room
<1> QED
  BY <1>1, <1>2, <1>3, <1>4, <1>5, <1>6, <1>7, <1>8, <1>9, <1>10, <1>11, <1>12
     DEF Next, Task, Callback

\* The table never overflows, whether the scan blocks or not.
THEOREM TypesHold == Spec => []TypeOK
<1>1. Safe => TypeOK
  BY DEF Safe
<1> QED
  BY <1>1, SafeInit, SafeNext, PTL DEF Spec

-----------------------------------------------------------------------------
(* Behind a scan that blocks.                                              *)

\* The callback runs only while the task waits.
Alone == scanLeft > 0 \/ callback.step # "idle" => taskPc = "scan"

NotPlaced(d) ==
  d.uasID # NoName => d.latitude = "zero" /\ d.longitude = "zero"

Unplaced ==
  /\ \A i \in Slots : NotPlaced(detectedDrones[i])
  /\ callback.step # "idle" => NotPlaced(callback.drone)

\* What the callback found is still so when it writes.
Pending ==
  /\ callback.step = "update" =>
       /\ callback.idx < droneCount
       /\ detectedDrones[callback.idx].uasID = callback.drone.uasID
  /\ callback.step \in {"add", "count"} =>
       /\ callback.idx = droneCount
       /\ \A i \in Slots : i < droneCount =>
            detectedDrones[i].uasID # callback.drone.uasID
  /\ callback.step = "count" =>
       detectedDrones[callback.idx].uasID = callback.drone.uasID

Apart ==
  \A i, j \in Slots :
    Live(i) /\ Live(j) /\ detectedDrones[i].uasID = detectedDrones[j].uasID
    => i = j

Aged == taskPc = "clean" => \A i \in Slots : detectedDrones[i].age >= lag

\* An entry the cleanup leaves behind is too old or has been moved up.
Silent(i) == detectedDrones[i].age > REMOTE_ID_CLEANUP_MS
Moved(i) ==
  \E j \in Slots : /\ j < writeIdx
                   /\ detectedDrones[j].uasID = detectedDrones[i].uasID
Leftover ==
  taskPc = "clean" =>
    \A i \in Slots : writeIdx <= i /\ i < index => Silent(i) \/ Moved(i)

Blocked == Alone /\ Unplaced /\ Pending /\ Apart /\ Aged /\ Leftover

LEMMA BlockedInit == Init /\ Safe => Blocked
<1> SUFFICES ASSUME Init, Safe PROVE Blocked
  OBVIOUS
<1>1. \A i \in Slots : detectedDrones[i] = NoDrone
  BY DEF Init
<1>2. NoDrone.uasID = NoName
  BY DEF NoDrone
<1>3. callback.step = "idle" /\ droneCount = 0 /\ scanLeft = 0 /\ taskPc = "update"
  BY NoDroneOK DEF Init
<1>4. \A i \in Slots : ~Live(i)
  BY <1>3, SafeFacts DEF Live
<1> QED
  BY <1>1, <1>2, <1>3, <1>4
     DEF Blocked, Alone, Unplaced, NotPlaced, Pending, Apart, Aged, Leftover

\* A message has arrived: it is looked up, and the table stays as it is.
LEMMA BlockedResult ==
  ASSUME Safe, Blocked, NEW drone \in Messages, onResult(drone), blocking
  PROVE  Blocked'
<1>1. /\ taskPc = "scan" /\ callback.step = "idle"
      /\ UNCHANGED <<detectedDrones, droneCount, taskPc, index, writeIdx, lag,
                     scanLeft>>
  BY NoDroneOK DEF onResult, task, Blocked, Alone
<1>2. NotPlaced(drone) /\ drone \in Drone
  BY MessageFacts DEF NotPlaced
<1>3. CASE \E i \in findDroneByID(drone.uasID) :
             callback' = [step |-> "update", drone |-> drone, idx |-> i]
  BY <1>1, <1>2, <1>3 DEF findDroneByID, Blocked, Alone, Unplaced, NotPlaced,
     Pending, Apart, Live, Aged, Leftover
<1>4. CASE /\ findDroneByID(drone.uasID) = {}
           /\ callback' = [step |-> "add", drone |-> drone, idx |-> droneCount]
  <2>1. \A i \in Slots : i < droneCount => detectedDrones[i].uasID # drone.uasID
    BY <1>4 DEF findDroneByID
  <2> QED
    BY <1>1, <1>2, <1>4, <2>1 DEF Blocked, Alone, Unplaced, NotPlaced,
       Pending, Apart, Live, Aged, Leftover
<1> QED
  BY <1>1, <1>3, <1>4 DEF onResult

LEMMA BlockedCallback ==
  ASSUME Safe, Blocked, Callback, blocking
  PROVE  Blocked'
<1>1. /\ taskPc = "scan"
      /\ UNCHANGED <<taskPc, index, writeIdx, lag, scanLeft>>
  BY NoDroneOK DEF Callback, updateExisting, addNew, countNew, task, Blocked, Alone
<1>2. /\ callback.idx \in Slots /\ detectedDrones \in [Slots -> Drone]
      /\ callback.drone \in Drone /\ droneCount \in 0..MAX_DETECTED_DRONES
      /\ Slots = 0..MAX_DETECTED_DRONES - 1 /\ MAX_DETECTED_DRONES \in Nat
      /\ Idle.step = "idle"
      /\ callback \in [step : {"idle", "update", "add", "count"},
                       drone : Drone, idx : Slots]
  BY SafeFacts, NoDroneOK DEF Safe, TypeOK
<1>3. Alone' /\ Aged' /\ Leftover'
  BY <1>1 DEF Alone, Aged, Leftover
<1>4. CASE updateExisting
  <2>1. callback'.step = "idle" /\ droneCount' = droneCount
    BY <1>2, <1>4 DEF updateExisting
  <2>2. /\ callback.idx < droneCount /\ NotPlaced(callback.drone)
        /\ detectedDrones[callback.idx].uasID = callback.drone.uasID
        /\ NotPlaced(detectedDrones[callback.idx])
    BY <1>2, <1>4 DEF updateExisting, Blocked, Pending, Unplaced
  <2>3. \A i \in Slots : detectedDrones'[i] =
          IF i = callback.idx THEN Update(detectedDrones[i], callback.drone)
                              ELSE detectedDrones[i]
    BY <1>2, <1>4 DEF updateExisting
  <2>4. \A i \in Slots : detectedDrones'[i].uasID = detectedDrones[i].uasID
    BY <1>2, <2>3, UpdateFacts
  <2>5. \A i \in Slots : NotPlaced(detectedDrones'[i])
    <3>1. NotPlaced(Update(detectedDrones[callback.idx], callback.drone))
      BY <1>2, <2>2, UpdateFacts DEF NotPlaced
    <3> QED
      BY <2>3, <3>1 DEF Blocked, Unplaced
  <2>6. Apart'
    BY <1>1, <2>1, <2>4 DEF Blocked, Apart, Live
  <2> QED
    BY <1>3, <2>1, <2>5, <2>6 DEF Blocked, Pending, Unplaced, NotPlaced
<1>5. CASE addNew
  <2>1. callback.idx = droneCount /\ NotPlaced(callback.drone)
        /\ \A i \in Slots : i < droneCount =>
             detectedDrones[i].uasID # callback.drone.uasID
    BY <1>5 DEF addNew, Blocked, Pending, Unplaced
  <2>2. /\ detectedDrones' =
             [detectedDrones EXCEPT ![callback.idx] = callback.drone]
        /\ callback' = [callback EXCEPT !.step = "count", !.idx = callback.idx]
        /\ droneCount' = droneCount
    BY <1>5, <2>1 DEF addNew
  <2>3. callback'.step = "count" /\ callback'.idx = callback.idx
        /\ callback'.drone = callback.drone
    BY <1>2, <2>2
  <2>4. \A i \in Slots : detectedDrones'[i] =
          IF i = callback.idx THEN callback.drone ELSE detectedDrones[i]
    BY <1>2, <2>2
  <2>5. \A i \in Slots : i < droneCount => detectedDrones'[i] = detectedDrones[i]
    BY <1>2, <2>1, <2>4
  <2>6. Unplaced'
    BY <2>1, <2>3, <2>4 DEF Blocked, Unplaced, NotPlaced
  <2>7. Pending'
    BY <1>2, <2>1, <2>2, <2>3, <2>4, <2>5 DEF Pending
  <2>8. Apart'
    BY <1>1, <2>2, <2>5 DEF Blocked, Apart, Live
  <2> QED
    BY <1>3, <2>6, <2>7, <2>8 DEF Blocked
<1>6. CASE countNew
  <2>1. /\ callback.idx = droneCount
        /\ \A i \in Slots : i < droneCount =>
             detectedDrones[i].uasID # callback.drone.uasID
        /\ detectedDrones[callback.idx].uasID = callback.drone.uasID
    BY <1>6 DEF countNew, Blocked, Pending
  <2>2. /\ droneCount' = droneCount + 1 /\ detectedDrones' = detectedDrones
        /\ callback'.step = "idle"
    BY <1>2, <1>6, <2>1 DEF countNew
  <2>3. \A i \in Slots : i < droneCount' => i < droneCount \/ i = callback.idx
    BY <1>2, <2>1, <2>2
  <2>4. Apart'
    <3>1. \A i \in Slots : Live(i)' => i < droneCount \/ i = callback.idx
      BY <2>3 DEF Live
    <3>2. \A i \in Slots : i < droneCount => Live(i)
      BY <1>1 DEF Live
    <3> QED
      BY <2>1, <2>2, <3>1, <3>2 DEF Blocked, Apart
  <2> QED
    BY <1>3, <2>2, <2>4 DEF Blocked, Unplaced, Pending
<1> QED
  BY <1>4, <1>5, <1>6 DEF Callback

\* The cleanup moves one entry up, or passes over it.
LEMMA BlockedCleanup ==
  ASSUME Safe, Blocked, cleanupOldDetections, blocking
  PROVE  Blocked'
<1>1. /\ taskPc = "clean" /\ index < droneCount /\ index' = index + 1
      /\ UNCHANGED <<droneCount, taskPc, lag, scanLeft, callback>>
      /\ callback.step = "idle" /\ writeIdx <= index
  BY DEF cleanupOldDetections, Blocked, Alone, Safe, Room
<1>2. /\ index \in Slots /\ writeIdx \in Slots /\ index \in Nat /\ writeIdx \in Nat
      /\ lag \in Nat /\ droneCount \in Nat /\ detectedDrones \in [Slots -> Drone]
      /\ Slots \subseteq Nat
      /\ \A i \in Slots : detectedDrones[i].age \in Nat
  <2>1. /\ droneCount \in 0..MAX_DETECTED_DRONES /\ index \in 0..MAX_DETECTED_DRONES
        /\ writeIdx \in 0..MAX_DETECTED_DRONES /\ lag \in 0..MaxLag
        /\ Slots = 0..MAX_DETECTED_DRONES - 1 /\ MAX_DETECTED_DRONES \in Nat
        /\ MaxLag \in Nat /\ OldAge \in Nat
    BY SafeFacts, Numbers
  <2>2. index < droneCount /\ writeIdx <= index
    BY <1>1
  <2>3. \A i \in Slots : detectedDrones[i].age \in 0..OldAge
    BY SafeFacts
  <2>4. \A i \in Slots : detectedDrones[i].age \in Nat
    BY <2>1, <2>3
  <2>5. /\ index \in Slots /\ writeIdx \in Slots /\ index \in Nat /\ writeIdx \in Nat
        /\ lag \in Nat /\ droneCount \in Nat /\ Slots \subseteq Nat
    BY ONLY <2>1, <2>2
  <2> QED
    BY <2>4, <2>5, SafeFacts
<1>3. Alone' /\ Pending'
  BY <1>1 DEF Alone, Pending, Blocked
<1>4. CASE Recent(index)
  <2>1. /\ writeIdx' = writeIdx + 1
        /\ \A i \in Slots : detectedDrones'[i] =
             IF i = writeIdx THEN detectedDrones[index] ELSE detectedDrones[i]
    BY <1>2, <1>4 DEF cleanupOldDetections, Keep
  <2>2. Unplaced'
    BY <1>1, <1>2, <2>1 DEF Blocked, Unplaced, NotPlaced
  <2>3. Aged'
    BY <1>1, <1>2, <2>1 DEF Blocked, Aged
  <2>4. Apart'
    <3> DEFINE from(i) == IF i = writeIdx THEN index ELSE i
    <3>1. \A i \in Slots : /\ detectedDrones'[i] = detectedDrones[from(i)]
                           /\ Live(i)' => Live(from(i)) /\ from(i) \in Slots
      BY <1>1, <1>2, <2>1 DEF Live
    <3>2. \A i, j \in Slots : Live(i)' /\ Live(j)' /\ from(i) = from(j) => i = j
      BY <1>1, <1>2, <2>1 DEF Live
    <3> HIDE DEF from
    <3> QED
      BY <3>1, <3>2 DEF Blocked, Apart
  <2>5. Leftover'
    <3> SUFFICES ASSUME NEW i \in Slots, writeIdx' <= i, i < index'
                 PROVE  Silent(i)' \/ Moved(i)'
      BY DEF Leftover
    <3>1. detectedDrones'[i] = detectedDrones[i] /\ i \in Nat
      BY <1>2, <2>1
    <3>2. CASE i = index
      <4>1. writeIdx < writeIdx' /\ detectedDrones'[writeIdx].uasID
                                      = detectedDrones'[i].uasID
        BY <1>2, <2>1, <3>1, <3>2
      <4> QED
        BY <1>2, <4>1 DEF Moved
    <3>3. CASE i # index
      <4>1. writeIdx <= i /\ i < index
        BY <1>1, <1>2, <2>1, <3>1, <3>3
      <4>2. Silent(i) \/ Moved(i)
        BY <1>1, <4>1 DEF Blocked, Leftover
      <4>3. CASE Silent(i)
        BY <3>1, <4>3 DEF Silent
      <4>4. CASE Moved(i)
        <5>1. PICK j \in Slots : /\ j < writeIdx
                                 /\ detectedDrones[j].uasID = detectedDrones[i].uasID
          BY <4>4 DEF Moved
        <5>2. j < writeIdx' /\ detectedDrones'[j] = detectedDrones[j]
          BY <1>2, <2>1, <5>1
        <5> QED
          BY <3>1, <5>1, <5>2 DEF Moved
      <4> QED
        BY <4>2, <4>3, <4>4
    <3> QED
      BY <3>2, <3>3
  <2> QED
    BY <1>3, <2>2, <2>3, <2>4, <2>5 DEF Blocked
<1>5. CASE ~Recent(index)
  <2>1. writeIdx' = writeIdx /\ detectedDrones' = detectedDrones
    BY <1>5 DEF cleanupOldDetections, Keep
  <2>2. Silent(index)
    <3>1. detectedDrones[index].age >= lag
      BY <1>1, <1>2 DEF Blocked, Aged
    <3> QED
      BY <1>2, <1>5, <3>1, Numbers DEF Recent, Silent
  <2>3. Leftover'
    <3>1. \A i \in Slots : i < index' => i < index \/ i = index
      BY <1>1, <1>2
    <3> QED
      BY <1>1, <2>1, <2>2, <3>1 DEF Blocked, Leftover, Silent, Moved
  <2>4. Apart'
    <3>1. \A i \in Slots : Live(i)' => Live(i)
      BY <1>1, <1>2, <2>1 DEF Live
    <3> QED
      BY <2>1, <3>1 DEF Blocked, Apart
  <2> QED
    BY <1>1, <1>3, <2>1, <2>3, <2>4 DEF Blocked, Unplaced, Aged
<1> QED
  BY <1>4, <1>5

LEMMA BlockedTask ==
  ASSUME Safe, Blocked, blocking,
         update \/ startScan \/ getDetectedDroneCount \/ report \/ wake
  PROVE  Blocked'
<1>1. UNCHANGED <<detectedDrones, callback>>
  BY DEF update, startScan, getDetectedDroneCount, report, wake
<1>2. Unplaced'
  BY <1>1 DEF Blocked, Unplaced
<1>3. CASE update
  <2>1. /\ callback.step = "idle" /\ ~(scanLeft > 0) /\ lag = 0 /\ index = 0
        /\ writeIdx = 0 /\ UNCHANGED <<droneCount, writeIdx, lag, scanLeft, index>>
        /\ taskPc' \in {"report", "clean"} /\ taskPc = "update"
    BY <1>3 DEF update, Blocked, Alone, Safe, Room
  <2>2. \A i \in Slots : i \in Nat /\ detectedDrones[i].age \in Nat
    BY SafeFacts, Numbers
  <2>3. Aged' /\ Leftover'
    BY <1>1, <2>1, <2>2 DEF Aged, Leftover
  <2>4. Apart'
    BY <1>1, <2>1, <2>2 DEF Blocked, Apart, Live
  <2> QED
    BY <1>1, <1>2, <2>1, <2>3, <2>4 DEF Blocked, Alone, Pending
<1>4. CASE startScan
  <2>1. /\ callback.step = "idle" /\ droneCount' = writeIdx /\ taskPc' = "scan"
        /\ taskPc = "clean" /\ writeIdx <= droneCount
        /\ writeIdx \in Nat /\ droneCount \in Nat
    BY <1>4, SafeFacts, Numbers DEF startScan, Blocked, Alone, Safe, Room
  <2>2. \A i \in Slots : Live(i)' => Live(i)
    BY <2>1, SafeFacts DEF Live
  <2>3. Apart'
    BY <1>1, <2>2 DEF Blocked, Apart
  <2> QED
    BY <1>1, <1>2, <2>1, <2>3 DEF Blocked, Alone, Pending, Aged, Leftover
<1>5. CASE getDetectedDroneCount
  <2>1. callback.step = "idle" /\ ~(scanLeft' > 0)
        /\ UNCHANGED <<droneCount, index, writeIdx, lag>>
        /\ taskPc = "scan" /\ taskPc' = "report"
    BY <1>5, NoDroneOK DEF getDetectedDroneCount
  <2> QED
    BY <1>1, <1>2, <2>1
       DEF Blocked, Alone, Pending, Apart, Live, Aged, Leftover
<1>6. CASE report \/ wake
  <2>1. callback.step = "idle" /\ ~(scanLeft' > 0)
        /\ UNCHANGED <<droneCount, writeIdx, lag>>
        /\ taskPc # "clean" /\ taskPc' # "clean"
    BY <1>6 DEF report, wake, Blocked, Alone
  <2> QED
    BY <1>1, <1>2, <2>1
       DEF Blocked, Alone, Pending, Apart, Live, Aged, Leftover
<1> QED
  BY <1>3, <1>4, <1>5, <1>6

LEMMA BlockedTick == ASSUME Safe, Blocked, Tick, blocking PROVE Blocked'
<1>1. /\ UNCHANGED <<droneCount, taskPc, index, writeIdx, callback>>
      /\ callback.step = "idle"
      /\ scanLeft' > 0 => scanLeft > 0
  BY SafeFacts, NoDroneOK DEF Tick, Less
<1>2. \A i \in Slots :
        /\ detectedDrones'[i].uasID = detectedDrones[i].uasID
        /\ detectedDrones'[i].latitude = detectedDrones[i].latitude
        /\ detectedDrones'[i].longitude = detectedDrones[i].longitude
        /\ detectedDrones'[i].age = Older(detectedDrones[i].age)
  BY SafeFacts, OlderDrone DEF Tick
<1>3. Unplaced' /\ Alone' /\ Pending' /\ Apart'
  BY <1>1, <1>2
     DEF Blocked, Unplaced, NotPlaced, Alone, Pending, Apart, Live
<1>4. \A i \in Slots : /\ detectedDrones[i].age \in 0..OldAge
                       /\ detectedDrones'[i].age >= detectedDrones[i].age
                       /\ detectedDrones'[i].age \in Nat
  <2> SUFFICES ASSUME NEW i \in Slots
               PROVE  /\ detectedDrones[i].age \in 0..OldAge
                      /\ detectedDrones'[i].age >= detectedDrones[i].age
                      /\ detectedDrones'[i].age \in Nat
    OBVIOUS
  <2> DEFINE a == detectedDrones[i].age
             b == detectedDrones'[i].age
  <2>1. a \in 0..OldAge /\ b = Older(a) /\ OldAge \in Nat
    BY <1>2, SafeFacts, Numbers
  <2>2. a \in 0..OldAge /\ b >= a /\ b \in Nat
    <3> HIDE DEF a, b
    <3> QED
      BY ONLY <2>1 DEF Older
  <2> QED
    BY <2>2
<1>5. Aged'
  <2> SUFFICES ASSUME taskPc = "clean", NEW i \in Slots
               PROVE  detectedDrones'[i].age >= lag'
    BY <1>1 DEF Aged
  <2>1. lag' \in {lag, lag + 1} /\ lag' <= MaxLag /\ lag \in Nat
    <3>1. lag \in 0..MaxLag /\ MaxLag \in Nat
      BY SafeFacts, Numbers
    <3>2. lag' = lag \/ (lag < MaxLag /\ lag' = lag + 1)
      BY DEF Tick
    <3> QED
      BY ONLY <3>1, <3>2
  <2>2. /\ detectedDrones[i].age >= lag /\ detectedDrones[i].age \in 0..OldAge
        /\ detectedDrones'[i].age = Older(detectedDrones[i].age)
    BY <1>2, <1>4 DEF Blocked, Aged
  <2> QED
    BY <2>1, <2>2, Numbers DEF Older
<1>6. Leftover'
  <2>1. \A i \in Slots : Silent(i) => Silent(i)'
    BY <1>4, Numbers DEF Silent
  <2>2. \A i \in Slots : Moved(i) => Moved(i)'
    BY <1>1, <1>2 DEF Moved
  <2> QED
    BY <1>1, <2>1, <2>2 DEF Blocked, Leftover
<1> QED
  BY <1>3, <1>5, <1>6 DEF Blocked

IInv == Safe /\ (blocking => Blocked)

LEMMA BlockedNext == IInv /\ [Next]_vars => IInv'
<1> SUFFICES ASSUME IInv, [Next]_vars PROVE IInv'
  OBVIOUS
<1>1. Safe /\ Safe'
  BY SafeNext DEF IInv
<1>2. blocking' = blocking
  BY DEF Next, onResult, Callback, updateExisting, addNew, countNew, Task, update,
     cleanupOldDetections, startScan, getDetectedDroneCount, report, wake, Tick,
     vars
<1>3. ASSUME blocking, Blocked PROVE Blocked'
  <2>1. CASE UNCHANGED vars
    BY <1>3, <2>1 DEF vars, task, Blocked, Alone, Unplaced, Pending, Apart, Live,
       Aged, Leftover, Silent, Moved
  <2> QED
    BY <1>1, <1>3, <2>1, BlockedResult, BlockedCallback, BlockedCleanup,
       BlockedTask, BlockedTick DEF Next, Task
<1> QED
  BY <1>1, <1>2, <1>3 DEF IInv

LEMMA Inductive == Spec => []IInv
<1>1. Init => IInv
  BY SafeInit, BlockedInit DEF IInv
<1> QED
  BY <1>1, BlockedNext, PTL DEF Spec

\* Every aircraft has at most one entry.
THEOREM OneEach == Spec => []OneEntryEach
<1>1. IInv => OneEntryEach
  BY SafeFacts DEF IInv, Blocked, Apart, Live, OneEntryEach, Listed
<1> QED
  BY <1>1, Inductive, PTL

\* No position is ever reported under a name.
THEOREM NamesHaveNoPlace == Spec => []NamedNotPlaced
<1>1. IInv => NamedNotPlaced
  BY DEF IInv, Blocked, Unplaced, NotPlaced, NamedNotPlaced, Listed
<1> QED
  BY <1>1, Inductive, PTL

\* An aircraft that is heard in time keeps its entry.
THEOREM LiveDoesStay == Spec => LiveStays
<1> DEFINE kept(i) ==
      \/ detectedDrones[i].age > REMOTE_ID_CLEANUP_MS
      \/ \E j \in Slots : j < droneCount'
           /\ detectedDrones'[j].uasID = detectedDrones[i].uasID
<1>1. ASSUME IInv, Next, blocking, NEW i \in Listed PROVE kept(i)
  <2>1. Safe /\ Blocked /\ i \in Slots /\ i < droneCount
    BY <1>1 DEF IInv, Listed
  <2>2. CASE /\ droneCount' = droneCount
             /\ detectedDrones'[i].uasID = detectedDrones[i].uasID
    BY <2>1, <2>2
  <2>3. CASE cleanupOldDetections
    <3>1. /\ droneCount' = droneCount /\ taskPc = "clean" /\ writeIdx <= index
          /\ index < droneCount
      BY <2>1, <2>3 DEF cleanupOldDetections, Safe, Room
    <3>2. index \in Slots /\ writeIdx \in Slots /\ detectedDrones \in [Slots -> Drone]
      BY <2>1, <3>1, SafeFacts
    <3>3. CASE i = writeIdx /\ i # index
      <4>1. Silent(i) \/ Moved(i)
        BY <2>1, <3>1, <3>2, <3>3, SafeFacts DEF Blocked, Leftover
      <4>2. CASE Moved(i)
        <5>1. PICK j \in Slots : /\ j < writeIdx
                                 /\ detectedDrones[j].uasID = detectedDrones[i].uasID
          BY <4>2 DEF Moved
        <5>2. j # writeIdx /\ j < droneCount
          BY <2>1, <3>1, <5>1, SafeFacts
        <5>3. detectedDrones'[j] = detectedDrones[j]
          BY <2>3, <3>2, <5>2 DEF cleanupOldDetections, Keep
        <5> QED
          BY <3>1, <5>1, <5>2, <5>3
      <4> QED
        BY <4>1, <4>2 DEF Silent
    <3>4. CASE ~(i = writeIdx /\ i # index)
      <4>1. detectedDrones'[i] = detectedDrones[i]
        BY <2>1, <2>3, <3>2, <3>4 DEF cleanupOldDetections, Keep
      <4> QED
        BY <2>1, <3>1, <4>1
    <3> QED
      BY <3>3, <3>4
  <2>4. CASE startScan
    <3>1. /\ droneCount' = writeIdx /\ detectedDrones' = detectedDrones
          /\ taskPc = "clean" /\ index >= droneCount
      BY <2>4 DEF startScan
    <3>2. CASE i < writeIdx
      BY <2>1, <3>1, <3>2
    <3>3. CASE ~(i < writeIdx)
      <4>1. Silent(i) \/ Moved(i)
        BY <2>1, <3>1, <3>3, SafeFacts DEF Blocked, Leftover
      <4> QED
        BY <3>1, <4>1 DEF Silent, Moved
    <3> QED
      BY <3>2, <3>3
  <2>5. CASE Tick
    BY <2>1, <2>2, <2>5, SafeFacts, OlderDrone DEF Tick
  <2>6. CASE updateExisting
    <3>1. detectedDrones'[i].uasID = detectedDrones[i].uasID
      BY <2>1, <2>6, SafeFacts, UpdateFacts DEF updateExisting
    <3> QED
      BY <2>1, <2>2, <2>6, <3>1, SafeFacts DEF updateExisting
  <2>7. CASE addNew
    <3>1. callback.idx = droneCount /\ droneCount' = droneCount
      BY <2>1, <2>7 DEF addNew, Blocked, Pending
    <3>2. detectedDrones'[i] = detectedDrones[i]
      BY <2>1, <2>7, <3>1, SafeFacts DEF addNew
    <3> QED
      BY <2>1, <3>1, <3>2
  <2>8. CASE countNew
    <3>1. droneCount' = droneCount + 1 /\ detectedDrones' = detectedDrones
      BY <2>1, <2>8 DEF countNew, Blocked, Pending
    <3> QED
      BY <2>1, <3>1, SafeFacts
  <2>9. CASE UNCHANGED <<detectedDrones, droneCount>>
    BY <2>1, <2>9
  <2> QED
    BY <1>1, <2>3, <2>4, <2>5, <2>6, <2>7, <2>8, <2>9
       DEF Next, Callback, Task, onResult, update, getDetectedDroneCount, report,
           wake
<1>2. ASSUME IInv, UNCHANGED vars, blocking, NEW i \in Listed PROVE kept(i)
  BY <1>2 DEF vars, Listed
<1>3. IInv /\ [Next]_vars => [blocking => \A i \in Listed : kept(i)]_vars
  BY <1>1, <1>2
<1> QED
  BY <1>3, Inductive, PTL DEF Spec, LiveStays

-----------------------------------------------------------------------------
(* How old what is reported can be.                                        *)

Within(n, bound) ==
  \A i \in Slots : i < n =>
    detectedDrones[i].age <= REMOTE_ID_CLEANUP_MS + bound

Fresh ==
  /\ taskPc # "clean" /\ sinceScan < BLE_SCAN_INTERVAL_MS =>
       Within(droneCount, sinceScan)
  /\ taskPc = "clean" =>
       /\ Within(writeIdx, lag)
       /\ sinceScan < BLE_SCAN_INTERVAL_MS => lag <= sinceScan
  /\ taskPc = "scan" =>
       Within(droneCount, MaxLag + BLE_SCAN_INTERVAL_MS - scanLeft)
  /\ taskPc = "report" => Within(droneCount, MaxLag + BLE_SCAN_INTERVAL_MS)
  /\ callback.step # "idle" => callback.drone.age = 0
  /\ callback.step = "count" => detectedDrones[callback.idx].age = 0

LEMMA WholeNumbers ==
  ASSUME Safe
  PROVE  /\ droneCount \in Nat /\ index \in Nat /\ writeIdx \in Nat /\ lag \in Nat
         /\ sinceScan \in Nat /\ sinceScan <= BLE_SCAN_INTERVAL_MS
         /\ scanLeft \in Nat /\ scanLeft <= BLE_SCAN_INTERVAL_MS
         /\ lag <= MaxLag /\ MaxLag \in Nat /\ BLE_SCAN_INTERVAL_MS \in Nat
         /\ REMOTE_ID_CLEANUP_MS \in Nat /\ Slots \subseteq Nat
<1>1. /\ droneCount \in 0..MAX_DETECTED_DRONES /\ index \in 0..MAX_DETECTED_DRONES
      /\ writeIdx \in 0..MAX_DETECTED_DRONES /\ lag \in 0..MaxLag
      /\ Slots = 0..MAX_DETECTED_DRONES - 1 /\ MAX_DETECTED_DRONES \in Nat
      /\ sinceScan \in 0..BLE_SCAN_INTERVAL_MS
      /\ scanLeft \in 0..BLE_SCAN_INTERVAL_MS
      /\ MaxLag \in Nat /\ BLE_SCAN_INTERVAL_MS \in Nat
      /\ REMOTE_ID_CLEANUP_MS \in Nat
  BY SafeFacts, Numbers
<1> QED
  BY ONLY <1>1

LEMMA FreshCallback ==
  ASSUME Safe, Blocked, Fresh, Callback, blocking
  PROVE  Fresh'
<1>1. /\ taskPc = "scan"
      /\ UNCHANGED <<taskPc, index, writeIdx, lag, scanLeft, sinceScan>>
  BY NoDroneOK DEF Callback, updateExisting, addNew, countNew, task, Blocked, Alone
<1>2. /\ callback.idx \in Slots /\ detectedDrones \in [Slots -> Drone]
      /\ callback.drone \in Drone /\ Idle.step = "idle"
      /\ callback \in [step : {"idle", "update", "add", "count"},
                       drone : Drone, idx : Slots]
  BY SafeFacts, NoDroneOK DEF Safe, TypeOK
<1>3. callback.drone.age = 0
  BY DEF Fresh, Callback, updateExisting, addNew, countNew
<1>4. ASSUME NEW bound \in Nat, Within(droneCount, bound)
      PROVE  Within(droneCount, bound)'
  <2>1. \A i \in Slots : i < droneCount' =>
          \/ i < droneCount /\ detectedDrones'[i] = detectedDrones[i]
          \/ detectedDrones'[i].age = 0
    <3>1. CASE updateExisting
      <4>1. \A i \in Slots : detectedDrones'[i] =
              IF i = callback.idx THEN Update(detectedDrones[i], callback.drone)
                                  ELSE detectedDrones[i]
        BY <1>2, <3>1 DEF updateExisting
      <4> QED
        BY <1>2, <1>3, <3>1, <4>1, UpdateFacts DEF updateExisting
    <3>2. CASE addNew
      <4>1. callback.idx = droneCount /\ droneCount' = droneCount
        BY <3>2 DEF addNew, Blocked, Pending
      <4> QED
        BY <1>2, <1>3, <3>2, <4>1 DEF addNew
    <3>3. CASE countNew
      <4>1. /\ callback.idx = droneCount /\ droneCount' = droneCount + 1
            /\ detectedDrones' = detectedDrones
            /\ detectedDrones[callback.idx].age = 0
        BY <3>3 DEF countNew, Blocked, Pending, Fresh
      <4>2. \A i \in Slots : i < droneCount + 1 => i < droneCount \/ i = droneCount
        BY WholeNumbers
      <4> QED
        BY <4>1, <4>2
    <3> QED
      BY <3>1, <3>2, <3>3 DEF Callback
  <2>2. 0 <= REMOTE_ID_CLEANUP_MS + bound
    BY Numbers
  <2> QED
    BY <1>4, <2>1, <2>2 DEF Within
<1>5. Within(droneCount, MaxLag + BLE_SCAN_INTERVAL_MS - scanLeft)'
  <2>1. /\ MaxLag + BLE_SCAN_INTERVAL_MS - scanLeft \in Nat
        /\ Within(droneCount, MaxLag + BLE_SCAN_INTERVAL_MS - scanLeft)
    BY <1>1, WholeNumbers DEF Fresh
  <2>2. \A i \in Slots : i < droneCount' => detectedDrones'[i].age
          <= REMOTE_ID_CLEANUP_MS + (MaxLag + BLE_SCAN_INTERVAL_MS - scanLeft)
    BY <1>4, <2>1 DEF Within
  <2> QED
    BY <1>1, <2>2 DEF Within
<1>6. sinceScan < BLE_SCAN_INTERVAL_MS => Within(droneCount, sinceScan)'
  <2>1. sinceScan \in Nat
    BY WholeNumbers
  <2>2. sinceScan < BLE_SCAN_INTERVAL_MS =>
          \A i \in Slots : i < droneCount' =>
            detectedDrones'[i].age <= REMOTE_ID_CLEANUP_MS + sinceScan
    BY <1>1, <1>4, <2>1 DEF Within, Fresh
  <2> QED
    BY <1>1, <2>2 DEF Within
<1>7. /\ callback'.step # "idle" => callback'.drone.age = 0
      /\ callback'.step = "count" => detectedDrones'[callback'.idx].age = 0
  <2>1. CASE updateExisting \/ countNew
    BY <1>2, <2>1 DEF updateExisting, countNew
  <2>2. CASE addNew
    <3>1. PICK i \in {callback.idx, droneCount} :
            /\ detectedDrones' = [detectedDrones EXCEPT ![i] = callback.drone]
            /\ callback' = [callback EXCEPT !.step = "count", !.idx = i]
      BY <2>2 DEF addNew
    <3>2. i = callback.idx
      BY <2>2, <3>1 DEF addNew, Blocked, Pending
    <3>3. callback'.drone = callback.drone /\ callback'.idx = i
      BY <1>2, <3>1
    <3>4. detectedDrones'[i] = callback.drone
      BY <1>2, <3>1, <3>2
    <3> QED
      BY <1>3, <3>3, <3>4
  <2> QED
    BY <2>1, <2>2 DEF Callback
<1> QED
  BY <1>1, <1>5, <1>6, <1>7 DEF Fresh

LEMMA FreshTask ==
  ASSUME Safe, Blocked, Fresh, blocking, Task
  PROVE  Fresh'
<1>0. /\ callback' = callback
      /\ taskPc # "scan" => callback.step = "idle"
  BY DEF Task, update, cleanupOldDetections, startScan, getDetectedDroneCount,
     report, wake, Blocked, Alone
<1>1. CASE update
  <2>1. /\ taskPc = "update" /\ writeIdx = 0 /\ lag = 0
        /\ UNCHANGED <<detectedDrones, droneCount, writeIdx, lag>>
        /\ \/ taskPc' = "report" /\ UNCHANGED sinceScan
              /\ sinceScan < BLE_SCAN_INTERVAL_MS
           \/ taskPc' = "clean" /\ sinceScan' = 0
    BY <1>1 DEF update, Safe, Room
  <2>2. CASE taskPc' = "clean"
    <3>1. \A i \in Slots : ~(i < 0)
      BY WholeNumbers
    <3> QED
      BY <1>0, <2>1, <2>2, <3>1, Numbers DEF Fresh, Within
  <2>3. CASE taskPc' = "report"
    <3>1. Within(droneCount, sinceScan) /\ sinceScan < BLE_SCAN_INTERVAL_MS
          /\ UNCHANGED sinceScan
      BY <2>1, <2>3 DEF Fresh
    <3>2. \A i \in Slots : i < droneCount =>
            detectedDrones[i].age <=
              REMOTE_ID_CLEANUP_MS + (MaxLag + BLE_SCAN_INTERVAL_MS)
      <4> SUFFICES ASSUME NEW i \in Slots, i < droneCount
                   PROVE  detectedDrones[i].age <=
                            REMOTE_ID_CLEANUP_MS + (MaxLag + BLE_SCAN_INTERVAL_MS)
        OBVIOUS
      <4>1. /\ detectedDrones[i].age <= REMOTE_ID_CLEANUP_MS + sinceScan
            /\ detectedDrones[i].age \in 0..OldAge
        BY <3>1, SafeFacts DEF Within
      <4> QED
        BY <3>1, <4>1, WholeNumbers, Numbers
    <3> QED
      BY <1>0, <2>1, <2>3, <3>1, <3>2 DEF Fresh, Within
  <2> QED
    BY <2>1, <2>2, <2>3
<1>2. CASE cleanupOldDetections
  <2>1. /\ UNCHANGED <<taskPc, lag, sinceScan>> /\ taskPc = "clean"
        /\ index < droneCount /\ writeIdx <= index /\ callback.step = "idle"
    BY <1>0, <1>2 DEF cleanupOldDetections, Safe, Room
  <2>2. Within(writeIdx, lag)'
    <3>1. index \in Slots /\ writeIdx \in Slots /\ detectedDrones \in [Slots -> Drone]
      BY <2>1, SafeFacts
    <3>2. CASE Recent(index)
      <4>1. /\ writeIdx' = writeIdx + 1
            /\ \A i \in Slots : detectedDrones'[i] =
                 IF i = writeIdx THEN detectedDrones[index] ELSE detectedDrones[i]
        BY <1>2, <3>1, <3>2 DEF cleanupOldDetections, Keep
      <4>2. detectedDrones[index].age <= REMOTE_ID_CLEANUP_MS + lag
        <5>1. detectedDrones[index].age \in 0..OldAge /\ OldAge \in Nat
          BY <3>1, SafeFacts, Numbers
        <5> QED
          BY <3>2, <5>1, WholeNumbers DEF Recent
      <4>3. \A i \in Slots : i < writeIdx + 1 => i < writeIdx \/ i = writeIdx
        BY WholeNumbers
      <4> QED
        BY <2>1, <4>1, <4>2, <4>3 DEF Fresh, Within
    <3>3. CASE ~Recent(index)
      BY <1>2, <2>1, <3>3 DEF cleanupOldDetections, Keep, Fresh, Within
    <3> QED
      BY <3>2, <3>3
  <2> QED
    BY <1>0, <2>1, <2>2 DEF Fresh
<1>3. CASE startScan
  <2>1. /\ droneCount' = writeIdx /\ taskPc = "clean" /\ taskPc' = "scan"
        /\ UNCHANGED <<detectedDrones, sinceScan>>
        /\ scanLeft' \in {0, BLE_SCAN_INTERVAL_MS} /\ callback.step = "idle"
    BY <1>0, <1>3 DEF startScan
  <2>2. \A i \in Slots : i < writeIdx =>
          /\ detectedDrones[i].age \in 0..OldAge /\ OldAge \in Nat
          /\ detectedDrones[i].age <= REMOTE_ID_CLEANUP_MS + lag
    BY <2>1, SafeFacts, Numbers DEF Fresh, Within
  <2>3. sinceScan < BLE_SCAN_INTERVAL_MS => lag <= sinceScan
    BY <2>1 DEF Fresh
  <2>4. \A i \in Slots : i < writeIdx =>
          /\ detectedDrones[i].age <= REMOTE_ID_CLEANUP_MS
                               + (MaxLag + BLE_SCAN_INTERVAL_MS - scanLeft')
          /\ sinceScan < BLE_SCAN_INTERVAL_MS =>
               detectedDrones[i].age <= REMOTE_ID_CLEANUP_MS + sinceScan
    <3> SUFFICES ASSUME NEW i \in Slots, i < writeIdx
                 PROVE  /\ detectedDrones[i].age <= REMOTE_ID_CLEANUP_MS
                               + (MaxLag + BLE_SCAN_INTERVAL_MS - scanLeft')
                        /\ sinceScan < BLE_SCAN_INTERVAL_MS =>
                             detectedDrones[i].age
                               <= REMOTE_ID_CLEANUP_MS + sinceScan
      OBVIOUS
    <3> DEFINE a == detectedDrones[i].age
    <3>1. a \in 0..OldAge /\ OldAge \in Nat /\ a <= REMOTE_ID_CLEANUP_MS + lag
      BY <2>2
    <3>2. scanLeft' = 0 \/ scanLeft' = BLE_SCAN_INTERVAL_MS
      BY <2>1
    <3> HIDE DEF a
    <3>3. /\ a <= REMOTE_ID_CLEANUP_MS + (MaxLag + BLE_SCAN_INTERVAL_MS - scanLeft')
          /\ sinceScan < BLE_SCAN_INTERVAL_MS =>
               a <= REMOTE_ID_CLEANUP_MS + sinceScan
      BY <2>3, <3>1, <3>2, WholeNumbers
    <3> QED
      BY <3>3 DEF a
  <2> QED
    BY <1>0, <2>1, <2>4 DEF Fresh, Within
<1>4. CASE getDetectedDroneCount
  <2>1. /\ taskPc = "scan" /\ taskPc' = "report" /\ scanLeft = 0
        /\ UNCHANGED <<detectedDrones, droneCount, sinceScan>>
        /\ callback.step = "idle"
    BY <1>4, NoDroneOK DEF getDetectedDroneCount
  <2>2. MaxLag + BLE_SCAN_INTERVAL_MS - 0 = MaxLag + BLE_SCAN_INTERVAL_MS
    BY WholeNumbers
  <2> QED
    BY <1>0, <2>1, <2>2 DEF Fresh, Within
<1>5. CASE report \/ wake
  <2>1. /\ taskPc \in {"report", "delay"} /\ taskPc' \in {"report", "delay", "update"}
        /\ taskPc' = "report" => taskPc = "report"
        /\ UNCHANGED <<detectedDrones, droneCount, sinceScan>>
        /\ callback.step = "idle"
    BY <1>0, <1>5 DEF report, wake
  <2> QED
    BY <1>0, <2>1 DEF Fresh, Within
<1> QED
  BY <1>1, <1>2, <1>3, <1>4, <1>5 DEF Task

LEMMA FreshTick == ASSUME Safe, Blocked, Fresh, Tick, blocking PROVE Fresh'
<1>1. /\ UNCHANGED <<droneCount, taskPc, writeIdx, callback>>
      /\ callback.step = "idle" /\ taskPc \in {"delay", "scan", "clean"}
  BY NoDroneOK DEF Tick
<1>2. ASSUME NEW n, NEW bound \in Nat, Within(n, bound)
      PROVE  \A i \in Slots : i < n =>
               detectedDrones'[i].age <= REMOTE_ID_CLEANUP_MS + (bound + 1)
  <2> SUFFICES ASSUME NEW i \in Slots, i < n
               PROVE  detectedDrones'[i].age <= REMOTE_ID_CLEANUP_MS + (bound + 1)
    OBVIOUS
  <2> DEFINE a == detectedDrones[i].age
             b == detectedDrones'[i].age
  <2>1. a \in 0..OldAge /\ OldAge \in Nat /\ a <= REMOTE_ID_CLEANUP_MS + bound
    BY <1>2, SafeFacts, Numbers DEF Within
  <2>2. b = Older(a)
    BY SafeFacts, OlderDrone DEF Tick
  <2> HIDE DEF a, b
  <2>3. b <= REMOTE_ID_CLEANUP_MS + (bound + 1)
    BY <2>1, <2>2, Numbers DEF Older
  <2> QED
    BY <2>3 DEF b
<1>3. taskPc # "clean" /\ sinceScan' < BLE_SCAN_INTERVAL_MS =>
        Within(droneCount, sinceScan)'
  <2> SUFFICES ASSUME taskPc # "clean", sinceScan' < BLE_SCAN_INTERVAL_MS
               PROVE  Within(droneCount, sinceScan)'
    OBVIOUS
  <2>1. sinceScan < BLE_SCAN_INTERVAL_MS /\ sinceScan' = sinceScan + 1
    BY WholeNumbers DEF Tick
  <2>2. Within(droneCount, sinceScan) /\ sinceScan \in Nat
    BY <2>1, WholeNumbers DEF Fresh
  <2>3. \A i \in Slots : i < droneCount =>
          detectedDrones'[i].age <= REMOTE_ID_CLEANUP_MS + (sinceScan + 1)
    BY <1>2, <2>2
  <2> QED
    BY <1>1, <2>1, <2>3 DEF Within
<1>4. taskPc = "clean" =>
        /\ Within(writeIdx, lag)'
        /\ sinceScan' < BLE_SCAN_INTERVAL_MS => lag' <= sinceScan'
  <2> SUFFICES ASSUME taskPc = "clean"
               PROVE  /\ Within(writeIdx, lag)'
                      /\ sinceScan' < BLE_SCAN_INTERVAL_MS => lag' <= sinceScan'
    OBVIOUS
  <2>1. /\ lag' = lag + 1 /\ Within(writeIdx, lag) /\ lag \in Nat
        /\ sinceScan < BLE_SCAN_INTERVAL_MS => lag <= sinceScan
    BY WholeNumbers DEF Tick, Fresh
  <2>2. \A i \in Slots : i < writeIdx =>
          detectedDrones'[i].age <= REMOTE_ID_CLEANUP_MS + (lag + 1)
    BY <1>2, <2>1
  <2>3. sinceScan' < BLE_SCAN_INTERVAL_MS =>
          sinceScan < BLE_SCAN_INTERVAL_MS /\ sinceScan' = sinceScan + 1
    BY WholeNumbers DEF Tick
  <2>4. sinceScan' < BLE_SCAN_INTERVAL_MS => lag' <= sinceScan'
    BY <2>1, <2>3, WholeNumbers
  <2> QED
    BY <1>1, <2>1, <2>2, <2>4 DEF Within
<1>5. taskPc = "scan" =>
        Within(droneCount, MaxLag + BLE_SCAN_INTERVAL_MS - scanLeft)'
  <2> SUFFICES ASSUME taskPc = "scan"
               PROVE  Within(droneCount, MaxLag + BLE_SCAN_INTERVAL_MS - scanLeft)'
    OBVIOUS
  <2> DEFINE bound == MaxLag + BLE_SCAN_INTERVAL_MS - scanLeft
  <2>1. scanLeft > 0 /\ scanLeft' = scanLeft - 1
    BY WholeNumbers DEF Tick, Less
  <2>2. bound \in Nat /\ MaxLag + BLE_SCAN_INTERVAL_MS - scanLeft' = bound + 1
    BY <2>1, WholeNumbers
  <2>3. Within(droneCount, bound)
    BY DEF Fresh
  <2> HIDE DEF bound
  <2>4. \A i \in Slots : i < droneCount =>
          detectedDrones'[i].age <= REMOTE_ID_CLEANUP_MS + (bound + 1)
    BY <1>2, <2>2, <2>3
  <2> QED
    BY <1>1, <2>2, <2>4 DEF Within
<1> QED
  BY <1>1, <1>3, <1>4, <1>5 DEF Fresh

LEMMA FreshNext ==
  ASSUME IInv, blocking => Fresh, [Next]_vars PROVE blocking' => Fresh'
<1>1. blocking' = blocking
  BY DEF Next, onResult, Callback, updateExisting, addNew, countNew, Task, update,
     cleanupOldDetections, startScan, getDetectedDroneCount, report, wake, Tick,
     vars
<1> SUFFICES ASSUME blocking, Fresh, Safe, Blocked PROVE Fresh'
  BY <1>1 DEF IInv
<1>2. ASSUME NEW drone \in Messages, onResult(drone) PROVE Fresh'
  <2>1. /\ UNCHANGED <<detectedDrones, droneCount, taskPc, writeIdx, lag,
                       scanLeft, sinceScan>>
        /\ callback'.drone = drone /\ callback'.step # "count"
    BY <1>2 DEF onResult, task
  <2> QED
    BY <2>1, MessageFacts DEF Fresh, Within
<1>3. CASE UNCHANGED vars
  BY <1>3 DEF vars, task, Fresh, Within
<1> QED
  BY <1>2, <1>3, FreshCallback, FreshTask, FreshTick DEF Next

LEMMA FreshInit == Init => Fresh
<1> SUFFICES ASSUME Init PROVE Fresh
  OBVIOUS
<1>1. callback.step = "idle" /\ droneCount = 0 /\ taskPc = "update"
  BY NoDroneOK DEF Init
<1>2. \A i \in Slots : ~(i < 0)
  BY SafeInit, SafeFacts
<1> QED
  BY <1>1, <1>2 DEF Fresh, Within

\* Nothing is reported that has been silent for longer than the timeout and
\* the scan that followed the cleanup.
THEOREM ReportsAreFresh == Spec => []ReportedFresh
<1>2. IInv /\ (blocking => Fresh) => ReportedFresh
  <2> SUFFICES ASSUME Safe, Fresh, blocking, Reporting
               PROVE  getDroneData(index).age <=
                        REMOTE_ID_CLEANUP_MS + BLE_SCAN_INTERVAL_MS + MaxLag
    BY DEF IInv, ReportedFresh
  <2>1. taskPc = "report" /\ Within(droneCount, MaxLag + BLE_SCAN_INTERVAL_MS)
    BY DEF Reporting, Fresh
  <2>2. index < droneCount
    BY DEF Reporting, getDroneData, NoDrone
  <2>3. /\ detectedDrones[index].age \in 0..OldAge /\ OldAge \in Nat
        /\ detectedDrones[index].age
             <= REMOTE_ID_CLEANUP_MS + (MaxLag + BLE_SCAN_INTERVAL_MS)
    BY <2>1, <2>2, SafeFacts, Numbers DEF Within
  <2>4. getDroneData(index).age = detectedDrones[index].age
    BY <2>2 DEF getDroneData
  <2> QED
    BY <2>3, <2>4, Numbers
<1> QED
  BY <1>2, FreshInit, FreshNext, Inductive, PTL DEF Spec
-----------------------------------------------------------------------------
(* Behind a blocking scan the array implements AircraftTable.              *)

TableVars == <<tableEntries, tableUsed>>

LEMMA EntriesAre ==
  ASSUME blocking
  PROVE  \A e : e \in tableEntries <=> \E i \in Slots : Live(i) /\ e = Entry(i)
BY DEF tableEntries

\* A step that keeps the live entries in their slots is a stutter.
LEMMA TableStutter ==
  ASSUME blocking, blocking', tableUsed' = tableUsed,
         \A i \in Slots : /\ Live(i)' <=> Live(i)
                          /\ Live(i) => Entry(i)' = Entry(i)
  PROVE  UNCHANGED TableVars
<1>1. \A e : e \in tableEntries' <=> \E i \in Slots : Live(i)' /\ e = Entry(i)'
  BY DEF tableEntries
<1>2. \A e : e \in tableEntries' <=> e \in tableEntries
  BY <1>1, EntriesAre
<1>3. tableEntries' = tableEntries
  BY <1>2
<1> QED
  BY <1>3 DEF TableVars

LEMMA TableResult ==
  ASSUME Safe, Blocked, NEW drone \in Messages, onResult(drone), blocking
  PROVE  UNCHANGED TableVars
<1>1. UNCHANGED <<detectedDrones, droneCount, taskPc, index, writeIdx, blocking>>
  BY DEF onResult, task
<1> QED
  BY <1>1 DEF TableVars, tableEntries, tableUsed, Live, Entry

\* The second step of an update renews the entry, the count adds one.
LEMMA TableCallback ==
  ASSUME Safe, Blocked, Fresh, Callback, blocking
  PROVE  \/ UNCHANGED TableVars
         \/ \E name \in Names : Table!Add(name) \/ Table!Renew(name)
<1>1. /\ taskPc = "scan" /\ blocking'
      /\ UNCHANGED <<taskPc, index, writeIdx, lag, scanLeft, sinceScan>>
  BY NoDroneOK DEF Callback, updateExisting, addNew, countNew, task, Blocked, Alone
<1>2. /\ callback.idx \in Slots /\ detectedDrones \in [Slots -> Drone]
      /\ callback.drone \in Drone /\ callback.drone.uasID \in Names
      /\ callback \in [step : {"idle", "update", "add", "count"},
                       drone : Drone, idx : Slots]
  BY SafeFacts, NoDroneOK DEF Safe, TypeOK, Drone
<1>3. callback.drone.age = 0
  BY DEF Fresh, Callback, updateExisting, addNew, countNew
<1>4. /\ \A i \in Slots : Live(i) <=> i < droneCount
      /\ \A i \in Slots : Live(i)' <=> i < droneCount'
      /\ tableUsed = droneCount /\ tableUsed' = droneCount'
  BY <1>1 DEF Live, tableUsed
<1>5. /\ \A e : e \in tableEntries <=> \E i \in Slots : i < droneCount /\ e = Entry(i)
      /\ \A e : e \in tableEntries'
                <=> \E i \in Slots : i < droneCount' /\ e = Entry(i)'
  BY <1>1, <1>4 DEF tableEntries
<1> DEFINE name == callback.drone.uasID
           new == [uasID |-> name, silence |-> 0]
<1>6. CASE updateExisting
  <2>0. PICK k \in Slots : k = callback.idx
    BY <1>2
  <2>1. /\ droneCount' = droneCount /\ k < droneCount
        /\ detectedDrones[k].uasID = name
    BY <1>6, <2>0 DEF updateExisting, Blocked, Pending
  <2>2. \A i \in Slots : detectedDrones'[i] =
          IF i = k THEN Update(detectedDrones[i], callback.drone)
                   ELSE detectedDrones[i]
    BY <1>2, <1>6, <2>0 DEF updateExisting
  <2>3. Entry(k)' = new
    <3>1. /\ detectedDrones'[k].uasID = detectedDrones[k].uasID
          /\ detectedDrones'[k].age = 0
      BY <1>2, <1>3, <2>2, UpdateFacts
    <3> QED
      BY <2>1, <3>1 DEF Entry
  <2>4. \A i \in Slots : i # k => Entry(i)' = Entry(i)
    BY <2>2 DEF Entry
  <2>5. \A i \in Slots : i < droneCount => (i = k <=> Entry(i).uasID = name)
    BY <1>2, <1>4, <2>1 DEF Blocked, Apart, Entry
  <2>6. ASSUME NEW e
        PROVE  e \in tableEntries'
                 <=> e \in {f \in tableEntries : f.uasID # name} \cup {new}
    <3>1. e \in tableEntries'
            <=> \E i \in Slots : i < droneCount /\ e = Entry(i)'
      BY <1>5, <2>1
    <3>2. (\E i \in Slots : i < droneCount /\ e = Entry(i)')
            <=> e = new \/ \E i \in Slots : i < droneCount /\ i # k /\ e = Entry(i)
      BY <2>1, <2>3, <2>4
    <3>3. (\E i \in Slots : i < droneCount /\ i # k /\ e = Entry(i))
            <=> e \in tableEntries /\ e.uasID # name
      BY <1>5, <2>5
    <3> QED
      BY <3>1, <3>2, <3>3
  <2>7. tableEntries' = {f \in tableEntries : f.uasID # name} \cup {new}
    BY <2>6
  <2>8. \E e \in tableEntries : e.uasID = name
    BY <1>5, <2>1, <2>5
  <2>9. Table!Renew(name)
    BY <1>4, <2>1, <2>7, <2>8
       DEF Table!Renew, Table!Known, Table!Others, Table!NewEntry
  <2> QED
    BY <1>2, <2>9
<1>7. CASE addNew
  <2>1. callback.idx = droneCount /\ droneCount' = droneCount
    BY <1>7 DEF addNew, Blocked, Pending
  <2>2. \A i \in Slots : detectedDrones'[i] =
          IF i = callback.idx THEN callback.drone ELSE detectedDrones[i]
    BY <1>2, <1>7, <2>1 DEF addNew
  <2>3. \A i \in Slots : i < droneCount => Entry(i)' = Entry(i)
    BY <1>2, <2>1, <2>2, WholeNumbers DEF Entry
  <2> QED
    BY <1>1, <1>4, <2>1, <2>3, TableStutter
<1>8. CASE countNew
  <2>1. /\ callback.idx = droneCount /\ droneCount' = droneCount + 1
        /\ detectedDrones' = detectedDrones
        /\ detectedDrones[callback.idx].uasID = name
        /\ detectedDrones[callback.idx].age = 0
        /\ \A i \in Slots : i < droneCount => detectedDrones[i].uasID # name
        /\ droneCount < MAX_DETECTED_DRONES
    BY <1>8 DEF countNew, Blocked, Pending, Fresh, Safe, Room
  <2>2. Entry(callback.idx) = new /\ \A i \in Slots : Entry(i)' = Entry(i)
    BY <2>1 DEF Entry
  <2>3. \A i \in Slots : i < droneCount' <=> i < droneCount \/ i = callback.idx
    BY <2>1, WholeNumbers
  <2>4. \A e : e \in tableEntries' <=> e \in tableEntries \cup {new}
    BY <1>2, <1>5, <2>2, <2>3
  <2>5. tableEntries' = tableEntries \cup {new}
    BY <2>4
  <2>6. ~\E e \in tableEntries : e.uasID = name
    BY <1>5, <2>1 DEF Entry
  <2>7. Table!Add(name)
    BY <1>4, <2>1, <2>5, <2>6 DEF Table!Add, Table!Known, Table!NewEntry
  <2> QED
    BY <1>2, <2>7
<1> QED
  BY <1>6, <1>7, <1>8 DEF Callback

\* The cleanup moves a live entry up, which the table does not see, or drops
\* one that has expired.
LEMMA TableCleanup ==
  ASSUME Safe, Blocked, cleanupOldDetections, blocking
  PROVE  UNCHANGED TableVars \/ \E e \in tableEntries : Table!Expire(e)
<1>1. /\ taskPc = "clean" /\ taskPc' = "clean" /\ index < droneCount
      /\ index' = index + 1 /\ droneCount' = droneCount /\ blocking'
      /\ writeIdx <= index
  BY DEF cleanupOldDetections, Safe, Room
<1>2. /\ index \in Slots /\ writeIdx \in Slots /\ Slots \subseteq Nat
      /\ index \in Nat /\ writeIdx \in Nat /\ droneCount \in Nat /\ lag \in Nat
      /\ detectedDrones \in [Slots -> Drone]
  <2>1. index < droneCount /\ writeIdx <= index
    BY <1>1
  <2> QED
    BY <2>1, SafeFacts, WholeNumbers
<1>3. /\ tableUsed = writeIdx + (droneCount - index)
      /\ tableUsed' = writeIdx' + (droneCount - (index + 1))
  BY <1>1 DEF tableUsed
<1>4. /\ \A i \in Slots : Live(i) <=> i < droneCount /\ (i < writeIdx \/ index <= i)
      /\ \A i \in Slots :
           Live(i)' <=> i < droneCount /\ (i < writeIdx' \/ index + 1 <= i)
  BY <1>1 DEF Live
<1>5. /\ \A e : e \in tableEntries <=> \E i \in Slots : Live(i) /\ e = Entry(i)
      /\ \A e : e \in tableEntries' <=> \E i \in Slots : Live(i)' /\ e = Entry(i)'
  BY <1>1 DEF tableEntries
<1>6. CASE Recent(index)
  <2>1. /\ writeIdx' = writeIdx + 1
        /\ \A i \in Slots : detectedDrones'[i] =
             IF i = writeIdx THEN detectedDrones[index] ELSE detectedDrones[i]
    BY <1>2, <1>6 DEF cleanupOldDetections, Keep
  <2>2. ASSUME NEW i \in Slots, Live(i)'
        PROVE  \E j \in Slots : Live(j) /\ Entry(j) = Entry(i)'
    <3>1. CASE i = writeIdx
      <4>1. Entry(i)' = Entry(index) /\ Live(index)
        BY <1>1, <1>2, <1>4, <2>1, <3>1 DEF Entry
      <4> QED
        BY <1>2, <4>1
    <3>2. CASE i # writeIdx
      <4>1. Entry(i)' = Entry(i) /\ Live(i)
        BY <1>1, <1>2, <1>4, <2>1, <2>2, <3>2 DEF Entry
      <4> QED
        BY <4>1
    <3> QED
      BY <3>1, <3>2
  <2>3. ASSUME NEW i \in Slots, Live(i)
        PROVE  \E j \in Slots : Live(j)' /\ Entry(j)' = Entry(i)
    <3>1. CASE i = index
      <4>1. PICK w \in Slots : w = writeIdx
        BY <1>2
      <4>2. Entry(w)' = Entry(i)
        BY <2>1, <3>1, <4>1 DEF Entry
      <4>3. Live(w)'
        BY <1>1, <1>2, <1>4, <2>1, <4>1
      <4> QED
        BY <4>2, <4>3
    <3>2. CASE i # index
      <4>1. i < droneCount /\ (i < writeIdx \/ index + 1 <= i)
        BY <1>2, <1>4, <2>3, <3>2
      <4>2. Live(i)'
        BY <1>2, <1>4, <2>1, <4>1
      <4>3. Entry(i)' = Entry(i)
        BY <1>1, <1>2, <2>1, <4>1 DEF Entry
      <4> QED
        BY <4>2, <4>3
    <3> QED
      BY <3>1, <3>2
  <2>4. \A e : e \in tableEntries' <=> e \in tableEntries
    BY <1>5, <2>2, <2>3
  <2>5. tableEntries' = tableEntries
    BY <2>4
  <2>6. tableUsed' = tableUsed
    BY <1>2, <1>3, <2>1
  <2> QED
    BY <2>5, <2>6 DEF TableVars
<1>7. CASE ~Recent(index)
  <2>1. writeIdx' = writeIdx /\ detectedDrones' = detectedDrones
    BY <1>7 DEF cleanupOldDetections, Keep
  <2>2. Silent(index)
    <3>1. detectedDrones[index].age >= lag /\ detectedDrones[index].age \in Nat
      <4>1. detectedDrones[index].age \in 0..OldAge
        BY <1>2, SafeFacts
      <4> QED
        BY <1>1, <1>2, <4>1, Numbers DEF Blocked, Aged
    <3> QED
      BY <1>2, <1>7, <3>1, Numbers DEF Recent, Silent
  <2>3. PICK k \in Slots : k = index
    BY <1>2
  <2> DEFINE name == detectedDrones[k].uasID
  <2>4. /\ Live(k) /\ Entry(k) \in tableEntries /\ Entry(k).uasID = name
        /\ Entry(k).silence > REMOTE_ID_CLEANUP_MS
    BY <1>1, <1>2, <1>4, <1>5, <2>2, <2>3 DEF Entry, Silent
  <2>5. \A i \in Slots : Live(i)' <=> Live(i) /\ i # k
    BY <1>1, <1>2, <1>4, <2>1, <2>3
  <2>6. \A i \in Slots : Live(i) => (i = k <=> Entry(i).uasID = name)
    BY <2>4 DEF Blocked, Apart, Entry
  <2>7. \A i \in Slots : Entry(i)' = Entry(i)
    BY <2>1 DEF Entry
  <2>8. \A e : e \in tableEntries' <=> e \in {f \in tableEntries : f.uasID # name}
    BY <1>5, <2>5, <2>6, <2>7
  <2>9. tableEntries' = {f \in tableEntries : f.uasID # name}
    BY <2>8
  <2>10. tableUsed' = tableUsed - 1
    BY <1>2, <1>3, <2>1
  <2>11. Table!Expire(Entry(k))
    BY <2>4, <2>9, <2>10 DEF Table!Expire, Table!Others
  <2> QED
    BY <2>4, <2>11
<1> QED
  BY <1>6, <1>7

\* The other steps of the task keep every live entry where it is.
LEMMA TableTask ==
  ASSUME Safe, Blocked, blocking,
         update \/ startScan \/ getDetectedDroneCount \/ report \/ wake
  PROVE  UNCHANGED TableVars
<1>0. UNCHANGED <<detectedDrones, blocking>>
  BY DEF update, startScan, getDetectedDroneCount, report, wake
<1>1. \A i \in Slots : i \in Nat /\ Entry(i)' = Entry(i)
  BY <1>0, WholeNumbers DEF Entry
<1>2. droneCount \in Nat /\ index \in Nat /\ writeIdx \in Nat
  BY SafeFacts, WholeNumbers
<1>3. CASE update
  <2>1. /\ taskPc = "update" /\ taskPc' \in {"report", "clean"} /\ index = 0
        /\ writeIdx = 0 /\ UNCHANGED <<droneCount, index, writeIdx>>
    BY <1>3 DEF update, Safe, Room
  <2>2. \A i \in Slots : Live(i)' <=> Live(i)
    BY <1>1, <2>1 DEF Live
  <2>3. tableUsed' = tableUsed
    BY <1>0, <1>2, <2>1 DEF tableUsed
  <2> QED
    BY <1>0, <1>1, <2>2, <2>3, TableStutter
<1>4. CASE startScan
  <2>1. /\ taskPc = "clean" /\ taskPc' = "scan" /\ droneCount' = writeIdx
        /\ index = droneCount /\ writeIdx <= droneCount
    BY <1>2, <1>4 DEF startScan, Safe, Room
  <2>2. \A i \in Slots : Live(i)' <=> Live(i)
    BY <1>1, <1>2, <2>1 DEF Live
  <2>3. tableUsed' = tableUsed
    BY <1>0, <1>2, <2>1 DEF tableUsed
  <2> QED
    BY <1>0, <1>1, <2>2, <2>3, TableStutter
<1>5. CASE getDetectedDroneCount \/ report \/ wake
  <2>1. taskPc # "clean" /\ taskPc' # "clean" /\ droneCount' = droneCount
    BY <1>5 DEF getDetectedDroneCount, report, wake
  <2>2. \A i \in Slots : Live(i)' <=> Live(i)
    BY <2>1 DEF Live
  <2>3. tableUsed' = tableUsed
    BY <1>0, <2>1 DEF tableUsed
  <2> QED
    BY <1>0, <1>1, <2>2, <2>3, TableStutter
<1> QED
  BY <1>3, <1>4, <1>5

LEMMA TableTick ==
  ASSUME Safe, Blocked, Tick, blocking
  PROVE  Table!Pass
<1>1. /\ UNCHANGED <<droneCount, taskPc, index, writeIdx>> /\ blocking'
      /\ detectedDrones' = [i \in Slots |->
                              [detectedDrones[i] EXCEPT !.age = Older(@)]]
  BY DEF Tick
<1>2. \A i \in Slots :
        /\ detectedDrones'[i].uasID = detectedDrones[i].uasID
        /\ detectedDrones'[i].age = Older(detectedDrones[i].age)
  BY <1>1, SafeFacts, OlderDrone
<1>3. \A i \in Slots : Entry(i)' = Table!Later(Entry(i))
  BY <1>2 DEF Entry, Table!Later, Older
<1>4. \A i \in Slots : Live(i)' <=> Live(i)
  BY <1>1 DEF Live
<1>5. /\ \A e : e \in tableEntries <=> \E i \in Slots : Live(i) /\ e = Entry(i)
      /\ \A e : e \in tableEntries' <=> \E i \in Slots : Live(i)' /\ e = Entry(i)'
  BY <1>1 DEF tableEntries
<1>6. \A e : e \in tableEntries' <=> e \in {Table!Later(f) : f \in tableEntries}
  BY <1>3, <1>4, <1>5
<1>7. tableEntries' = {Table!Later(f) : f \in tableEntries}
  BY <1>6
<1>8. tableUsed' = tableUsed
  BY <1>1 DEF tableUsed
<1> QED
  BY <1>7, <1>8 DEF Table!Pass

LEMMA TableStep ==
  ASSUME IInv, blocking => Fresh, [Next]_vars
  PROVE  [Table!Next]_TableVars
<1>1. blocking' = blocking
  BY DEF Next, onResult, Callback, updateExisting, addNew, countNew, Task, update,
     cleanupOldDetections, startScan, getDetectedDroneCount, report, wake, Tick,
     vars
<1>2. CASE ~blocking
  BY <1>1, <1>2 DEF TableVars, tableEntries, tableUsed
<1>3. CASE blocking
  <2>1. Safe /\ Blocked /\ Fresh
    BY <1>3 DEF IInv
  <2>2. ASSUME NEW drone \in Messages, onResult(drone)
        PROVE  [Table!Next]_TableVars
    BY <1>3, <2>1, <2>2, TableResult
  <2>3. CASE Callback
    BY <1>3, <2>1, <2>3, TableCallback DEF Table!Next
  <2>4. CASE Task
    BY <1>3, <2>1, <2>4, TableCleanup, TableTask DEF Task, Table!Next
  <2>5. CASE Tick
    BY <1>3, <2>1, <2>5, TableTick DEF Table!Next
  <2>6. CASE UNCHANGED vars
    BY <2>6 DEF vars, task, TableVars, tableEntries, tableUsed, Live, Entry
  <2> QED
    BY <2>2, <2>3, <2>4, <2>5, <2>6 DEF Next
<1> QED
  BY <1>2, <1>3

\* RemoteIDDetector behind a blocking scan implements AircraftTable: every step
\* of either task is one of the table or none.
THEOREM ImplementsTable == Spec => TableSpec
<1>1. Init => Table!Init
  <2> SUFFICES ASSUME Init PROVE Table!Init
    OBVIOUS
  <2>1. droneCount = 0 /\ taskPc = "update"
    BY DEF Init
  <2>2. \A i \in Slots : ~Live(i)
    BY <2>1, SafeInit, SafeFacts, WholeNumbers DEF Live
  <2>3. tableEntries = {}
    BY <2>2 DEF tableEntries
  <2> QED
    BY <2>1, <2>3 DEF Table!Init, tableUsed
<1>2. IInv /\ (blocking => Fresh) /\ [Next]_vars
        => [Table!Next]_<<tableEntries, tableUsed>>
  BY TableStep DEF TableVars
<1> QED
  BY <1>1, <1>2, FreshInit, FreshNext, Inductive, PTL
     DEF Spec, TableSpec, Table!Spec
=============================================================================
