-------------------------------- MODULE Mesh --------------------------------
(***************************************************************************)
(* ESPNowMesh (espnow_mesh.cpp) at one node, and the nodes it hears.  The  *)
(* loop runs update() on core 1 while the Wi-Fi task runs onReceiveCB; they *)
(* share the peer table without a lock.  What a node sends and what it     *)
(* keeps of others share no state, so one receiver and its Senders stand   *)
(* for every pair of nodes.                                                *)
(*                                                                         *)
(* Every time stamp is kept as its age, (millis() - stamp) % TimeMod: the  *)
(* code only ever uses these differences.  A tick is the resolution of the *)
(* clock; a frame in the air is handled or lost within a tick.             *)
(***************************************************************************)
EXTENDS Integers, Sequences

CONSTANTS
  Senders,       \* the other nodes, by MAC address
  NoMac,
  nodeID,        \* last byte of a sender's MAC
  myNodeID,
  MaxPeers,      \* ESPNOW_MAX_PEERS
  TimeMod,       \* 2^32 in the firmware
  Heartbeat,     \* heartbeatIntervalMs
  Stale,         \* timeout of removeStale
  MaxLag,        \* loop() runs at least once in MaxLag ticks (watchdog)
  MaxLoss        \* heartbeats of a node lost in a row

Gap == Heartbeat - 1 + MaxLag            \* between two heartbeats
Latest == Stale + 2 * MaxLag             \* by when a silent peer is dropped

ASSUME MeshAssumption ==
  /\ NoMac \notin Senders /\ nodeID \in [Senders -> Nat] /\ myNodeID \in Nat
  /\ MaxPeers \in Nat /\ TimeMod \in Nat /\ Heartbeat \in Nat \ {0}
  /\ Stale \in Nat /\ MaxLag \in Nat \ {0} /\ MaxLoss \in Nat
  /\ Latest < TimeMod /\ Gap < TimeMod

Slots == 1..MaxPeers
Time == 0..(TimeMod - 1)
Older(a) == (a + 1) % TimeMod

VARIABLES
  \* the senders
  on, lastHeartbeat, lagAt, lost,
  air,             \* the frames on their way, by sender
  \* the peer table
  peerCount, macAddr, lastSeen, active,
  \* the loop: program counter, slot, and the first operand of the age
  loopPc, slot, read, value, lag,
  \* the Wi-Fi task: program counter and slot
  rxPc, rxSlot,
  \* what happened, for the properties
  silence,         \* ticks since a frame of the sender was handled
  met,             \* one was since the sender and this node started
  overlap          \* a frame was handled since removeStale came to the slot

senders == <<on, lastHeartbeat, lagAt, lost>>
table == <<peerCount, macAddr, lastSeen, active>>
loop == <<loopPc, slot, read, value, lag>>
rx == <<rxPc, rxSlot>>
vars == <<senders, air, table, loop, rx, silence, met, overlap>>

Init ==
  /\ on = [s \in Senders |-> FALSE]
  /\ lastHeartbeat = [s \in Senders |-> 0] /\ lagAt = [s \in Senders |-> 0]
  /\ lost = [s \in Senders |-> 0] /\ air = <<>>
  /\ peerCount = 0 /\ macAddr = [i \in Slots |-> NoMac]
  /\ lastSeen = [i \in Slots |-> 0] /\ active = [i \in Slots |-> FALSE]
  /\ loopPc = "idle" /\ slot = 0 /\ read = "none" /\ value = 0 /\ lag = 0
  /\ rxPc = "idle" /\ rxSlot = 0
  /\ silence = [s \in Senders |-> Latest + 1]
  /\ met = [s \in Senders |-> FALSE] /\ overlap = FALSE

-----------------------------------------------------------------------------
(* The senders.                                                            *)

\* Frames are handled in order.  Two of a sender at once have the effect of
\* the first, and count as one.
deliver(s) ==
  air' = IF \E i \in DOMAIN air : air[i] = s THEN air ELSE Append(air, s)

\* A heartbeat reaches this node or is lost.
sendHeartbeat(s) ==
  \/ deliver(s) /\ lost' = [lost EXCEPT ![s] = 0]
  \/ lost[s] < MaxLoss /\ lost' = [lost EXCEPT ![s] = @ + 1] /\ UNCHANGED air

\* begin() sends the first one.
begin(s) ==
  /\ ~on[s]
  /\ on' = [on EXCEPT ![s] = TRUE]
  /\ sendHeartbeat(s)
  /\ UNCHANGED <<lastHeartbeat, lagAt, table, loop, rx, silence, met, overlap>>

powerOff(s) ==
  /\ on[s]
  /\ on' = [on EXCEPT ![s] = FALSE]
  /\ lastHeartbeat' = [lastHeartbeat EXCEPT ![s] = 0]
  /\ lagAt' = [lagAt EXCEPT ![s] = 0] /\ lost' = [lost EXCEPT ![s] = 0]
  /\ met' = [met EXCEPT ![s] = FALSE]
  /\ UNCHANGED <<air, table, loop, rx, silence, overlap>>

\* The first half of update() at the sender; its removeStale is this node's.
update(s) ==
  /\ on[s]
  /\ lagAt' = [lagAt EXCEPT ![s] = 0]
  /\ IF lastHeartbeat[s] >= Heartbeat
     THEN sendHeartbeat(s) /\ lastHeartbeat' = [lastHeartbeat EXCEPT ![s] = 0]
     ELSE UNCHANGED <<lost, air, lastHeartbeat>>
  /\ UNCHANGED <<on, table, loop, rx, silence, met, overlap>>

sendActivityAlert(s) ==
  /\ on[s]
  /\ deliver(s)
  /\ UNCHANGED <<senders, table, loop, rx, silence, met, overlap>>

-----------------------------------------------------------------------------
(* The Wi-Fi task: onReceiveCB and handleMessage.                          *)

\* (variant) only active peers are found
findPeer_Active(s) == {i \in 1..peerCount : macAddr[i] = s /\ active[i]}

findPeer(s) == {i \in 1..peerCount : macAddr[i] = s}

addPeer(s) ==
  /\ peerCount < MaxPeers
  /\ macAddr' = [macAddr EXCEPT ![peerCount + 1] = s]
  /\ lastSeen' = [lastSeen EXCEPT ![peerCount + 1] = 0]
  /\ active' = [active EXCEPT ![peerCount + 1] = TRUE]
  /\ peerCount' = peerCount + 1
  /\ rxSlot' = peerCount'

Arrives(s) ==
  /\ rxPc = "idle" /\ air # <<>> /\ s = Head(air) /\ air' = Tail(air)

\* Dropped: an id equal to one's own, or a new peer when the table is full.
ignore(s) ==
  /\ Arrives(s)
  /\ \/ nodeID[s] = myNodeID
     \/ findPeer(s) = {} /\ peerCount >= MaxPeers
  /\ UNCHANGED <<senders, table, loop, rx, silence, met, overlap>>

\* (variant) frames with this node's id are taken too
handleMessage_Own(s) ==
  /\ Arrives(s)
  /\ \/ rxSlot' \in findPeer(s) /\ UNCHANGED table
     \/ findPeer(s) = {} /\ addPeer(s)
  /\ rxPc' = "seen" /\ overlap' = TRUE
  /\ UNCHANGED <<senders, loop, silence, met>>

handleMessage(s) ==
  /\ Arrives(s) /\ nodeID[s] # myNodeID
  /\ \/ rxSlot' \in findPeer(s) /\ UNCHANGED table
     \/ findPeer(s) = {} /\ addPeer(s)
  /\ rxPc' = "seen" /\ overlap' = TRUE
  /\ UNCHANGED <<senders, loop, silence, met>>

setSeen ==
  /\ rxPc = "seen" /\ rxPc' = "active"
  /\ lastSeen' = [lastSeen EXCEPT ![rxSlot] = 0]
  /\ silence' = [silence EXCEPT ![macAddr[rxSlot]] = 0]
  /\ met' = [met EXCEPT ![macAddr[rxSlot]] = on[macAddr[rxSlot]]]
  /\ overlap' = TRUE
  /\ UNCHANGED <<senders, air, peerCount, macAddr, active, loop, rxSlot>>

\* (variant) a peer is made active only when it is added
setActive_Never ==
  /\ rxPc = "active" /\ rxPc' = "idle" /\ rxSlot' = 0
  /\ overlap' = TRUE
  /\ UNCHANGED <<senders, air, table, loop, silence, met>>

setActive ==
  /\ rxPc = "active" /\ rxPc' = "idle" /\ rxSlot' = 0
  /\ active' = [active EXCEPT ![rxSlot] = TRUE]
  /\ overlap' = TRUE
  /\ UNCHANGED <<senders, air, peerCount, macAddr, lastSeen, loop, silence, met>>

receive ==
  (\E s \in Senders : ignore(s) \/ handleMessage(s)) \/ setSeen \/ setActive

-----------------------------------------------------------------------------
(* The loop: removeStale, slot by slot.                                    *)

updateBegin ==
  /\ loopPc = "idle" /\ loopPc' = "scan" /\ slot' = 1 /\ lag' = 0
  /\ UNCHANGED <<senders, air, table, read, value, rx, silence, met, overlap>>

\* (variant) the last slot is left out
scan_OffByOne ==
  /\ loopPc = "scan"
  /\ IF slot >= peerCount THEN loopPc' = "idle" /\ slot' = 0
     ELSE IF active[slot] THEN loopPc' = "read" /\ UNCHANGED slot
          ELSE slot' = slot + 1 /\ UNCHANGED loopPc
  /\ UNCHANGED <<senders, air, table, read, value, lag, rx, silence, met,
                 overlap>>

scan ==
  /\ loopPc = "scan"
  /\ IF slot > peerCount THEN loopPc' = "idle" /\ slot' = 0
     ELSE IF active[slot] THEN loopPc' = "read" /\ UNCHANGED slot
          ELSE slot' = slot + 1 /\ UNCHANGED loopPc
  /\ UNCHANGED <<senders, air, table, read, value, lag, rx, silence, met,
                 overlap>>

\* millis() - peers[i].lastSeen: C++ leaves open which is read first.
readFirst ==
  /\ loopPc = "read" /\ loopPc' = "compare"
  /\ \/ read' = "millis" /\ value' = 0
     \/ read' = "lastSeen" /\ value' = lastSeen[slot]
  /\ overlap' = (rxPc # "idle")
  /\ UNCHANGED <<senders, air, table, slot, lag, rx, silence, met>>

Difference ==
  IF read = "lastSeen" THEN value ELSE (lastSeen[slot] - value) % TimeMod

\* (variant) a peer at the timeout is dropped
compare_AtTimeout ==
  /\ loopPc = "compare"
  /\ IF Difference >= Stale THEN loopPc' = "mark" /\ UNCHANGED slot
     ELSE loopPc' = "scan" /\ slot' = slot + 1
  /\ read' = "none" /\ value' = 0
  /\ UNCHANGED <<senders, air, table, lag, rx, silence, met, overlap>>

compare ==
  /\ loopPc = "compare"
  /\ IF Difference > Stale THEN loopPc' = "mark" /\ UNCHANGED slot
     ELSE loopPc' = "scan" /\ slot' = slot + 1
  /\ read' = "none" /\ value' = 0
  /\ UNCHANGED <<senders, air, table, lag, rx, silence, met, overlap>>

mark ==
  /\ loopPc = "mark" /\ loopPc' = "scan" /\ slot' = slot + 1
  /\ active' = [active EXCEPT ![slot] = FALSE]
  /\ UNCHANGED <<senders, air, peerCount, macAddr, lastSeen, read, value, lag,
                 rx, silence, met, overlap>>

removeStale == updateBegin \/ scan \/ readFirst \/ compare \/ mark

-----------------------------------------------------------------------------

\* This node starts again with an empty table.
Restart ==
  /\ air' = <<>>
  /\ peerCount' = 0 /\ macAddr' = [i \in Slots |-> NoMac]
  /\ lastSeen' = [i \in Slots |-> 0] /\ active' = [i \in Slots |-> FALSE]
  /\ loopPc' = "idle" /\ slot' = 0 /\ read' = "none" /\ value' = 0 /\ lag' = 0
  /\ rxPc' = "idle" /\ rxSlot' = 0
  /\ met' = [s \in Senders |-> FALSE] /\ overlap' = FALSE
  /\ UNCHANGED <<senders, silence>>

Tick ==
  /\ lag < MaxLag /\ \A s \in Senders : on[s] => lagAt[s] < MaxLag
  /\ air = <<>> /\ rxPc = "idle"
  /\ lag' = lag + 1
  /\ lagAt' = [s \in Senders |-> IF on[s] THEN lagAt[s] + 1 ELSE 0]
  /\ lastHeartbeat' =
       [s \in Senders |-> IF on[s] THEN Older(lastHeartbeat[s]) ELSE 0]
  /\ lastSeen' = [i \in Slots |-> IF i <= peerCount THEN Older(lastSeen[i]) ELSE 0]
  /\ value' = IF read = "none" THEN 0 ELSE Older(value)
  /\ silence' = [s \in Senders |-> IF silence[s] > Latest THEN silence[s]
                                   ELSE silence[s] + 1]
  /\ UNCHANGED <<on, lost, air, peerCount, macAddr, active, loopPc, slot, read,
                 rx, met, overlap>>

sender(s) == begin(s) \/ powerOff(s) \/ update(s) \/ sendActivityAlert(s)

Next ==
  \/ Tick \/ Restart
  \/ \E s \in Senders : sender(s)
  \/ receive
  \/ removeStale

Spec == Init /\ [][Next]_vars

\* Time passes; the loops and the Wi-Fi task keep running.
FairSpec ==
  /\ Spec /\ SF_vars(Tick) /\ WF_vars(removeStale) /\ WF_vars(receive)
  /\ \A s \in Senders : WF_vars(update(s))

-----------------------------------------------------------------------------
(* Properties.                                                             *)

\* The fields of ESPNowMesh and of the threads; the slots in use, and no
\* other, hold the address of a node with another id.
TypeOK ==
  /\ on \in [Senders -> BOOLEAN] /\ lastHeartbeat \in [Senders -> Time]
  /\ lagAt \in [Senders -> 0..MaxLag] /\ lost \in [Senders -> 0..MaxLoss]
  /\ air \in Seq(Senders)
  /\ peerCount \in 0..MaxPeers /\ macAddr \in [Slots -> Senders \cup {NoMac}]
  /\ lastSeen \in [Slots -> Time] /\ active \in [Slots -> BOOLEAN]
  /\ loopPc \in {"idle", "scan", "read", "compare", "mark"}
  /\ slot \in 0..(MaxPeers + 1) /\ read \in {"none", "millis", "lastSeen"}
  /\ value \in Time /\ lag \in 0..MaxLag
  /\ rxPc \in {"idle", "seen", "active"} /\ rxSlot \in 0..peerCount
  /\ silence \in [Senders -> 0..(Latest + 1)] /\ met \in [Senders -> BOOLEAN]
  /\ overlap \in BOOLEAN
  /\ \A i \in Slots : /\ i <= peerCount <=> macAddr[i] # NoMac
                      /\ i <= peerCount => nodeID[macAddr[i]] # myNodeID

\* A node has one slot of the table, also when it comes back after a
\* timeout (findPeer before addPeer).
PeersDistinct ==
  \A i, j \in 1..peerCount : macAddr[i] = macAddr[j] => i = j

\* A peer that fell silent is no longer active after the timeout and two
\* turns of the loop, across a wrap of millis().
DroppedInTime ==
  \A i \in 1..peerCount :
     active[i] /\ rxPc = "idle" => silence[macAddr[i]] <= Latest

\* The node's neighbours as the mesh promises them.  The Wi-Fi task takes three
\* steps for a frame, and the loop may come between any two: seen from outside
\* the node is heard at the first.
Handled(i) == rxPc # "idle" /\ rxSlot = i

knownNodes == {macAddr[i] : i \in 1..peerCount}
presentNodes ==
  {macAddr[i] : i \in {j \in 1..peerCount : active[j] \/ Handled(j)}}
Others == {s \in Senders : nodeID[s] # myNodeID}
silences ==
  [s \in Others |->
     IF s \notin knownNodes \/ (rxPc = "seen" /\ macAddr[rxSlot] = s) THEN 0
     ELSE silence[s]]

Around == INSTANCE Neighbours
  WITH Nodes <- Others, Capacity <- MaxPeers, known <- knownNodes,
       present <- presentNodes, places <- peerCount, silence <- silences,
       disturbed <- overlap

\* Whatever the threads' order, loss and restarts, the table behaves as
\* Neighbours says: one place for a node, present when heard, dropped after
\* the timeout and by Latest, unless a frame came in between
\* (espnow_mesh.cpp:120-135, 172-217).
NeighboursSpec == Around!Spec

\* A node that is on, beats, and has no more than MaxLoss heartbeats lost in a
\* row stays active: update() sends often enough for the timeout.  Provided
\* (MaxLoss + 1) * Gap <= Stale, and that no frame is handled between the
\* test of the slot and the store.
LivePeerKept ==
  [][\A i \in 1..peerCount :
       /\ active[i] /\ met[macAddr[i]] /\ ~overlap
       /\ peerCount' # 0
       => active'[i]]_vars

\* A peer in the table that keeps beating is active again and again: what
\* loss or a wrong timeout takes away, the next frame gives back.
PeerReturns ==
  \A s \in Senders :
     <>[](on[s] /\ findPeer(s) # {}) =>
       []<>(\E i \in findPeer(s) : active[i])
=============================================================================
