----------------------------- MODULE MeshProofs -----------------------------
(***************************************************************************)
(* What the mesh guarantees for any number of senders and slots, any       *)
(* timeout, clock width, watchdog and tolerated loss.                      *)
(***************************************************************************)
EXTENDS Mesh, SequenceTheorems, TLAPS

SendersOK ==
  /\ on \in [Senders -> BOOLEAN] /\ lastHeartbeat \in [Senders -> Time]
  /\ lagAt \in [Senders -> 0..MaxLag] /\ lost \in [Senders -> 0..MaxLoss]
  /\ air \in Seq(Senders)
  /\ \A s \in Senders : lastHeartbeat[s] <= Heartbeat - 1 + lagAt[s]

TableOK ==
  /\ peerCount \in 0..MaxPeers /\ macAddr \in [Slots -> Senders \cup {NoMac}]
  /\ lastSeen \in [Slots -> Time] /\ active \in [Slots -> BOOLEAN]
  /\ \A i \in Slots : /\ i <= peerCount <=> macAddr[i] # NoMac
                      /\ i <= peerCount => nodeID[macAddr[i]] # myNodeID
  /\ PeersDistinct

LoopOK ==
  /\ loopPc \in {"idle", "scan", "read", "compare", "mark"}
  /\ read \in {"none", "millis", "lastSeen"} /\ value \in Time
  /\ lag \in 0..MaxLag /\ slot \in 0..(MaxPeers + 1)
  /\ loopPc = "scan" => slot \in 1..(peerCount + 1)
  /\ loopPc \in {"read", "compare", "mark"} => slot \in 1..peerCount
  /\ loopPc \in {"read", "compare", "mark"} => active[slot]
  /\ read = "none" <=> loopPc # "compare"

RxOK ==
  /\ rxPc \in {"idle", "seen", "active"} /\ rxSlot \in 0..peerCount
  /\ rxPc # "idle" => rxSlot \in 1..peerCount

HistoryOK ==
  /\ silence \in [Senders -> 0..(Latest + 1)]
  /\ met \in [Senders -> BOOLEAN] /\ overlap \in BOOLEAN
  /\ \A s \in Senders : met[s] => on[s] /\ \E i \in 1..peerCount : macAddr[i] = s

Types == SendersOK /\ TableOK /\ LoopOK /\ RxOK /\ HistoryOK

LEMMA Numbers ==
  /\ MaxPeers \in Nat /\ TimeMod \in Nat \ {0} /\ Heartbeat \in Nat \ {0}
  /\ Stale \in Nat /\ MaxLag \in Nat \ {0} /\ MaxLoss \in Nat
  /\ Latest \in Nat /\ Latest = Stale + 2 * MaxLag /\ Latest < TimeMod
  /\ Gap \in Nat \ {0} /\ Gap = Heartbeat - 1 + MaxLag /\ Gap < TimeMod
BY MeshAssumption DEF Latest, Gap

LEMMA Wraps == ASSUME NEW a \in Int PROVE a % TimeMod \in Time
BY Numbers DEF Time

LEMMA NoWrap ==
  ASSUME NEW a \in Nat, a + 1 < TimeMod PROVE Older(a) = a + 1
BY Numbers DEF Older

-----------------------------------------------------------------------------
(* The types.                                                              *)

LEMMA TypesInit == Init => Types
<1> SUFFICES ASSUME Init PROVE Types
  OBVIOUS
<1>0. 0 \in Time
  BY Numbers DEF Time
<1>1. SendersOK
  <2>1. on \in [Senders -> BOOLEAN] /\ air \in Seq(Senders)
    BY DEF Init
  <2>2. /\ lastHeartbeat \in [Senders -> Time]
        /\ lagAt \in [Senders -> 0..MaxLag] /\ lost \in [Senders -> 0..MaxLoss]
        /\ \A s \in Senders : lastHeartbeat[s] <= Heartbeat - 1 + lagAt[s]
    BY <1>0, Numbers DEF Init
  <2> QED BY <2>1, <2>2 DEF SendersOK
<1>2. TableOK
  <2>1. peerCount \in 0..MaxPeers /\ peerCount = 0
    BY Numbers DEF Init
  <2>2. /\ macAddr \in [Slots -> Senders \cup {NoMac}]
        /\ lastSeen \in [Slots -> Time] /\ active \in [Slots -> BOOLEAN]
    BY <1>0 DEF Init
  <2>3. \A i \in Slots : ~(i <= peerCount) /\ macAddr[i] = NoMac
    BY Numbers DEF Init, Slots
  <2> QED BY <2>1, <2>2, <2>3 DEF TableOK, PeersDistinct
<1>3. LoopOK
  BY <1>0, Numbers DEF Init, LoopOK
<1>4. RxOK
  BY DEF Init, RxOK
<1>5. HistoryOK
  <2>1. silence \in [Senders -> 0..(Latest + 1)]
    BY Numbers DEF Init
  <2> QED BY <2>1 DEF Init, HistoryOK
<1> QED BY <1>1, <1>2, <1>3, <1>4, <1>5 DEF Types

\* A predicate holds on as long as the variables it speaks of do.
LEMMA Frames ==
  /\ SendersOK /\ UNCHANGED <<senders, air>> => SendersOK'
  /\ TableOK /\ UNCHANGED table => TableOK'
  /\ LoopOK /\ UNCHANGED <<loop, peerCount, active>> => LoopOK'
  /\ RxOK /\ UNCHANGED <<rx, peerCount>> => RxOK'
  /\ HistoryOK /\ UNCHANGED <<on, silence, met, overlap, peerCount, macAddr>>
       => HistoryOK'
<1>1. SendersOK /\ UNCHANGED <<senders, air>> => SendersOK'
  BY DEF SendersOK, senders
<1>2. TableOK /\ UNCHANGED table => TableOK'
  BY DEF TableOK, PeersDistinct, table
<1>3. LoopOK /\ UNCHANGED <<loop, peerCount, active>> => LoopOK'
  BY DEF LoopOK, loop
<1>4. RxOK /\ UNCHANGED <<rx, peerCount>> => RxOK'
  BY DEF RxOK, rx
<1>5. HistoryOK /\ UNCHANGED <<on, silence, met, overlap, peerCount, macAddr>>
        => HistoryOK'
  BY DEF HistoryOK
<1> QED BY <1>1, <1>2, <1>3, <1>4, <1>5

LEMMA Delivered ==
  ASSUME SendersOK, NEW s \in Senders, deliver(s) PROVE air' \in Seq(Senders)
BY AppendProperties DEF SendersOK, deliver

LEMMA SenderTypes ==
  ASSUME Types, NEW s \in Senders, sender(s) PROVE Types'
<1> USE DEF Types
<1>1. TableOK' /\ LoopOK' /\ RxOK'
  <2>1. UNCHANGED <<table, loop, rx>>
    BY DEF sender, begin, powerOff, update, sendActivityAlert
  <2> QED BY <2>1, Frames DEF table
<1>2. HistoryOK'
  <2>1. UNCHANGED <<silence, overlap, peerCount, macAddr>>
    BY DEF sender, begin, powerOff, update, sendActivityAlert, table
  <2>2. CASE powerOff(s)
    BY <2>1, <2>2 DEF HistoryOK, SendersOK, powerOff
  <2>3. CASE ~powerOff(s)
    <3>1. UNCHANGED met /\ \A u \in Senders : on[u] => on'[u]
      BY <2>3 DEF sender, begin, update, sendActivityAlert, SendersOK, senders
    <3> QED BY <2>1, <3>1 DEF HistoryOK
  <2> QED BY <2>2, <2>3
<1>3. SendersOK'
  <2>0. 0 \in Time /\ 0 \in 0..MaxLag /\ 0 \in 0..MaxLoss
    BY Numbers DEF Time
  <2>1. ASSUME sendHeartbeat(s)
        PROVE  air' \in Seq(Senders) /\ lost' \in [Senders -> 0..MaxLoss]
    <3>1. CASE deliver(s) /\ lost' = [lost EXCEPT ![s] = 0]
      BY <2>0, <3>1, Delivered DEF SendersOK
    <3>2. CASE /\ lost[s] < MaxLoss /\ lost' = [lost EXCEPT ![s] = @ + 1]
               /\ UNCHANGED air
      <4>1. lost[s] + 1 \in 0..MaxLoss
        BY <3>2, Numbers DEF SendersOK
      <4> QED BY <3>2, <4>1 DEF SendersOK
    <3> QED BY <2>1, <3>1, <3>2 DEF sendHeartbeat
  <2>2. CASE begin(s)
    BY <2>1, <2>2 DEF SendersOK, begin
  <2>3. CASE powerOff(s)
    <3>1. /\ lastHeartbeat' \in [Senders -> Time]
          /\ lagAt' \in [Senders -> 0..MaxLag]
          /\ lost' \in [Senders -> 0..MaxLoss]
      BY <2>0, <2>3 DEF SendersOK, powerOff
    <3>2. on' \in [Senders -> BOOLEAN] /\ air' \in Seq(Senders)
      BY <2>3 DEF SendersOK, powerOff
    <3>3. \A u \in Senders : lastHeartbeat'[u] <= Heartbeat - 1 + lagAt'[u]
      BY <2>3, Numbers DEF SendersOK, powerOff
    <3> QED BY <3>1, <3>2, <3>3 DEF SendersOK
  <2>4. CASE update(s)
    <3>1. lagAt' = [lagAt EXCEPT ![s] = 0] /\ lagAt' \in [Senders -> 0..MaxLag]
      BY <2>0, <2>4 DEF SendersOK, update
    <3>2. CASE /\ lastHeartbeat[s] >= Heartbeat /\ sendHeartbeat(s)
               /\ lastHeartbeat' = [lastHeartbeat EXCEPT ![s] = 0]
      <4>1. lastHeartbeat' \in [Senders -> Time]
        BY <2>0, <3>2 DEF SendersOK
      <4>2. \A u \in Senders : lastHeartbeat'[u] <= Heartbeat - 1 + lagAt'[u]
        BY <3>1, <3>2, Numbers DEF SendersOK
      <4> QED BY <2>1, <2>4, <3>1, <3>2, <4>1, <4>2 DEF SendersOK, update
    <3>3. CASE ~(lastHeartbeat[s] >= Heartbeat) /\ UNCHANGED <<lost, air, lastHeartbeat>>
      <4>1. lastHeartbeat[s] <= Heartbeat - 1
        BY <3>3, Numbers DEF SendersOK, Time
      <4>2. \A u \in Senders : lastHeartbeat'[u] <= Heartbeat - 1 + lagAt'[u]
        BY <3>1, <3>3, <4>1, Numbers DEF SendersOK
      <4> QED BY <2>4, <3>1, <3>3, <4>2 DEF SendersOK, update
    <3> QED BY <2>4, <3>2, <3>3 DEF update
  <2>5. CASE sendActivityAlert(s)
    BY <2>5, Delivered DEF SendersOK, sendActivityAlert, senders
  <2> QED BY <2>2, <2>3, <2>4, <2>5 DEF sender
<1> QED BY <1>1, <1>2, <1>3

\* Taking a frame from the air.
LEMMA Taken ==
  ASSUME SendersOK, NEW s, Arrives(s) PROVE s \in Senders /\ air' \in Seq(Senders)
BY HeadTailProperties DEF SendersOK, Arrives

LEMMA ReceiveTypes == Types /\ receive => Types'
<1> SUFFICES ASSUME Types, receive PROVE Types'
  OBVIOUS
<1> USE DEF Types
<1>0. 0 \in Time
  BY Numbers DEF Time
<1>1. ASSUME NEW s \in Senders, ignore(s) PROVE Types'
  <2>1. SendersOK'
    BY <1>1, Taken DEF ignore, SendersOK, senders
  <2> QED BY <1>1, <2>1, Frames DEF ignore, table, senders
<1>2. ASSUME NEW s \in Senders, handleMessage(s) PROVE Types'
  <2>1. SendersOK'
    BY <1>2, Taken DEF handleMessage, SendersOK, senders
  <2>2. CASE rxSlot' \in findPeer(s) /\ UNCHANGED table
    <3>1. rxSlot' \in 1..peerCount /\ UNCHANGED <<peerCount, macAddr, active>>
      BY <2>2 DEF findPeer, table
    <3>2. TableOK' /\ LoopOK'
      BY <1>2, <2>2, <3>1, Frames DEF handleMessage
    <3>3. RxOK'
      BY <1>2, <3>1 DEF RxOK, handleMessage
    <3>4. HistoryOK'
      BY <1>2, <3>1 DEF HistoryOK, handleMessage, senders
    <3> QED BY <2>1, <3>2, <3>3, <3>4
  <2>3. CASE findPeer(s) = {} /\ addPeer(s)
    <3>1. /\ peerCount \in Nat /\ peerCount + 1 \in Slots
          /\ peerCount' = peerCount + 1 /\ rxSlot' = peerCount + 1
      BY <2>3, Numbers DEF TableOK, addPeer, Slots
    <3>2. \A i \in 1..peerCount : macAddr[i] # s
      BY <2>3 DEF findPeer
    <3>3. /\ macAddr' = [macAddr EXCEPT ![peerCount + 1] = s]
          /\ macAddr'[peerCount + 1] = s
          /\ \A i \in Slots \ {peerCount + 1} : macAddr'[i] = macAddr[i]
      BY <2>3, <3>1 DEF TableOK, addPeer
    <3>4. TableOK'
      <4>1. /\ peerCount' \in 0..MaxPeers
            /\ macAddr' \in [Slots -> Senders \cup {NoMac}]
            /\ lastSeen' \in [Slots -> Time] /\ active' \in [Slots -> BOOLEAN]
        BY <1>0, <2>3, <3>1 DEF TableOK, addPeer, Slots
      <4>2. s # NoMac /\ nodeID[s] # myNodeID
        BY <1>2, MeshAssumption DEF handleMessage
      <4>3. ASSUME NEW i \in Slots
            PROVE  /\ i <= peerCount' <=> macAddr'[i] # NoMac
                   /\ i <= peerCount' => nodeID[macAddr'[i]] # myNodeID
        BY <3>1, <3>3, <4>2, <4>3, Numbers DEF TableOK, Slots
      <4>4. PeersDistinct'
        <5> SUFFICES ASSUME NEW i \in 1..(peerCount + 1), NEW j \in 1..(peerCount + 1),
                            macAddr'[i] = macAddr'[j]
                     PROVE  i = j
          BY <3>1 DEF PeersDistinct
        <5>1. i \in Slots /\ j \in Slots
          BY <3>1, Numbers DEF Slots
        <5>2. CASE i = peerCount + 1 \/ j = peerCount + 1
          BY <3>1, <3>2, <3>3, <5>1, <5>2
        <5>3. CASE i # peerCount + 1 /\ j # peerCount + 1
          BY <3>1, <3>3, <5>1, <5>3 DEF TableOK, PeersDistinct
        <5> QED BY <5>2, <5>3
      <4> QED BY <4>1, <4>3, <4>4 DEF TableOK
    <3>5. LoopOK'
      <4>1. \A i \in 1..peerCount : i \in Slots /\ i # peerCount + 1
        BY Numbers DEF TableOK, Slots
      <4>2. \A i \in 1..peerCount : active'[i] = active[i]
        BY <2>3, <4>1 DEF TableOK, addPeer
      <4>3. \A i \in Int : /\ i \in 1..(peerCount + 1) => i \in 1..(peerCount' + 1)
                           /\ i \in 1..peerCount => i \in 1..peerCount'
        BY <3>1 DEF TableOK
      <4>4. slot \in Int /\ UNCHANGED loop
        BY <1>2, Numbers DEF LoopOK, handleMessage
      <4> QED BY <4>2, <4>3, <4>4 DEF LoopOK, loop
    <3>6. RxOK'
      BY <1>2, <3>1 DEF RxOK, handleMessage
    <3>7. HistoryOK'
      <4>1. \A i \in 1..peerCount : i \in 1..peerCount' /\ macAddr'[i] = macAddr[i]
        BY <3>1, <3>3, Numbers DEF Slots, TableOK
      <4>2. UNCHANGED <<on, silence, met>> /\ overlap' = TRUE
        BY <1>2 DEF handleMessage, senders
      <4> QED BY <4>1, <4>2 DEF HistoryOK
    <3> QED BY <2>1, <3>4, <3>5, <3>6, <3>7
  <2> QED BY <1>2, <2>2, <2>3 DEF handleMessage
<1>3. CASE setSeen
  <2>1. rxSlot \in 1..peerCount /\ rxSlot \in Slots /\ macAddr[rxSlot] \in Senders
    BY <1>3, Numbers DEF setSeen, RxOK, TableOK, Slots
  <2>2. SendersOK' /\ LoopOK'
    BY <1>3, Frames DEF setSeen
  <2>3. TableOK'
    BY <1>0, <1>3 DEF setSeen, TableOK, PeersDistinct
  <2>4. RxOK'
    BY <1>3, <2>1 DEF setSeen, RxOK
  <2>5. HistoryOK'
    <3>0. 0 \in 0..(Latest + 1)
      BY Numbers
    <3>1. silence' \in [Senders -> 0..(Latest + 1)]
      BY <1>3, <3>0 DEF setSeen, HistoryOK
    <3>2. met' \in [Senders -> BOOLEAN] /\ overlap' \in BOOLEAN
      BY <1>3, <2>1 DEF setSeen, HistoryOK, SendersOK
    <3>3. ASSUME NEW s \in Senders, met'[s]
          PROVE  on'[s] /\ \E i \in 1..peerCount' : macAddr'[i] = s
      <4>1. UNCHANGED <<on, peerCount, macAddr>>
        BY <1>3 DEF setSeen, senders
      <4>2. CASE s = macAddr[rxSlot]
        BY <1>3, <2>1, <3>3, <4>1, <4>2 DEF setSeen, HistoryOK
      <4>3. CASE s # macAddr[rxSlot]
        BY <1>3, <3>3, <4>1, <4>3 DEF setSeen, HistoryOK
      <4> QED BY <4>2, <4>3
    <3> QED BY <3>1, <3>2, <3>3 DEF HistoryOK
  <2> QED BY <2>2, <2>3, <2>4, <2>5
<1>4. CASE setActive
  <2>1. SendersOK'
    BY <1>4, Frames DEF setActive
  <2>2. TableOK'
    BY <1>4 DEF setActive, TableOK, PeersDistinct
  <2>3. LoopOK'
    <3>1. \A i \in Slots : active[i] => active'[i]
      BY <1>4 DEF setActive, TableOK
    <3>2. \A i \in 1..peerCount : i \in Slots
      BY Numbers DEF TableOK, Slots
    <3> QED BY <1>4, <3>1, <3>2 DEF setActive, LoopOK, loop
  <2>4. RxOK'
    BY <1>4, Numbers DEF setActive, RxOK, TableOK
  <2>5. HistoryOK'
    BY <1>4 DEF setActive, HistoryOK, senders
  <2> QED BY <2>1, <2>2, <2>3, <2>4, <2>5
<1> QED BY <1>1, <1>2, <1>3, <1>4 DEF receive

LEMMA RemoveStaleTypes == Types /\ removeStale => Types'
<1> SUFFICES ASSUME Types, removeStale PROVE Types'
  OBVIOUS
<1> USE DEF Types
<1>0. 0 \in Time /\ peerCount \in 0..MaxPeers
  BY Numbers DEF Time, TableOK
<1>1. SendersOK' /\ RxOK'
  BY Frames DEF removeStale, updateBegin, scan, readFirst, compare, mark, table
<1>2. HistoryOK'
  BY DEF HistoryOK, removeStale, updateBegin, scan, readFirst, compare, mark,
         table, senders
<1>3. TableOK'
  <2>1. CASE UNCHANGED table
    BY <2>1, Frames
  <2>2. CASE mark
    BY <2>2 DEF mark, TableOK, PeersDistinct
  <2> QED BY <2>1, <2>2 DEF removeStale, updateBegin, scan, readFirst, compare
<1>4. LoopOK'
  <2> USE DEF LoopOK
  <2>1. CASE updateBegin
    BY <1>0, <2>1, Numbers DEF updateBegin, table
  <2>2. CASE scan
    BY <1>0, <2>2, Numbers DEF scan, table
  <2>3. CASE readFirst
    <3>0. slot \in Slots
      BY <1>0, <2>3, Numbers DEF readFirst, Slots
    <3>1. value' \in Time
      BY <1>0, <2>3, <3>0 DEF readFirst, TableOK
    <3> QED BY <2>3, <3>1 DEF readFirst, table
  <2>4. CASE compare
    BY <1>0, <2>4, Numbers DEF compare, table
  <2>5. CASE mark
    BY <1>0, <2>5, Numbers DEF mark
  <2> QED BY <2>1, <2>2, <2>3, <2>4, <2>5 DEF removeStale
<1> QED BY <1>1, <1>2, <1>3, <1>4

LEMMA RestartTypes == Types /\ Restart => Types'
<1> SUFFICES ASSUME Types, Restart PROVE Types'
  OBVIOUS
<1> USE DEF Types
<1>0. 0 \in Time
  BY Numbers DEF Time
<1>1. SendersOK'
  BY DEF Restart, SendersOK, senders
<1>2. TableOK'
  <2>1. peerCount' \in 0..MaxPeers /\ peerCount' = 0
    BY Numbers DEF Restart
  <2>2. /\ macAddr' \in [Slots -> Senders \cup {NoMac}]
        /\ lastSeen' \in [Slots -> Time] /\ active' \in [Slots -> BOOLEAN]
    BY <1>0 DEF Restart
  <2>3. \A i \in Slots : ~(i <= peerCount') /\ macAddr'[i] = NoMac
    BY Numbers DEF Restart, Slots
  <2> QED BY <2>1, <2>2, <2>3 DEF TableOK, PeersDistinct
<1>3. LoopOK'
  BY <1>0, Numbers DEF Restart, LoopOK
<1>4. RxOK'
  BY DEF Restart, RxOK
<1>5. HistoryOK'
  BY DEF Restart, HistoryOK
<1> QED BY <1>1, <1>2, <1>3, <1>4, <1>5

LEMMA TickTypes == Types /\ Tick => Types'
<1> SUFFICES ASSUME Types, Tick PROVE Types'
  OBVIOUS
<1> USE DEF Types
<1>0. 0 \in Time
  BY Numbers DEF Time
<1>1. \A a \in Time : Older(a) \in Time
  BY Wraps DEF Older, Time
<1>2. SendersOK'
  <2>1. /\ on' \in [Senders -> BOOLEAN] /\ lost' \in [Senders -> 0..MaxLoss]
        /\ air' \in Seq(Senders)
    BY DEF Tick, SendersOK
  <2>2. lastHeartbeat' \in [Senders -> Time]
    BY <1>0, <1>1 DEF Tick, SendersOK
  <2>3. lagAt' \in [Senders -> 0..MaxLag]
    BY Numbers DEF Tick, SendersOK
  <2>4. ASSUME NEW s \in Senders
        PROVE  lastHeartbeat'[s] <= Heartbeat - 1 + lagAt'[s]
    <3>1. CASE on[s]
      <4>1. /\ lagAt[s] + 1 \in 0..MaxLag /\ lagAt'[s] = lagAt[s] + 1
            /\ lastHeartbeat'[s] = Older(lastHeartbeat[s])
        BY <3>1, Numbers DEF Tick, SendersOK
      <4>2. /\ lastHeartbeat[s] \in Time /\ lagAt[s] \in 0..MaxLag
            /\ lastHeartbeat[s] <= Heartbeat - 1 + lagAt[s]
        BY DEF SendersOK
      <4>3. lastHeartbeat[s] \in Nat /\ lastHeartbeat[s] + 1 < TimeMod
        BY <4>1, <4>2, Numbers DEF Time
      <4>4. Older(lastHeartbeat[s]) = lastHeartbeat[s] + 1
        BY <4>3, NoWrap
      <4> QED BY <4>1, <4>2, <4>4, Numbers DEF Time
    <3>2. CASE ~on[s]
      BY <3>2, Numbers DEF Tick
    <3> QED BY <3>1, <3>2
  <2> QED BY <2>1, <2>2, <2>3, <2>4 DEF SendersOK
<1>3. TableOK'
  BY <1>0, <1>1 DEF Tick, TableOK, PeersDistinct
<1>4. LoopOK'
  BY <1>0, <1>1, Numbers DEF Tick, LoopOK
<1>5. RxOK'
  BY DEF Tick, RxOK, rx
<1>6. HistoryOK'
  <2>1. silence' \in [Senders -> 0..(Latest + 1)]
    BY Numbers DEF Tick, HistoryOK
  <2> QED BY <2>1 DEF Tick, HistoryOK
<1> QED BY <1>2, <1>3, <1>4, <1>5, <1>6

LEMMA TypesStep == Types /\ [Next]_vars => Types'
<1> SUFFICES ASSUME Types, [Next]_vars PROVE Types'
  OBVIOUS
<1>1. CASE UNCHANGED vars
  BY <1>1, Frames DEF Types, vars, senders, table
<1> QED
  BY <1>1, SenderTypes, ReceiveTypes, RemoveStaleTypes, RestartTypes, TickTypes
  DEF Next

\* The fields of the node keep their types, and every slot in use holds a
\* node with another id.
THEOREM TypeCorrect == Spec => []TypeOK
<1>1. Types => TypeOK
  BY DEF Types, SendersOK, TableOK, LoopOK, RxOK, HistoryOK, TypeOK
<1> QED BY <1>1, TypesInit, TypesStep, PTL DEF Spec

\* A node never has two slots.
THEOREM Distinct == Spec => []PeersDistinct
<1>1. Types => PeersDistinct
  BY DEF Types, TableOK
<1> QED BY <1>1, TypesInit, TypesStep, PTL DEF Spec

-----------------------------------------------------------------------------
(* A silent peer is dropped.                                               *)

\* A slot the loop has still to come to may be a turn of the loop older.
Wait(i) == IF loopPc = "idle" \/ i < slot THEN 0 ELSE MaxLag

Aged ==
  \A i \in 1..peerCount : active[i] => lastSeen[i] <= Stale + lag + Wait(i)

\* Outside of the Wi-Fi task's update of a slot its time stamp is true.
Synced ==
  /\ \A i \in 1..peerCount :
       active[i] /\ ~(rxPc = "seen" /\ rxSlot = i)
         => silence[macAddr[i]] = lastSeen[i]
  /\ rxPc = "active" =>
       lastSeen[rxSlot] = 0 /\ silence[macAddr[rxSlot]] = 0

\* What the loop has read of the slot is at least as old as the stamp.
Operand ==
  loopPc = "compare" =>
    /\ read = "lastSeen" =>
         lastSeen[slot] <= value /\ value <= Stale + lag + MaxLag
    /\ read = "millis" => value <= lag

AgeInv == Aged /\ Synced /\ Operand

LEMMA InTable ==
  ASSUME Types
  PROVE  /\ peerCount \in Nat /\ lag \in Nat /\ slot \in Nat
         /\ \A i \in 1..peerCount :
              /\ i \in Nat /\ i \in Slots
              /\ macAddr[i] \in Senders
              /\ lastSeen[i] \in Nat /\ lastSeen[i] < TimeMod
              /\ active[i] \in BOOLEAN
<1>1. peerCount \in Nat /\ lag \in Nat /\ slot \in Nat
  BY Numbers DEF Types, TableOK, LoopOK
<1>2. ASSUME NEW i \in 1..peerCount
      PROVE  /\ i \in Nat /\ i \in Slots
             /\ macAddr[i] \in Senders
             /\ lastSeen[i] \in Nat /\ lastSeen[i] < TimeMod
             /\ active[i] \in BOOLEAN
  <2>1. i \in Nat /\ i \in Slots /\ i <= peerCount
    BY <1>1, <1>2, Numbers DEF Types, TableOK, Slots
  <2>2. macAddr[i] \in Senders /\ active[i] \in BOOLEAN
    BY <2>1 DEF Types, TableOK
  <2>3. lastSeen[i] \in Nat /\ lastSeen[i] < TimeMod
    BY <2>1, Numbers DEF Types, TableOK, Time
  <2> QED BY <2>1, <2>2, <2>3
<1> QED BY <1>1, <1>2

LEMMA AgeFrame ==
  ASSUME AgeInv, UNCHANGED <<table, loop, rx, silence>> PROVE AgeInv'
BY DEF AgeInv, Aged, Synced, Operand, Wait, table, loop, rx

LEMMA AgeReceive ==
  ASSUME Types, AgeInv, receive PROVE AgeInv'
<1>0. /\ peerCount \in Nat /\ lag \in Nat /\ slot \in Nat
      /\ Stale \in Nat /\ MaxLag \in Nat
  BY InTable, Numbers
<1>1. ASSUME NEW s \in Senders, ignore(s) PROVE AgeInv'
  BY <1>1, AgeFrame DEF ignore
<1>2. ASSUME NEW s \in Senders, handleMessage(s) PROVE AgeInv'
  <2>1. /\ rxPc = "idle" /\ rxPc' = "seen"
        /\ UNCHANGED <<loop, silence>>
    BY <1>2 DEF handleMessage, Arrives
  <2>2. CASE rxSlot' \in findPeer(s) /\ UNCHANGED table
    BY <2>1, <2>2 DEF AgeInv, Aged, Synced, Operand, Wait, table, loop
  <2>3. CASE findPeer(s) = {} /\ addPeer(s)
    <3>1. peerCount' = peerCount + 1 /\ rxSlot' = peerCount + 1
      BY <2>3 DEF addPeer
    <3>2. \A i \in 1..peerCount :
            /\ macAddr'[i] = macAddr[i] /\ lastSeen'[i] = lastSeen[i]
            /\ active'[i] = active[i]
      <4>1. \A i \in 1..peerCount : i \in Slots /\ i # peerCount + 1
        BY <1>0, InTable
      <4> QED BY <2>3, <4>1 DEF addPeer, Types, TableOK
    <3>3. lastSeen'[peerCount + 1] = 0
      BY <1>0, <2>3, Numbers DEF addPeer, Types, TableOK, Slots
    <3>4. \A i \in 1..peerCount' : i \in 1..peerCount \/ i = peerCount + 1
      BY <1>0, <3>1
    <3>5. Aged'
      <4>1. ASSUME NEW i \in 1..peerCount', active'[i]
            PROVE  lastSeen'[i] <= Stale + lag' + Wait(i)'
        <5>1. UNCHANGED <<lag, loopPc, slot>>
          BY <2>1 DEF loop
        <5>2. CASE i \in 1..peerCount
          BY <3>2, <4>1, <5>1, <5>2 DEF AgeInv, Aged, Wait
        <5>3. CASE i = peerCount + 1
          <6>1. Wait(i)' \in Nat
            BY <1>0 DEF Wait
          <6> QED BY <1>0, <3>3, <5>1, <5>3, <6>1
        <5> QED BY <3>4, <5>2, <5>3
      <4> QED BY <4>1 DEF Aged
    <3>6. Synced'
      <4>1. ASSUME NEW i \in 1..peerCount', active'[i], rxSlot' # i
            PROVE  silence'[macAddr'[i]] = lastSeen'[i]
        <5>1. i \in 1..peerCount
          BY <3>1, <3>4, <4>1
        <5> QED BY <2>1, <3>2, <4>1, <5>1 DEF AgeInv, Synced
      <4> QED BY <2>1, <4>1 DEF Synced
    <3>7. Operand'
      <4>1. loopPc = "compare" => slot \in 1..peerCount
        BY DEF Types, LoopOK
      <4> QED BY <2>1, <3>2, <4>1 DEF AgeInv, Operand, loop
    <3> QED BY <3>5, <3>6, <3>7 DEF AgeInv
  <2> QED BY <1>2, <2>2, <2>3 DEF handleMessage
<1>3. CASE setSeen
  <2>1. /\ rxPc' = "active" /\ rxSlot \in 1..peerCount /\ rxSlot \in Slots
        /\ lastSeen' = [lastSeen EXCEPT ![rxSlot] = 0]
        /\ silence' = [silence EXCEPT ![macAddr[rxSlot]] = 0]
        /\ UNCHANGED <<peerCount, macAddr, active, loop, rxSlot>>
        /\ macAddr[rxSlot] \in Senders
    BY <1>3, InTable DEF setSeen, Types, RxOK
  <2>2. lastSeen'[rxSlot] = 0 /\ silence'[macAddr[rxSlot]] = 0
    BY <2>1 DEF Types, TableOK, HistoryOK
  <2>3. \A i \in 1..peerCount : i # rxSlot =>
          /\ lastSeen'[i] = lastSeen[i]
          /\ silence'[macAddr[i]] = silence[macAddr[i]]
    <3>1. \A i \in 1..peerCount : i # rxSlot => macAddr[i] # macAddr[rxSlot]
      BY <2>1 DEF Types, TableOK, PeersDistinct
    <3> QED BY <2>1, <3>1, InTable DEF Types, TableOK, HistoryOK
  <2>4. Aged'
    <3>1. ASSUME NEW i \in 1..peerCount, active[i]
          PROVE  lastSeen'[i] <= Stale + lag + Wait(i)
      <4>1. Wait(i) \in Nat
        BY <1>0 DEF Wait
      <4> QED BY <1>0, <2>2, <2>3, <3>1, <4>1 DEF AgeInv, Aged
    <3> QED BY <2>1, <3>1 DEF Aged, Wait, loop
  <2>5. Synced'
    <3>1. ASSUME NEW i \in 1..peerCount, active[i]
          PROVE  silence'[macAddr[i]] = lastSeen'[i]
      BY <1>3, <2>2, <2>3, <3>1 DEF AgeInv, Synced
    <3> QED BY <2>1, <2>2, <3>1 DEF Synced
  <2>6. Operand'
    <3>1. loopPc = "compare" => slot \in 1..peerCount /\ value \in Nat
      BY Numbers DEF Types, LoopOK, Time
    <3>2. loopPc = "compare" /\ read = "lastSeen" => lastSeen'[slot] <= value
      BY <2>2, <2>3, <3>1 DEF AgeInv, Operand
    <3> QED BY <2>1, <3>2 DEF AgeInv, Operand, loop
  <2> QED BY <2>4, <2>5, <2>6 DEF AgeInv
<1>4. CASE setActive
  <2>1. /\ rxPc = "active" /\ rxPc' = "idle"
        /\ active' = [active EXCEPT ![rxSlot] = TRUE]
        /\ UNCHANGED <<peerCount, macAddr, lastSeen, loop, silence>>
    BY <1>4 DEF setActive
  <2>2. lastSeen[rxSlot] = 0 /\ silence[macAddr[rxSlot]] = 0
    BY <2>1 DEF AgeInv, Synced
  <2>3. \A i \in 1..peerCount : i # rxSlot => active'[i] = active[i]
    BY <2>1, InTable DEF Types, TableOK
  <2>4. Aged'
    <3>1. ASSUME NEW i \in 1..peerCount, active'[i]
          PROVE  lastSeen[i] <= Stale + lag + Wait(i)
      <4>1. Wait(i) \in Nat
        BY <1>0 DEF Wait
      <4> QED BY <1>0, <2>2, <2>3, <3>1, <4>1 DEF AgeInv, Aged
    <3> QED BY <2>1, <3>1 DEF Aged, Wait, loop
  <2>5. Synced'
    BY <2>1, <2>2, <2>3 DEF AgeInv, Synced
  <2>6. Operand'
    BY <2>1 DEF AgeInv, Operand, loop
  <2> QED BY <2>4, <2>5, <2>6 DEF AgeInv
<1> QED BY <1>1, <1>2, <1>3, <1>4 DEF receive

\* A stamp that passes the test of the loop is not older than the timeout.
LEMMA Passes ==
  ASSUME Types, AgeInv, loopPc = "compare", Difference <= Stale
  PROVE  lastSeen[slot] <= Stale + lag
<1>1. /\ slot \in 1..peerCount /\ read \in {"millis", "lastSeen"}
      /\ value \in Nat /\ lag \in Nat
  BY Numbers DEF Types, LoopOK, Time
<1>2. lastSeen[slot] \in Nat /\ lastSeen[slot] < TimeMod
  BY <1>1, InTable
<1>3. CASE read = "lastSeen"
  BY <1>1, <1>2, <1>3, Numbers DEF Difference, AgeInv, Operand
<1>4. CASE read = "millis"
  <2>1. value <= lag
    BY <1>4 DEF AgeInv, Operand
  <2>2. CASE lastSeen[slot] < value
    BY <1>1, <1>2, <2>1, <2>2, Numbers
  <2>3. CASE lastSeen[slot] >= value
    <3>1. lastSeen[slot] - value \in 0..(TimeMod - 1)
      BY <1>1, <1>2, <2>3, Numbers
    <3>2. (lastSeen[slot] - value) % TimeMod = lastSeen[slot] - value
      BY <3>1, Numbers
    <3>3. Difference = lastSeen[slot] - value
      BY <1>4, <3>2 DEF Difference
    <3> QED BY <1>1, <1>2, <2>1, <3>3, Numbers
  <2> QED BY <1>1, <1>2, <2>2, <2>3
<1> QED BY <1>1, <1>3, <1>4

LEMMA AgeLoop ==
  ASSUME Types, AgeInv, removeStale PROVE AgeInv'
<1>0. /\ peerCount \in Nat /\ lag \in Nat /\ slot \in Nat
      /\ Stale \in Nat /\ MaxLag \in Nat \ {0} /\ lag <= MaxLag
  BY InTable, Numbers DEF Types, LoopOK
<1>1. UNCHANGED <<peerCount, macAddr, lastSeen, rx, silence>>
  BY DEF removeStale, updateBegin, scan, readFirst, compare, mark, table
<1>2. \A i \in 1..peerCount : active'[i] => active[i]
  BY InTable
  DEF removeStale, updateBegin, scan, readFirst, compare, mark, table, Types, TableOK
<1>3. Synced'
  BY <1>1, <1>2 DEF AgeInv, Synced, rx
<1>4. CASE updateBegin
  <2>1. loopPc = "idle" /\ loopPc' = "scan" /\ slot' = 1 /\ lag' = 0
    BY <1>4 DEF updateBegin
  <2>2. Aged'
    <3>1. ASSUME NEW i \in 1..peerCount, active'[i]
          PROVE  lastSeen[i] <= Stale + 0 + MaxLag
      <4>1. lastSeen[i] <= Stale + lag + 0
        BY <1>2, <2>1, <3>1 DEF AgeInv, Aged, Wait
      <4> QED BY <1>0, <4>1, <3>1, InTable
    <3> QED BY <1>1, <2>1, <3>1 DEF Aged, Wait
  <2> QED BY <1>3, <2>1, <2>2 DEF AgeInv, Operand
<1>5. CASE scan
  <2>1. UNCHANGED <<active, lag>> /\ loopPc = "scan" /\ loopPc' # "compare"
    BY <1>5 DEF scan, table
  <2>2. Aged'
    <3>1. ASSUME NEW i \in 1..peerCount, active[i]
          PROVE  lastSeen[i] <= Stale + lag + Wait(i)'
      <4>1. lastSeen[i] <= Stale + lag + Wait(i)
        BY <3>1 DEF AgeInv, Aged
      <4>2. Wait(i)' = Wait(i)
        <5>1. CASE slot > peerCount
          BY <1>0, <1>5, <5>1 DEF scan, Wait
        <5>2. CASE slot <= peerCount /\ active[slot]
          BY <1>0, <1>5, <5>2 DEF scan, Wait
        <5>3. CASE slot <= peerCount /\ ~active[slot]
          <6>1. slot' = slot + 1 /\ UNCHANGED loopPc
            BY <1>0, <1>5, <5>3 DEF scan
          <6>2. i # slot
            BY <3>1, <5>3
          <6> QED BY <1>0, <2>1, <6>1, <6>2 DEF Wait
        <5> QED BY <1>0, <5>1, <5>2, <5>3
      <4> QED BY <4>1, <4>2
    <3> QED BY <1>1, <2>1, <3>1 DEF Aged
  <2> QED BY <1>3, <2>1, <2>2 DEF AgeInv, Operand
<1>6. CASE readFirst
  <2>1. /\ UNCHANGED <<active, lag, slot>>
        /\ loopPc = "read" /\ loopPc' = "compare"
        /\ slot \in 1..peerCount /\ active[slot]
    BY <1>6 DEF readFirst, table, Types, LoopOK
  <2>2. Aged'
    BY <1>1, <2>1 DEF AgeInv, Aged, Wait
  <2>3. lastSeen[slot] <= Stale + lag + MaxLag /\ lastSeen[slot] \in Nat
    BY <1>0, <2>1, InTable DEF AgeInv, Aged, Wait
  <2>4. Operand'
    <3>1. CASE read' = "millis" /\ value' = 0
      BY <1>0, <2>1, <3>1 DEF Operand
    <3>2. CASE read' = "lastSeen" /\ value' = lastSeen[slot]
      BY <1>1, <2>1, <2>3, <3>2 DEF Operand
    <3> QED BY <1>6, <3>1, <3>2 DEF readFirst
  <2> QED BY <1>3, <2>2, <2>4 DEF AgeInv
<1>7. CASE compare
  <2>1. UNCHANGED <<active, lag>> /\ loopPc = "compare" /\ loopPc' # "compare"
    BY <1>7 DEF compare, table
  <2>2. Aged'
    <3>1. CASE loopPc' = "mark" /\ UNCHANGED slot
      BY <1>1, <2>1, <3>1 DEF AgeInv, Aged, Wait
    <3>2. CASE ~(Difference > Stale) /\ loopPc' = "scan" /\ slot' = slot + 1
      <4>1. Difference \in Int
        BY <2>1, Numbers DEF Difference, Types, LoopOK, TableOK, Time, Slots
      <4>2. lastSeen[slot] <= Stale + lag
        BY <1>0, <2>1, <3>2, <4>1, Passes
      <4>3. ASSUME NEW i \in 1..peerCount, active[i]
            PROVE  lastSeen[i] <= Stale + lag + Wait(i)'
        <5>1. CASE i = slot
          BY <1>0, <3>2, <4>2, <5>1 DEF Wait
        <5>2. CASE i # slot
          <6>1. Wait(i)' = Wait(i)
            BY <1>0, <2>1, <3>2, <5>2 DEF Wait
          <6> QED BY <4>3, <6>1 DEF AgeInv, Aged
        <5> QED BY <5>1, <5>2
      <4> QED BY <1>1, <2>1, <4>3 DEF Aged
    <3> QED BY <1>7, <3>1, <3>2 DEF compare
  <2> QED BY <1>3, <2>1, <2>2 DEF AgeInv, Operand
<1>8. CASE mark
  <2>1. /\ UNCHANGED lag /\ slot' = slot + 1 /\ loopPc = "mark"
        /\ loopPc' = "scan" /\ active' = [active EXCEPT ![slot] = FALSE]
        /\ slot \in 1..peerCount
    BY <1>8 DEF mark, Types, LoopOK
  <2>2. ASSUME NEW i \in 1..peerCount, active'[i]
        PROVE  lastSeen[i] <= Stale + lag + Wait(i)'
    <3>1. i # slot /\ active[i]
      BY <2>1, <2>2, <1>2, InTable DEF Types, TableOK
    <3>2. Wait(i)' = Wait(i)
      BY <1>0, <2>1, <3>1 DEF Wait
    <3> QED BY <3>1, <3>2 DEF AgeInv, Aged
  <2>3. Aged'
    BY <1>1, <2>1, <2>2 DEF Aged
  <2> QED BY <1>3, <2>1, <2>3 DEF AgeInv, Operand
<1> QED BY <1>4, <1>5, <1>6, <1>7, <1>8 DEF removeStale

\* No stamp of an active slot wraps.
LEMMA TickAges ==
  ASSUME Types, AgeInv, Tick, NEW i \in 1..peerCount, active[i]
  PROVE  lastSeen'[i] = lastSeen[i] + 1 /\ lastSeen[i] + 1 <= Latest
         /\ lastSeen[i] \in Nat
<1>0. /\ lag \in Nat /\ lag < MaxLag /\ Stale \in Nat /\ MaxLag \in Nat
      /\ Latest = Stale + 2 * MaxLag /\ Latest < TimeMod /\ TimeMod \in Nat
  BY InTable, Numbers DEF Tick
<1>1. lastSeen[i] \in Nat /\ i \in Slots /\ i <= peerCount
  BY InTable
<1>2. lastSeen[i] <= Stale + lag + MaxLag
  BY <1>0, <1>1 DEF AgeInv, Aged, Wait
<1>3. lastSeen[i] + 1 <= Latest
  BY ONLY <1>0, <1>1, <1>2
<1>4. Older(lastSeen[i]) = lastSeen[i] + 1
  BY <1>0, <1>1, <1>3, NoWrap
<1>5. lastSeen'[i] = Older(lastSeen[i])
  BY <1>1 DEF Tick
<1> QED BY <1>1, <1>3, <1>4, <1>5

\* The operand the loop holds does not wrap either.
LEMMA TickValue ==
  ASSUME Types, AgeInv, Tick, loopPc = "compare"
  PROVE  value' = value + 1 /\ value \in Nat
<1>0. /\ lag \in Nat /\ lag < MaxLag /\ Stale \in Nat /\ MaxLag \in Nat
      /\ Latest = Stale + 2 * MaxLag /\ Latest < TimeMod /\ TimeMod \in Nat
  BY InTable, Numbers DEF Tick
<1>1. value \in Nat /\ read \in {"millis", "lastSeen"}
  BY Numbers DEF Types, LoopOK, Time
<1>2. value <= Stale + lag + MaxLag
  BY <1>0, <1>1 DEF AgeInv, Operand
<1>3. value + 1 < TimeMod
  BY ONLY <1>0, <1>1, <1>2
<1> QED BY <1>1, <1>3, NoWrap DEF Tick

LEMMA AgeTick ==
  ASSUME Types, AgeInv, Tick PROVE AgeInv'
<1>0. /\ lag \in Nat /\ lag < MaxLag /\ lag' = lag + 1 /\ rxPc = "idle"
      /\ UNCHANGED <<peerCount, macAddr, active, loopPc, slot, read, rx>>
      /\ Stale \in Nat /\ MaxLag \in Nat
  BY InTable, Numbers DEF Tick
<1>1. ASSUME NEW i \in 1..peerCount, active[i]
      PROVE  lastSeen'[i] = lastSeen[i] + 1 /\ lastSeen[i] + 1 <= Latest
             /\ lastSeen[i] \in Nat
  BY <1>1, TickAges
<1>2. Aged'
  <2>1. ASSUME NEW i \in 1..peerCount, active[i]
        PROVE  lastSeen'[i] <= Stale + lag' + Wait(i)
    <3>1. Wait(i) \in Nat
      BY <1>0 DEF Wait
    <3>2. lastSeen[i] <= Stale + lag + Wait(i)
      BY <2>1 DEF AgeInv, Aged
    <3> QED BY <1>0, <1>1, <2>1, <3>1, <3>2
  <2> QED BY <1>0, <2>1 DEF Aged, Wait
<1>3. Synced'
  <2>1. ASSUME NEW i \in 1..peerCount, active[i]
        PROVE  silence'[macAddr[i]] = lastSeen'[i]
    <3>1. silence[macAddr[i]] = lastSeen[i] /\ macAddr[i] \in Senders
      BY <1>0, <2>1, InTable DEF AgeInv, Synced
    <3>2. lastSeen[i] < Latest /\ Latest \in Nat
      BY <1>1, <2>1, Numbers
    <3>3. silence' = [s \in Senders |-> IF silence[s] > Latest
                                      THEN silence[s] ELSE silence[s] + 1]
      BY DEF Tick
    <3>4. lastSeen[i] \in Nat /\ ~(lastSeen[i] > Latest)
      <4>1. lastSeen[i] \in Nat
        BY <1>1, <2>1
      <4> QED BY ONLY <3>2, <4>1
    <3>5. ~(silence[macAddr[i]] > Latest)
      BY ONLY <3>1, <3>4
    <3>6. silence'[macAddr[i]] = silence[macAddr[i]] + 1
      BY ONLY <3>1, <3>3, <3>5
    <3> QED BY <1>1, <2>1, <3>1, <3>6
  <2> QED BY <1>0, <2>1 DEF Synced, rx
<1>4. Operand'
  <2> SUFFICES ASSUME loopPc = "compare" PROVE Operand'
    BY <1>0 DEF Operand
  <2>1. slot \in 1..peerCount /\ active[slot] /\ value \in Nat
        /\ read \in {"millis", "lastSeen"}
    BY Numbers DEF Types, LoopOK, Time
  <2>3. value' = value + 1
    BY TickValue
  <2>4. lastSeen'[slot] = lastSeen[slot] + 1 /\ lastSeen[slot] \in Nat
    BY <1>1, <2>1
  <2> QED BY <1>0, <2>1, <2>3, <2>4 DEF AgeInv, Operand
<1> QED BY <1>2, <1>3, <1>4 DEF AgeInv

LEMMA AgeStep == Types /\ AgeInv /\ [Next]_vars => AgeInv'
<1> SUFFICES ASSUME Types, AgeInv, [Next]_vars PROVE AgeInv'
  OBVIOUS
<1>1. CASE UNCHANGED vars
  BY <1>1, AgeFrame DEF vars
<1>2. ASSUME NEW s \in Senders, sender(s) PROVE AgeInv'
  BY <1>2, AgeFrame DEF sender, begin, powerOff, update, sendActivityAlert
<1>3. CASE Restart
  <2>1. /\ peerCount' = 0 /\ rxPc' = "idle" /\ loopPc' = "idle"
        /\ \A i \in 1..0 : FALSE
    BY <1>3 DEF Restart
  <2> QED BY <2>1 DEF AgeInv, Aged, Synced, Operand
<1> QED
  BY <1>1, <1>2, <1>3, AgeReceive, AgeLoop, AgeTick DEF Next

LEMMA AgeInit == Init => AgeInv
<1> SUFFICES ASSUME Init PROVE AgeInv
  OBVIOUS
<1>1. /\ peerCount = 0 /\ rxPc = "idle" /\ loopPc = "idle"
      /\ \A i \in 1..0 : FALSE
  BY DEF Init
<1> QED BY <1>1 DEF AgeInv, Aged, Synced, Operand

\* A silent peer is inactive after the timeout and two turns of the loop, for
\* every timeout, watchdog and clock width with room for them.
THEOREM Dropped == Spec => []DroppedInTime
<1>1. ASSUME Types, AgeInv PROVE DroppedInTime
  <2>1. ASSUME NEW i \in 1..peerCount, active[i], rxPc = "idle"
        PROVE  silence[macAddr[i]] <= Latest
    <3>1. silence[macAddr[i]] = lastSeen[i] /\ lastSeen[i] \in Nat
      BY <1>1, <2>1, InTable DEF AgeInv, Synced
    <3>2. lastSeen[i] <= Stale + lag + Wait(i)
      BY <1>1, <2>1 DEF AgeInv, Aged
    <3>3. lag \in Nat /\ lag <= MaxLag /\ Wait(i) \in Nat /\ Wait(i) <= MaxLag
      BY <1>1, Numbers DEF Types, LoopOK, Wait
    <3> QED BY <3>1, <3>2, <3>3, Numbers
  <2> QED BY <2>1 DEF DroppedInTime
<1> QED BY <1>1, TypesInit, TypesStep, AgeInit, AgeStep, PTL DEF Spec

-----------------------------------------------------------------------------
(* A live peer is kept.                                                    *)

Tolerated == (MaxLoss + 1) * Gap

\* A frame of s is in the air, or found its slot and is not counted yet.
Pending(s) ==
  \/ \E i \in DOMAIN air : air[i] = s
  \/ rxPc = "seen" /\ macAddr[rxSlot] = s

\* The silence of a node that is on is made of lost heartbeats and the time
\* since the last one.
Beats ==
  \A s \in Senders : met[s] =>
    /\ silence[s] <= Tolerated
    /\ ~Pending(s) => silence[s] <= lost[s] * Gap + lastHeartbeat[s]

\* Without a frame in between, what the loop computes is the age of the slot.
Alone ==
  loopPc \in {"compare", "mark"} /\ ~overlap =>
    /\ rxPc = "idle"
    /\ read = "lastSeen" => value = lastSeen[slot]
    /\ read = "millis" => value <= lastSeen[slot]
    /\ loopPc = "mark" => lastSeen[slot] > Stale

LEMMA Losses ==
  ASSUME NEW n \in 0..MaxLoss
  PROVE  /\ n * Gap \in Nat /\ n * Gap + Gap = (n + 1) * Gap
         /\ n * Gap + Gap <= Tolerated /\ Tolerated \in Nat
<1>1. n \in Nat /\ Gap \in Nat /\ MaxLoss \in Nat /\ MaxLoss - n \in Nat
  BY Numbers
<1>2. n * Gap \in Nat /\ n * Gap + Gap = (n + 1) * Gap /\ Tolerated \in Nat
  BY <1>1 DEF Tolerated
<1>3. Tolerated - (n + 1) * Gap = (MaxLoss - n) * Gap
  BY <1>1 DEF Tolerated
<1>4. (MaxLoss - n) * Gap \in Nat
  BY <1>1
<1> QED BY <1>1, <1>2, <1>3, <1>4

LEMMA Delivers ==
  ASSUME Types, NEW s \in Senders, deliver(s)
  PROVE  /\ \E i \in DOMAIN air' : air'[i] = s
         /\ \A u \in Senders : (\E i \in DOMAIN air : air[i] = u)
                                 => \E i \in DOMAIN air' : air'[i] = u
<1>1. CASE air' = air /\ \E i \in DOMAIN air : air[i] = s
  BY <1>1
<1>2. CASE air' = Append(air, s)
  <2>1. /\ Len(air) \in Nat /\ DOMAIN air = 1..Len(air)
        /\ DOMAIN air' = 1..(Len(air) + 1)
        /\ \A i \in 1..Len(air) : air'[i] = air[i]
        /\ air'[Len(air) + 1] = s
    BY <1>2, AppendProperties, LenProperties DEF Types, SendersOK
  <2>2. Len(air) + 1 \in DOMAIN air' /\ \A i \in DOMAIN air : i \in DOMAIN air'
    BY <2>1
  <2> QED BY <2>1, <2>2
<1> QED BY <1>1, <1>2 DEF deliver

\* Taking a frame leaves those of the other senders.
LEMMA Leaves ==
  ASSUME Types, NEW s, Arrives(s), NEW u \in Senders, u # s,
         \E i \in DOMAIN air : air[i] = u
  PROVE  \E i \in DOMAIN air' : air'[i] = u
<1>1. PICK i \in DOMAIN air : air[i] = u
  OBVIOUS
<1>2. /\ air # <<>> /\ air \in Seq(Senders) /\ s = air[1] /\ air' = Tail(air)
  BY DEF Arrives, Types, SendersOK
<1>3. /\ Len(air) \in Nat \ {0} /\ DOMAIN air = 1..Len(air)
      /\ DOMAIN air' = 1..(Len(air) - 1)
      /\ \A j \in 1..(Len(air) - 1) : air'[j] = air[j + 1]
  BY <1>2, HeadTailProperties, LenProperties, EmptySeq
<1>4. i # 1 /\ i - 1 \in 1..(Len(air) - 1) /\ (i - 1) + 1 = i
  BY <1>1, <1>2, <1>3
<1> QED BY <1>1, <1>3, <1>4

LEMMA BeatsSender ==
  ASSUME Types, Beats, NEW s \in Senders, sender(s) PROVE Beats'
<1>0. UNCHANGED <<silence, rxPc, rxSlot, macAddr>>
  BY DEF sender, begin, powerOff, update, sendActivityAlert, table, rx
<1>1. ASSUME NEW u \in Senders, Pending(u) PROVE Pending(u)'
  <2>1. CASE UNCHANGED air
    BY <1>0, <1>1, <2>1 DEF Pending
  <2>2. CASE deliver(s)
    BY <1>0, <1>1, <2>2, Delivers DEF Pending
  <2> QED
    BY <2>1, <2>2
    DEF sender, begin, powerOff, update, sendActivityAlert, sendHeartbeat
<1>2. ASSUME NEW u \in Senders, u # s
      PROVE  /\ lost'[u] = lost[u] /\ lastHeartbeat'[u] = lastHeartbeat[u]
             /\ met'[u] = met[u]
  BY <1>2
  DEF sender, begin, powerOff, update, sendActivityAlert, sendHeartbeat,
      senders, Types, SendersOK, HistoryOK
<1>3. ASSUME met'[s]
      PROVE  /\ silence[s] <= Tolerated
             /\ ~Pending(s)' => silence[s] <= lost'[s] * Gap + lastHeartbeat'[s]
  <2>1. CASE begin(s)
    BY <1>3, <2>1 DEF begin, Types, HistoryOK
  <2>2. CASE powerOff(s)
    BY <1>3, <2>2 DEF powerOff, Types, HistoryOK
  <2>3. CASE deliver(s) /\ UNCHANGED met
    BY <1>3, <2>3, Delivers DEF Beats, Pending
  <2>4. CASE UNCHANGED <<lost, lastHeartbeat, met>>
    BY <1>1, <1>3, <2>4 DEF Beats
  <2>5. CASE /\ lost[s] < MaxLoss /\ lost' = [lost EXCEPT ![s] = @ + 1]
             /\ lastHeartbeat' = [lastHeartbeat EXCEPT ![s] = 0]
             /\ UNCHANGED met
    <3>1. /\ lost'[s] = lost[s] + 1 /\ lastHeartbeat'[s] = 0
          /\ lost[s] \in 0..MaxLoss
      BY <2>5 DEF Types, SendersOK
    <3>2. lastHeartbeat[s] <= Gap /\ lastHeartbeat[s] \in Nat
      <4>1. /\ lastHeartbeat[s] <= Heartbeat - 1 + lagAt[s]
            /\ lagAt[s] \in 0..MaxLag /\ lastHeartbeat[s] \in Time
        BY DEF Types, SendersOK
      <4> QED BY <4>1, Numbers DEF Time
    <3>3. lost[s] * Gap \in Nat /\ lost[s] * Gap + Gap = lost'[s] * Gap
      BY <3>1, Losses
    <3>4. silence[s] \in Nat
      BY Numbers DEF Types, HistoryOK
    <3>5. ASSUME ~Pending(s)'
          PROVE  silence[s] <= lost'[s] * Gap + lastHeartbeat'[s]
      <4>1. silence[s] <= lost[s] * Gap + lastHeartbeat[s]
        BY <1>1, <1>3, <2>5, <3>5 DEF Beats
      <4>2. Gap \in Nat /\ lost'[s] * Gap \in Nat
        BY <3>3, Numbers
      <4> QED BY <3>1, <3>2, <3>3, <3>4, <4>1, <4>2
    <3> QED BY <1>3, <2>5, <3>5 DEF Beats
  <2> QED
    BY <2>1, <2>2, <2>3, <2>4, <2>5
    DEF sender, update, sendActivityAlert, sendHeartbeat, senders
<1>4. ASSUME NEW u \in Senders, met'[u]
      PROVE  /\ silence'[u] <= Tolerated
             /\ ~Pending(u)' => silence'[u] <= lost'[u] * Gap + lastHeartbeat'[u]
  <2>1. CASE u = s
    BY <1>0, <1>3, <1>4, <2>1
  <2>2. CASE u # s
    BY <1>0, <1>1, <1>2, <1>4, <2>2 DEF Beats
  <2> QED BY <2>1, <2>2
<1> QED BY <1>4 DEF Beats

LEMMA BeatsReceive ==
  ASSUME Types, Beats, receive PROVE Beats'
<1>1. UNCHANGED <<lost, lastHeartbeat>>
  BY DEF receive, ignore, handleMessage, setSeen, setActive, senders
<1>2. ASSUME NEW u \in Senders, met'[u] = met[u], silence'[u] = silence[u],
             Pending(u) => Pending(u)', met'[u]
      PROVE  /\ silence'[u] <= Tolerated
             /\ ~Pending(u)' => silence'[u] <= lost'[u] * Gap + lastHeartbeat'[u]
  BY <1>1, <1>2 DEF Beats
<1>3. ASSUME NEW s \in Senders, ignore(s) PROVE Beats'
  <2>1. UNCHANGED <<met, silence, macAddr, rx>> /\ Arrives(s)
    BY <1>3 DEF ignore, table
  <2>2. ~met[s]
    <3> SUFFICES ASSUME met[s] PROVE FALSE
      OBVIOUS
    <3>1. PICK i \in 1..peerCount : macAddr[i] = s
      BY DEF Types, HistoryOK
    <3>2. nodeID[s] # myNodeID
      BY <3>1, InTable DEF Types, TableOK
    <3> QED BY <1>3, <3>1, <3>2 DEF ignore, findPeer
  <2>3. ASSUME NEW u \in Senders, u # s, Pending(u) PROVE Pending(u)'
    BY <2>1, <2>3, Leaves DEF Pending, rx
  <2> QED BY <1>2, <2>1, <2>2, <2>3 DEF Beats
<1>4. ASSUME NEW s \in Senders, handleMessage(s) PROVE Beats'
  <2>1. UNCHANGED <<met, silence>> /\ Arrives(s) /\ rxPc' = "seen" /\ rxPc = "idle"
    BY <1>4 DEF handleMessage, Arrives
  <2>2. macAddr'[rxSlot'] = s
    <3>1. CASE rxSlot' \in findPeer(s) /\ UNCHANGED table
      BY <3>1 DEF findPeer, table
    <3>2. CASE addPeer(s)
      <4>1. peerCount + 1 \in Slots
        BY <3>2, InTable, Numbers DEF addPeer, Slots
      <4> QED BY <3>2, <4>1 DEF addPeer, Types, TableOK
    <3> QED BY <1>4, <3>1, <3>2 DEF handleMessage
  <2>3. ASSUME NEW u \in Senders, Pending(u) PROVE Pending(u)'
    BY <2>1, <2>2, <2>3, Leaves DEF Pending
  <2> QED BY <1>2, <2>1, <2>3 DEF Beats
<1>5. CASE setSeen
  <2>1. /\ rxPc = "seen" /\ rxSlot \in 1..peerCount /\ macAddr[rxSlot] \in Senders
        /\ silence' = [silence EXCEPT ![macAddr[rxSlot]] = 0]
        /\ met' = [met EXCEPT ![macAddr[rxSlot]] = on[macAddr[rxSlot]]]
        /\ UNCHANGED <<air, macAddr>>
    BY <1>5, InTable DEF setSeen, Types, RxOK
  <2>2. ASSUME NEW u \in Senders, u # macAddr[rxSlot], met'[u]
        PROVE  /\ silence'[u] <= Tolerated
               /\ ~Pending(u)' => silence'[u] <= lost'[u] * Gap + lastHeartbeat'[u]
    <3>1. silence'[u] = silence[u] /\ met'[u] = met[u]
      BY <2>1, <2>2 DEF Types, HistoryOK
    <3>2. Pending(u) => Pending(u)'
      BY <2>1, <2>2 DEF Pending
    <3> QED BY <1>2, <2>2, <3>1, <3>2
  <2>3. ASSUME NEW u \in Senders, u = macAddr[rxSlot]
        PROVE  /\ silence'[u] <= Tolerated
               /\ silence'[u] <= lost'[u] * Gap + lastHeartbeat'[u]
    <3>1. silence'[u] = 0
      BY <2>1, <2>3 DEF Types, HistoryOK
    <3>2. lost'[u] \in 0..MaxLoss /\ lastHeartbeat'[u] \in Nat
      BY <1>1, Numbers DEF Types, SendersOK, Time
    <3>3. lost'[u] * Gap \in Nat /\ Tolerated \in Nat
      BY <3>2, Losses
    <3> QED BY <3>1, <3>2, <3>3
  <2> QED BY <2>2, <2>3 DEF Beats
<1>6. CASE setActive
  <2>1. \A u \in Senders : Pending(u) => Pending(u)'
    BY <1>6 DEF setActive, Pending
  <2> QED BY <1>2, <1>6, <2>1 DEF setActive, Beats
<1> QED BY <1>3, <1>4, <1>5, <1>6 DEF receive

LEMMA BeatsTick ==
  ASSUME Types, Beats, Tick PROVE Beats'
<1> SUFFICES ASSUME NEW u \in Senders, met'[u]
             PROVE  /\ silence'[u] <= Tolerated
                    /\ silence'[u] <= lost'[u] * Gap + lastHeartbeat'[u]
  BY DEF Beats
<1>1. met[u] /\ on[u] /\ lost'[u] = lost[u] /\ lost[u] \in 0..MaxLoss
  BY DEF Tick, Types, HistoryOK, SendersOK
<1>2. ~Pending(u)
  <2>1. \A i \in DOMAIN <<>> : FALSE
    OBVIOUS
  <2> QED BY <2>1 DEF Tick, Pending
<1>3. silence[u] <= lost[u] * Gap + lastHeartbeat[u]
  BY <1>1, <1>2 DEF Beats
<1>4. /\ lastHeartbeat'[u] = lastHeartbeat[u] + 1 /\ lastHeartbeat[u] \in Nat
      /\ lastHeartbeat[u] + 1 <= Gap
  <2>1. /\ lastHeartbeat[u] <= Heartbeat - 1 + lagAt[u]
        /\ lagAt[u] \in 0..MaxLag /\ lagAt[u] < MaxLag
        /\ lastHeartbeat[u] \in Time
    BY <1>1 DEF Tick, Types, SendersOK
  <2>2. lastHeartbeat[u] \in Nat /\ lastHeartbeat[u] + 1 <= Gap
    BY <2>1, Numbers DEF Time
  <2>3. Older(lastHeartbeat[u]) = lastHeartbeat[u] + 1
    BY <2>2, NoWrap, Numbers
  <2> QED BY <1>1, <2>2, <2>3 DEF Tick
<1>5. silence[u] \in Nat /\ silence'[u] \in Nat /\ silence'[u] <= silence[u] + 1
  BY Numbers DEF Tick, Types, HistoryOK
<1>6. /\ lost[u] * Gap \in Nat /\ lost[u] * Gap + Gap <= Tolerated
      /\ Tolerated \in Nat /\ Gap \in Nat
  BY <1>1, Losses, Numbers
<1> QED BY <1>1, <1>3, <1>4, <1>5, <1>6

LEMMA BeatsStep == Types /\ Beats /\ [Next]_vars => Beats'
<1> SUFFICES ASSUME Types, Beats, [Next]_vars PROVE Beats'
  OBVIOUS
<1>1. CASE removeStale \/ UNCHANGED vars
  <2>1. UNCHANGED <<lost, lastHeartbeat, air, macAddr, rxPc, rxSlot, silence, met>>
    BY <1>1
    DEF removeStale, updateBegin, scan, readFirst, compare, mark, vars, senders,
        table, rx
  <2> QED BY <2>1 DEF Beats, Pending
<1>2. CASE Restart
  BY <1>2 DEF Restart, Beats
<1> QED
  BY <1>1, <1>2, BeatsSender, BeatsReceive, BeatsTick DEF Next

LEMMA AloneStep ==
  ASSUME Types, AgeInv, Alone, [Next]_vars PROVE Alone'
<1>1. CASE UNCHANGED <<table, loop, rx, overlap>>
  BY <1>1 DEF Alone, table, loop, rx
<1>2. ASSUME NEW s \in Senders, sender(s) \/ ignore(s) PROVE Alone'
  BY <1>1, <1>2
  DEF sender, begin, powerOff, update, sendActivityAlert, ignore
<1>3. CASE (\E s \in Senders : handleMessage(s)) \/ setSeen \/ setActive
  <2>1. overlap' = TRUE
    BY <1>3 DEF handleMessage, setSeen, setActive
  <2> QED BY <2>1 DEF Alone
<1>4. CASE updateBegin \/ scan \/ mark \/ Restart
  <2>1. loopPc' \notin {"compare", "mark"}
    BY <1>4 DEF updateBegin, scan, mark, Restart
  <2> QED BY <2>1 DEF Alone
<1>5. CASE readFirst
  <2>1. slot \in 1..peerCount /\ loopPc' = "compare"
    BY <1>5 DEF readFirst, Types, LoopOK
  <2>2. lastSeen[slot] \in Nat
    BY <2>1, InTable
  <2>3. ~overlap' => rxPc' = "idle"
    BY <1>5 DEF readFirst, rx
  <2>4. CASE read' = "millis" /\ value' = 0
    BY <1>5, <2>1, <2>2, <2>3, <2>4 DEF readFirst, Alone, table
  <2>5. CASE read' = "lastSeen" /\ value' = lastSeen[slot]
    BY <1>5, <2>1, <2>3, <2>5 DEF readFirst, Alone, table
  <2> QED BY <1>5, <2>4, <2>5 DEF readFirst
<1>6. CASE compare
  <2>1. /\ loopPc = "compare" /\ read' = "none" /\ loopPc' # "compare"
        /\ UNCHANGED <<table, rx, overlap>>
        /\ loopPc' = "mark" => Difference > Stale /\ UNCHANGED slot
    BY <1>6 DEF compare
  <2>2. ASSUME ~overlap, Difference > Stale PROVE lastSeen[slot] > Stale
    <3>1. slot \in 1..peerCount /\ value \in Nat /\ read \in {"millis", "lastSeen"}
      BY <2>1, Numbers DEF Types, LoopOK, Time
    <3>2. lastSeen[slot] \in Nat /\ lastSeen[slot] < TimeMod
      BY <3>1, InTable
    <3>3. CASE read = "lastSeen"
      BY <2>1, <2>2, <3>3 DEF Alone, Difference
    <3>4. CASE read = "millis"
      <4>1. value <= lastSeen[slot]
        BY <2>1, <2>2, <3>4 DEF Alone
      <4>2. lastSeen[slot] - value \in 0..(TimeMod - 1)
        BY <3>1, <3>2, <4>1, Numbers
      <4>3. (lastSeen[slot] - value) % TimeMod = lastSeen[slot] - value
        BY <4>2, Numbers
      <4>4. Difference = lastSeen[slot] - value
        BY <3>4, <4>3 DEF Difference
      <4> QED BY <2>2, <3>1, <3>2, <4>4, Numbers
    <3> QED BY <3>1, <3>3, <3>4
  <2> QED BY <2>1, <2>2 DEF Alone, table, rx
<1>7. CASE Tick
  <2> SUFFICES ASSUME loopPc' \in {"compare", "mark"}, ~overlap' PROVE Alone'
    BY DEF Alone
  <2>1. /\ loopPc \in {"compare", "mark"} /\ ~overlap
        /\ UNCHANGED <<loopPc, read, slot, rxPc>>
        /\ slot \in 1..peerCount /\ active[slot]
    BY <1>7 DEF Tick, Types, LoopOK, rx
  <2>2. lastSeen'[slot] = lastSeen[slot] + 1 /\ lastSeen[slot] \in Nat
    BY <1>7, <2>1, TickAges
  <2>3. CASE loopPc = "compare"
    <3>1. value' = value + 1 /\ value \in Nat
      BY <1>7, <2>3, TickValue
    <3> QED BY <2>1, <2>2, <2>3, <3>1 DEF Alone
  <2>4. CASE loopPc = "mark"
    <3>1. read = "none"
      BY <2>4 DEF Types, LoopOK
    <3> QED BY <2>1, <2>2, <2>4, <3>1, Numbers DEF Alone
  <2> QED BY <2>1, <2>3, <2>4
<1>8. CASE UNCHANGED vars
  BY <1>1, <1>8 DEF vars
<1> QED
  BY <1>2, <1>3, <1>4, <1>5, <1>6, <1>7, <1>8 DEF Next, receive, removeStale

\* A node that is on, beats, and loses no more heartbeats in a row than the
\* timeout has room for is never dropped, but for a frame between the test of
\* its slot and the store.
THEOREM LiveKept ==
  ASSUME (MaxLoss + 1) * Gap <= Stale
  PROVE  Spec => LivePeerKept
<1>1. Init => Beats /\ Alone
  BY DEF Init, Beats, Alone
<1>2. ASSUME Types, AgeInv, Beats, Alone, [Next]_vars,
             NEW i \in 1..peerCount,
             active[i], met[macAddr[i]], ~overlap, peerCount' # 0
      PROVE  active'[i]
  <2>0. i \in Slots /\ i # peerCount + 1 /\ macAddr[i] \in Senders
    BY <1>2, InTable
  <2>1. CASE mark
    <3> SUFFICES ASSUME i = slot PROVE FALSE
      BY <1>2, <2>0, <2>1 DEF mark, Types, TableOK
    <3>1. rxPc = "idle" /\ lastSeen[i] > Stale
      BY <1>2, <2>1 DEF mark, Alone
    <3>2. silence[macAddr[i]] = lastSeen[i]
      BY <1>2, <3>1 DEF AgeInv, Synced
    <3>3. silence[macAddr[i]] <= Tolerated /\ Tolerated \in Nat
      BY <1>2, <2>0, Losses, Numbers DEF Beats
    <3>4. lastSeen[i] \in Nat /\ Stale \in Nat /\ Tolerated <= Stale
      BY <1>2, InTable, Numbers DEF Tolerated
    <3> QED BY <3>1, <3>2, <3>3, <3>4
  <2>2. CASE UNCHANGED active
    BY <1>2, <2>2
  <2>3. CASE \E s \in Senders : addPeer(s)
    BY <1>2, <2>0, <2>3 DEF addPeer, Types, TableOK
  <2>4. CASE setActive
    BY <1>2, <2>0, <2>4 DEF setActive, Types, TableOK
  <2>5. CASE Restart
    BY <1>2, <2>5 DEF Restart
  <2> QED
    BY <1>2, <2>1, <2>2, <2>3, <2>4, <2>5
    DEF Next, vars, table, sender, begin, powerOff, update, sendActivityAlert,
        receive, ignore, handleMessage, setSeen, removeStale, updateBegin, scan,
        readFirst, compare, Tick
<1>3. Types /\ AgeInv /\ Beats /\ Alone /\ [Next]_vars =>
        [\A i \in 1..peerCount :
           /\ active[i] /\ met[macAddr[i]] /\ ~overlap
           /\ peerCount' # 0
           => active'[i]]_vars
  BY <1>2
<1>4. Types /\ AgeInv /\ Alone /\ [Next]_vars => Alone'
  BY AloneStep
<1> QED
  BY <1>1, <1>3, <1>4, TypesInit, TypesStep, AgeInit, AgeStep, BeatsStep, PTL
  DEF Spec, LivePeerKept

-----------------------------------------------------------------------------
(* The table implements Neighbours: a frame is heard when its slot is found *)
(* or taken, a node goes when the loop stores active, and the other steps   *)
(* of the two threads cannot be told from outside.                          *)

\* While a frame is handled the loop is told of it.
Noted == rxPc # "idle" => overlap

LEMMA NotedStep == ASSUME Noted, [Next]_vars PROVE Noted'
BY DEF Noted, Next, vars, sender, begin, powerOff, update, sendActivityAlert,
       receive, ignore, handleMessage, setSeen, setActive, removeStale,
       updateBegin, scan, readFirst, compare, mark, Tick, Restart, rx

LEMMA AroundFrame ==
  ASSUME UNCHANGED <<peerCount, macAddr, active, rx, silence, overlap>>
  PROVE  [Around!Next]_(Around!state)
<1>1. UNCHANGED <<knownNodes, presentNodes, silences>>
  BY DEF knownNodes, presentNodes, silences, Handled, rx
<1> QED BY <1>1 DEF Around!state

LEMMA KnownPeers ==
  ASSUME Types
  PROVE  /\ knownNodes \subseteq Others /\ presentNodes \subseteq knownNodes
         /\ \A i \in 1..peerCount : macAddr[i] \in Others
<1>1. \A i \in 1..peerCount : macAddr[i] \in Others
  BY InTable DEF Others, Types, TableOK
<1> QED BY <1>1 DEF knownNodes, presentNodes

LEMMA AroundHear ==
  ASSUME Types, NEW s \in Senders, handleMessage(s)
  PROVE  s \in Others /\ Around!Hear(s)
<1>1. /\ rxPc = "idle" /\ rxPc' = "seen" /\ overlap' = TRUE
      /\ silence' = silence /\ s \in Others
  BY DEF handleMessage, Arrives, Others
<1>2. /\ peerCount \in Nat
      /\ \A i \in 1..peerCount : i \in Slots /\ i # peerCount + 1
  BY InTable
<1>3. /\ rxSlot' \in 1..peerCount' /\ macAddr'[rxSlot'] = s
      /\ \A i \in 1..peerCount : /\ macAddr'[i] = macAddr[i]
                                 /\ active'[i] = active[i]
      /\ \A i \in 1..peerCount' : i \in 1..peerCount \/ i = rxSlot'
      /\ \A i \in 1..peerCount : i \in 1..peerCount'
  <2>1. CASE rxSlot' \in findPeer(s) /\ UNCHANGED table
    BY <2>1 DEF findPeer, table
  <2>2. CASE addPeer(s)
    <3>1. /\ peerCount' = peerCount + 1 /\ rxSlot' = peerCount + 1
          /\ peerCount + 1 \in Slots
      BY <1>2, <2>2, Numbers DEF addPeer, Slots
    <3>2. macAddr'[peerCount + 1] = s
      BY <2>2, <3>1 DEF addPeer, Types, TableOK
    <3>3. \A i \in 1..peerCount : /\ macAddr'[i] = macAddr[i]
                                  /\ active'[i] = active[i]
      BY <1>2, <2>2 DEF addPeer, Types, TableOK
    <3> QED BY <1>2, <3>1, <3>2, <3>3
  <2> QED BY <2>1, <2>2 DEF handleMessage
<1>4. knownNodes' = knownNodes \cup {s}
  <2>1. \A e : e \in knownNodes' <=> e \in knownNodes \cup {s}
    BY <1>3 DEF knownNodes
  <2> QED BY <2>1
<1>5. presentNodes' = presentNodes \cup {s}
  <2>1. \A i \in 1..peerCount : ~Handled(i)
    BY <1>1 DEF Handled
  <2>2. \A i \in 1..peerCount' : Handled(i)' <=> i = rxSlot'
    BY <1>1 DEF Handled
  <2>3. \A e : e \in presentNodes' <=> e \in presentNodes \cup {s}
    BY <1>3, <2>1, <2>2 DEF presentNodes
  <2> QED BY <2>3
<1>6. silences' = [silences EXCEPT ![s] = 0]
  <2>1. \A n \in Others : silences[n] = IF n \notin knownNodes THEN 0 ELSE silence[n]
    BY <1>1 DEF silences
  <2>2. \A n \in Others : silences'[n] = IF n = s THEN 0 ELSE silences[n]
    BY <1>1, <1>3, <1>4, <2>1 DEF silences
  <2> QED BY <1>1, <2>2 DEF silences
<1>7. \/ s \in knownNodes /\ UNCHANGED peerCount
      \/ s \notin knownNodes /\ peerCount < MaxPeers /\ peerCount' = peerCount + 1
  BY DEF handleMessage, addPeer, findPeer, knownNodes, table
<1> QED BY <1>1, <1>4, <1>5, <1>6, <1>7 DEF Around!Hear

\* The rest of the frame's handling cannot be seen.
LEMMA AroundHandled ==
  ASSUME Types, Noted, setSeen \/ setActive
  PROVE  UNCHANGED Around!state
<1>1. /\ UNCHANGED <<peerCount, macAddr>> /\ overlap = TRUE /\ overlap' = TRUE
      /\ rxPc # "idle" /\ rxSlot \in 1..peerCount /\ rxSlot \in Slots
  <2>1. overlap' = TRUE /\ rxPc # "idle" /\ UNCHANGED <<peerCount, macAddr>>
    BY DEF setSeen, setActive
  <2>2. overlap = TRUE
    BY <2>1 DEF Noted, Types, HistoryOK
  <2>3. rxSlot \in 1..peerCount
    BY <2>1 DEF Types, RxOK
  <2> QED BY <2>1, <2>2, <2>3, InTable
<1>2. knownNodes' = knownNodes
  BY <1>1 DEF knownNodes
<1>3. presentNodes' = presentNodes
  <2>1. ASSUME NEW i \in 1..peerCount
        PROVE  (active'[i] \/ Handled(i)') <=> (active[i] \/ Handled(i))
    <3>1. CASE setSeen
      BY <3>1 DEF setSeen, Handled
    <3>2. CASE setActive
      <4>1. /\ active' = [active EXCEPT ![rxSlot] = TRUE] /\ rxPc' = "idle"
            /\ i \in Slots
        BY <3>2, InTable DEF setActive
      <4> QED BY <1>1, <4>1 DEF Handled, Types, TableOK
    <3> QED BY <3>1, <3>2
  <2> QED BY <1>1, <2>1 DEF presentNodes
<1>4. silences' = silences
  <2>1. CASE setSeen
    <3>1. /\ rxPc = "seen" /\ rxPc' = "active"
          /\ silence' = [silence EXCEPT ![macAddr[rxSlot]] = 0]
          /\ macAddr[rxSlot] \in Senders
      BY <1>1, <2>1, InTable DEF setSeen
    <3>2. \A n \in Others : silence'[n] = IF n = macAddr[rxSlot] THEN 0 ELSE silence[n]
      BY <3>1 DEF Others, Types, HistoryOK
    <3> QED BY <1>1, <1>2, <3>1, <3>2 DEF silences
  <2>2. CASE setActive
    BY <1>1, <1>2, <2>2 DEF setActive, silences
  <2> QED BY <2>1, <2>2
<1> QED BY <1>1, <1>2, <1>3, <1>4 DEF Around!state

LEMMA AroundLook ==
  ASSUME Types, Noted, readFirst PROVE [Around!Next]_(Around!state)
<1>1. UNCHANGED <<peerCount, macAddr, active, rx, silence>>
  BY DEF readFirst, table
<1>2. UNCHANGED <<knownNodes, presentNodes, silences>>
  BY <1>1 DEF knownNodes, presentNodes, silences, Handled, rx
<1>3. CASE rxPc = "idle"
  <2>1. overlap' = FALSE
    BY <1>3 DEF readFirst
  <2> QED BY <1>1, <1>2, <2>1 DEF Around!Next, Around!Look
<1>4. CASE rxPc # "idle"
  <2>1. overlap' = TRUE /\ overlap = TRUE
    BY <1>4 DEF readFirst, Noted, Types, HistoryOK
  <2> QED BY <1>1, <1>2, <2>1 DEF Around!state
<1> QED BY <1>3, <1>4

LEMMA AroundDrop ==
  ASSUME Types, AgeInv, Alone, mark PROVE [Around!Next]_(Around!state)
<1>1. /\ slot \in 1..peerCount /\ slot \in Slots /\ loopPc = "mark"
      /\ active[slot] /\ active' = [active EXCEPT ![slot] = FALSE]
      /\ UNCHANGED <<peerCount, macAddr, rx, silence, overlap>>
  BY InTable DEF mark, Types, LoopOK
<1>2. UNCHANGED <<knownNodes, silences>>
  BY <1>1 DEF knownNodes, silences, rx
<1>3. \A i \in 1..peerCount :
        /\ active'[i] = IF i = slot THEN FALSE ELSE active[i]
        /\ Handled(i)' = Handled(i)
  BY <1>1, InTable DEF Types, TableOK, Handled, rx
<1>4. CASE Handled(slot)
  <2>1. \A i \in 1..peerCount :
          (active'[i] \/ Handled(i)') <=> (active[i] \/ Handled(i))
    BY <1>3, <1>4
  <2>2. presentNodes' = presentNodes
    BY <1>1, <2>1 DEF presentNodes
  <2> QED BY <1>1, <1>2, <2>2 DEF Around!state
<1>5. CASE ~Handled(slot)
  <2> DEFINE n == macAddr[slot]
  <2>1. n \in Others /\ n \in knownNodes /\ n \in presentNodes
    BY <1>1, KnownPeers DEF knownNodes, presentNodes
  <2>2. \A i \in 1..peerCount : macAddr[i] = n <=> i = slot
    BY <1>1 DEF Types, TableOK, PeersDistinct
  <2>3. presentNodes' = presentNodes \ {n}
    <3>1. \A i \in 1..peerCount :
            (active'[i] \/ Handled(i)') <=> (active[i] \/ Handled(i)) /\ i # slot
      BY <1>3, <1>5
    <3>2. \A e : e \in presentNodes' <=> e \in presentNodes \ {n}
      BY <1>1, <2>2, <3>1 DEF presentNodes
    <3> QED BY <3>2
  <2>4. overlap \/ silences[n] > Stale
    <3>1. ASSUME ~overlap PROVE silences[n] > Stale
      <4>1. rxPc = "idle" /\ lastSeen[slot] > Stale
        BY <1>1, <3>1 DEF Alone
      <4>2. silence[n] = lastSeen[slot]
        BY <1>1, <4>1 DEF AgeInv, Synced
      <4>3. silences[n] = silence[n]
        BY <2>1, <4>1 DEF silences
      <4> QED BY <4>1, <4>2, <4>3
    <3> QED BY <3>1
  <2>5. Around!Drop(n)
    BY <1>1, <1>2, <2>1, <2>3, <2>4 DEF Around!Drop
  <2> QED BY <2>1, <2>5 DEF Around!Next
<1> QED BY <1>4, <1>5

LEMMA AroundPass ==
  ASSUME Types, AgeInv, Tick PROVE Around!Pass
<1>1. /\ UNCHANGED <<peerCount, macAddr, active, rx, overlap>> /\ rxPc = "idle"
      /\ rxPc' = "idle" /\ rxSlot' = rxSlot
      /\ silence' = [s \in Senders |-> IF silence[s] > Latest THEN silence[s]
                                       ELSE silence[s] + 1]
  BY DEF Tick, rx
<1>2. knownNodes' = knownNodes /\ presentNodes' = presentNodes
  BY <1>1 DEF knownNodes, presentNodes, Handled, rx
<1>3. /\ \A n \in Others : /\ silences[n] = IF n \notin knownNodes THEN 0 ELSE silence[n]
                           /\ silences'[n] = IF n \notin knownNodes THEN 0 ELSE silence'[n]
                           /\ n \in Senders
  BY <1>1, <1>2 DEF silences, Others
<1>4. silences' = [n \in Others |-> IF n \notin knownNodes THEN 0
                                    ELSE IF silences[n] > Latest THEN silences[n]
                                    ELSE silences[n] + 1]
  <2>1. ASSUME NEW n \in Others
        PROVE  silences'[n] = IF n \notin knownNodes THEN 0
                              ELSE IF silences[n] > Latest THEN silences[n]
                              ELSE silences[n] + 1
    BY <1>1, <1>3
  <2> QED BY <1>1, <1>2, <2>1 DEF silences
<1>5. ASSUME NEW n \in presentNodes PROVE silences'[n] <= Latest
  <2>1. PICK i \in 1..peerCount : active[i] /\ n = macAddr[i]
    BY <1>1 DEF presentNodes, Handled
  <2>2. n \in Others /\ n \in knownNodes
    BY KnownPeers
  <2>3. AgeInv'
    BY AgeTick
  <2>4. silence'[n] = lastSeen'[i]
    BY <1>1, <2>1, <2>3 DEF AgeInv, Synced
  <2>5. lastSeen'[i] <= Latest
    BY <2>1, TickAges
  <2> QED BY <1>3, <2>2, <2>4, <2>5
<1> QED BY <1>1, <1>2, <1>4, <1>5 DEF Around!Pass

LEMMA AroundRestart == ASSUME Restart PROVE Around!StartAgain
<1>1. peerCount' = 0 /\ rxPc' = "idle" /\ overlap' = FALSE /\ 1..0 = {}
  BY DEF Restart
<1>2. knownNodes' = {} /\ presentNodes' = {}
  BY <1>1 DEF knownNodes, presentNodes
<1>3. silences' = [n \in Others |-> 0]
  BY <1>2 DEF silences
<1> QED BY <1>1, <1>2, <1>3 DEF Around!StartAgain

LEMMA AroundInit == Init => Around!Init
<1> SUFFICES ASSUME Init PROVE Around!Init
  OBVIOUS
<1>1. peerCount = 0 /\ rxPc = "idle" /\ overlap = FALSE /\ 1..0 = {}
  BY DEF Init
<1>2. knownNodes = {} /\ presentNodes = {}
  BY <1>1 DEF knownNodes, presentNodes
<1>3. silences = [n \in Others |-> 0]
  BY <1>2 DEF silences
<1> QED BY <1>1, <1>2, <1>3 DEF Around!Init

\* For any senders, slots, timeout, clock width and watchdog, and whatever the
\* order in which the loop and the Wi-Fi task touch the table: a node heard is
\* present at once and has one place, none goes before its timeout but in the
\* confusion of a frame, none stays beyond Latest, and a place is kept.
THEOREM ImplementsNeighbours == Spec => NeighboursSpec
<1>1. Init => Alone /\ Noted
  BY DEF Init, Alone, Noted
<1>2. Types /\ AgeInv /\ Alone /\ [Next]_vars => Alone'
  BY AloneStep
<1>3. Noted /\ [Next]_vars => Noted'
  BY NotedStep
<1>4. Types /\ AgeInv /\ Alone /\ Noted /\ [Next]_vars
        => [Around!Next]_(Around!state)
  <2> SUFFICES ASSUME Types, AgeInv, Alone, Noted, [Next]_vars
               PROVE  [Around!Next]_(Around!state)
    OBVIOUS
  <2>1. CASE UNCHANGED vars
    BY <2>1, AroundFrame DEF vars, table
  <2>2. ASSUME NEW s \in Senders, sender(s) \/ ignore(s)
        PROVE  [Around!Next]_(Around!state)
    BY <2>2, AroundFrame
    DEF sender, begin, powerOff, update, sendActivityAlert, ignore, table
  <2>3. ASSUME NEW s \in Senders, handleMessage(s)
        PROVE  [Around!Next]_(Around!state)
    BY <2>3, AroundHear DEF Around!Next
  <2>4. CASE setSeen \/ setActive
    BY <2>4, AroundHandled
  <2>5. CASE updateBegin \/ scan \/ compare
    BY <2>5, AroundFrame DEF updateBegin, scan, compare, table
  <2>6. CASE Tick
    BY <2>6, AroundPass DEF Around!Next
  <2>7. CASE Restart
    BY <2>7, AroundRestart DEF Around!Next
  <2> QED
    BY <2>1, <2>2, <2>3, <2>4, <2>5, <2>6, <2>7, AroundLook, AroundDrop
    DEF Next, receive, removeStale
<1> QED
  BY <1>1, <1>2, <1>3, <1>4, AroundInit, TypesInit, TypesStep, AgeInit, AgeStep, PTL
  DEF Spec, NeighboursSpec, Around!Spec
=============================================================================
