-------------------------- MODULE FrameStreamProofs -------------------------
(***************************************************************************)
(* What the frame assemblers guarantee for bytes of any width, any         *)
(* checksums, any frames and any faults.                                   *)
(***************************************************************************)
EXTENDS FrameStream, SequenceTheorems, TLAPS

PayloadSize == IF protocol = "crsf" THEN CRSF_PAYLOAD_SIZE_MAX ELSE MaxByte

BufferOK ==
  /\ rx \in Seq(Byte) /\ Len(rx) < Longest(protocol)
  /\ accepted \in BOOLEAN
  /\ accepted => rx = <<>>

PacketOK ==
  /\ packet.length \in Byte /\ packet.kind \in Byte
  /\ packet.payload \in [0..PayloadSize - 1 -> Byte]
  /\ packet.crc \in Seq(Byte) /\ packet.valid \in BOOLEAN

StreamOK ==
  /\ protocol \in {"crsf", "mavlink"}
  /\ frame \in Frames(protocol) /\ pos \in 0..Len(frame)
  /\ left \in 0..MaxPiece /\ faults \in 0..MaxFaults /\ unsure \in Nat

\* The assembler holds the part of the frame that is gone,
Synced ==
  IF pos = Len(frame) THEN rx = <<>>
  ELSE Len(rx) = pos /\ \A i \in 1..pos : rx[i] = frame[i]

\* or has missed its start and lets the rest pass,
Skipping == rx = <<>> /\ pos \in 1..(Len(frame) - 1)
            /\ Len(frame) - pos <= unsure

\* or took a stray byte for a start, and gives up before long.
Locked == rx # <<>> /\ 2 * Longest(protocol) - Len(rx) <= unsure

LEMMA Numbers ==
  /\ MaxByte \in Nat /\ CRSF_PAYLOAD_SIZE_MAX \in Nat
  /\ CRSF_MAX_PACKET_SIZE = CRSF_PAYLOAD_SIZE_MAX + 4
  /\ MavlinkBufferSize \in Nat /\ MavlinkBufferSize >= 8 + MaxByte
  /\ CRSF_SYNC_BYTE \in Byte /\ MAVLINK_STX_V1 \in Byte
  /\ Noise \subseteq Byte /\ MaxPiece \in Nat \ {0} /\ MaxFaults \in Nat
  /\ 0 \in Byte /\ Byte \subseteq Nat
BY ByteAssumption, CrsfAssumption, MavlinkAssumption, StreamAssumption
   DEF Byte

\* A frame the transmitter sends fits, and starts with the sync byte.
LEMMA FrameFacts ==
  ASSUME protocol \in {"crsf", "mavlink"}, NEW f \in Frames(protocol)
  PROVE  /\ f \in Seq(Byte) /\ Len(f) \in 4..Longest(protocol)
         /\ f[1] = SyncByte /\ f[2] \in Byte
         /\ protocol = "crsf" => crsfGood(f)
         /\ protocol = "mavlink" => mavlinkGood(f)
<1>1. CASE protocol = "crsf"
  <2>1. f \in Seq(Byte) /\ crsfGood(f)
    BY <1>1, StreamAssumption DEF Frames
  <2> QED
    BY <1>1, <2>1, Numbers DEF crsfGood, Longest, SyncByte
<1>2. CASE protocol = "mavlink"
  <2>1. f \in Seq(Byte) /\ mavlinkGood(f)
    BY <1>2, StreamAssumption DEF Frames
  <2>2. Len(f) = 8 + f[2] /\ f[2] \in Byte
    BY <2>1, Numbers DEF mavlinkGood, Byte
  <2> QED
    BY <1>2, <2>1, <2>2, Numbers DEF mavlinkGood, Longest, SyncByte, Byte
<1> QED
  BY <1>1, <1>2

-----------------------------------------------------------------------------
(* One call of parseByte().                                                *)

\* memcpy() of bytes that are all in the buffer gives a payload of bytes.
LEMMA CopiedBytes ==
  ASSUME NEW D \in SUBSET Nat, NEW old \in [D -> Byte],
         NEW buffer \in Seq(Byte), NEW start \in Nat, NEW n \in Int,
         start + n <= Len(buffer)
  PROVE  /\ Copied(buffer, start, n, old) \in [D -> Byte]
         /\ \A i \in D :
              i < n => Copied(buffer, start, n, old)[i] = buffer[start + 1 + i]
<1>1. \A i \in D : i < n => start + 1 + i \in 1..Len(buffer)
  OBVIOUS
<1>2. \A i \in D :
        i < n => At(buffer, start + 1 + i) = buffer[start + 1 + i]
  BY <1>1 DEF At
<1>3. \A i \in D : i < n => buffer[start + 1 + i] \in Byte
  BY <1>1
<1> QED
  BY <1>2, <1>3 DEF Copied

LEMMA CrsfPacketOK ==
  ASSUME protocol = "crsf", PacketOK, NEW buffer \in Seq(Byte),
         Len(buffer) >= 3, ~BadLength(buffer[2]),
         Len(buffer) >= crsfExpectedLength(buffer)
  PROVE  /\ crsfPacket(buffer, packet.payload).length \in Byte
         /\ crsfPacket(buffer, packet.payload).kind \in Byte
         /\ crsfPacket(buffer, packet.payload).payload
              \in [0..PayloadSize - 1 -> Byte]
         /\ crsfPacket(buffer, packet.payload).crc \in Seq(Byte)
         /\ crsfPacket(buffer, packet.payload).valid \in BOOLEAN
<1> DEFINE n == buffer[2] - 2
<1>0. buffer[2] \in Byte /\ buffer[3] \in Byte
  OBVIOUS
<1>1. buffer[2] \in Nat
  BY <1>0, Numbers DEF Byte
<1>2. n \in Int /\ n >= 0 /\ n + 4 <= Len(buffer)
  BY <1>1, Numbers DEF BadLength, crsfExpectedLength
<1>3. Copied(buffer, 3, n, packet.payload) \in [0..PayloadSize - 1 -> Byte]
  <2>1. 0..PayloadSize - 1 \in SUBSET Nat
    BY Numbers DEF PayloadSize
  <2>2. packet.payload \in [0..PayloadSize - 1 -> Byte]
    BY DEF PacketOK
  <2>3. 3 + n <= Len(buffer)
    BY <1>2
  <2> HIDE DEF n
  <2> QED
    BY <1>2, <2>1, <2>2, <2>3, CopiedBytes
<1>4. At(buffer, n + 4) \in Byte
  BY <1>2 DEF At
<1>5. <<At(buffer, n + 4)>> \in Seq(Byte)
  BY <1>4
<1> QED
  BY <1>0, <1>3, <1>5 DEF crsfPacket, validateCRC

LEMMA MavlinkPacketOK ==
  ASSUME protocol = "mavlink", PacketOK, NEW buffer \in Seq(Byte),
         Len(buffer) >= 6, Len(buffer) >= mavlinkExpectedLength(buffer)
  PROVE  /\ mavlinkPacket(buffer, packet.payload).length \in Byte
         /\ mavlinkPacket(buffer, packet.payload).kind \in Byte
         /\ mavlinkPacket(buffer, packet.payload).payload
              \in [0..PayloadSize - 1 -> Byte]
         /\ mavlinkPacket(buffer, packet.payload).crc \in Seq(Byte)
         /\ mavlinkPacket(buffer, packet.payload).valid \in BOOLEAN
<1> DEFINE n == buffer[2]
<1>0. buffer[2] \in Byte /\ buffer[6] \in Byte
  OBVIOUS
<1>1. buffer[2] \in Nat
  BY <1>0, Numbers DEF Byte
<1>2. n \in Int /\ n >= 0 /\ n + 8 <= Len(buffer)
  BY <1>1, Numbers DEF mavlinkExpectedLength
<1>3. Copied(buffer, 6, n, packet.payload) \in [0..PayloadSize - 1 -> Byte]
  <2>1. 0..PayloadSize - 1 \in SUBSET Nat
    BY Numbers DEF PayloadSize
  <2>2. packet.payload \in [0..PayloadSize - 1 -> Byte]
    BY DEF PacketOK
  <2>3. 6 + n <= Len(buffer)
    BY <1>2
  <2> HIDE DEF n
  <2> QED
    BY <1>2, <2>1, <2>2, <2>3, CopiedBytes
<1>4. At(buffer, 7 + n) \in Byte /\ At(buffer, 8 + n) \in Byte
  BY <1>2 DEF At
<1>5. <<At(buffer, 7 + n), At(buffer, 8 + n)>> \in Seq(Byte)
  BY <1>4
<1> QED
  BY <1>0, <1>3, <1>5 DEF mavlinkPacket, validateChecksum

LEMMA Appended ==
  ASSUME NEW S, NEW s \in Seq(S), NEW b \in S
  PROVE  /\ Append(s, b) \in Seq(S) /\ Len(Append(s, b)) = Len(s) + 1
         /\ Len(s) \in Nat /\ (s # <<>> => Len(s) >= 1)
         /\ s = <<>> => Append(s, b) = <<b>> /\ Len(Append(s, b)) = 1
         /\ \A i \in 1..Len(s) : Append(s, b)[i] = s[i]
         /\ Append(s, b)[Len(s) + 1] = b
<1>1. Append(<<>>, b) = <<b>>
  OBVIOUS
<1>2. /\ Append(s, b) \in Seq(S) /\ Len(Append(s, b)) = Len(s) + 1
      /\ Len(s) \in Nat
  OBVIOUS
<1>3. s # <<>> => Len(s) >= 1
  BY EmptySeq, <1>2
<1>4. s = <<>> => Append(s, b) = <<b>> /\ Len(Append(s, b)) = 1
  <2>1. s = <<>> => Len(s) = 0
    OBVIOUS
  <2> QED
    BY <1>1, <1>2, <2>1
<1>5. /\ \A i \in 1..Len(s) : Append(s, b)[i] = s[i]
      /\ Append(s, b)[Len(s) + 1] = b
  BY AppendProperties
<1> QED
  BY <1>1, <1>2, <1>3, <1>4, <1>5

LEMMA Collected ==
  ASSUME PacketOK, protocol' = protocol, NEW buffer \in Seq(Byte),
         Len(buffer) < Longest(protocol), Collect(buffer)
  PROVE  BufferOK' /\ PacketOK'
BY DEF Collect, BufferOK, PacketOK, PayloadSize

LEMMA NothingKept ==
  ASSUME PacketOK, protocol' = protocol, protocol \in {"crsf", "mavlink"},
         Collect(<<>>)
  PROVE  BufferOK' /\ PacketOK'
<1>1. Len(<<>>) < Longest(protocol) /\ <<>> \in Seq(Byte)
  BY Numbers DEF Longest
<1> QED
  BY <1>1 DEF Collect, BufferOK, PacketOK, PayloadSize

LEMMA Completed ==
  ASSUME protocol' = protocol, protocol \in {"crsf", "mavlink"}, NEW p,
         p.length \in Byte, p.kind \in Byte,
         p.payload \in [0..PayloadSize - 1 -> Byte],
         p.crc \in Seq(Byte), p.valid \in BOOLEAN, Complete(p)
  PROVE  BufferOK' /\ PacketOK'
<1>1. Len(<<>>) < Longest(protocol) /\ <<>> \in Seq(Byte)
  BY Numbers DEF Longest
<1> QED
  BY <1>1 DEF Complete, BufferOK, PacketOK, PayloadSize

\* Any byte: the buffers stay within bounds, a parser at rest waits for a sync
\* byte, and one that collects goes on or gives everything up.
LEMMA CrsfStep ==
  ASSUME BufferOK, PacketOK, protocol = "crsf", protocol' = protocol,
         NEW b \in Byte, crsfParseByte(b)
  PROVE  /\ BufferOK' /\ PacketOK'
         /\ rx = <<>> => rx' = IF b = SyncByte THEN <<b>> ELSE <<>>
         /\ rx # <<>> => rx' \in {<<>>, Append(rx, b)}
<1> DEFINE buffer == Append(rx, b)
<1>0. /\ buffer \in Seq(Byte) /\ Len(buffer) = Len(rx) + 1
      /\ Len(rx) \in Nat /\ (rx # <<>> => Len(rx) >= 1)
      /\ rx = <<>> => buffer = <<b>> /\ Len(buffer) = 1
  BY Appended DEF BufferOK
<1>a. /\ <<>> \in Seq(Byte) /\ Len(<<>>) = 0 /\ Longest(protocol) \in Nat
      /\ Longest(protocol) >= 4 /\ Longest(protocol) = CRSF_MAX_PACKET_SIZE
  BY Numbers DEF Longest
<1> HIDE DEF buffer
<1>1. CASE rx = <<>> /\ Collect(IF b = CRSF_SYNC_BYTE THEN buffer ELSE <<>>)
  <2>1. BufferOK' /\ PacketOK'
    <3>1. CASE b = CRSF_SYNC_BYTE
      <4>1. Collect(buffer) /\ Len(buffer) < Longest(protocol)
        BY <1>0, <1>a, <1>1, <3>1
      <4> QED
        BY <1>0, <4>1, Collected
    <3>2. CASE b # CRSF_SYNC_BYTE
      BY <1>1, <3>2, NothingKept
    <3> QED
      BY <3>1, <3>2
  <2> QED
    BY <1>0, <1>1, <2>1 DEF Collect, SyncByte
<1>2. CASE rx # <<>> /\ Len(buffer) < Longest(protocol) /\ Collect(buffer)
  <2>1. BufferOK' /\ PacketOK'
    BY <1>0, <1>2, Collected
  <2> QED
    BY <1>2, <2>1 DEF Collect, buffer
<1>3. CASE rx # <<>> /\ Collect(<<>>)
  <2>1. BufferOK' /\ PacketOK'
    BY <1>3, NothingKept
  <2> QED
    BY <1>3, <2>1 DEF Collect
<1>4. CASE /\ rx # <<>> /\ Len(buffer) >= 3 /\ ~BadLength(buffer[2])
           /\ Len(buffer) >= crsfExpectedLength(buffer)
           /\ Complete(crsfPacket(buffer, packet.payload))
  <2> DEFINE p == crsfPacket(buffer, packet.payload)
  <2>1. /\ p.length \in Byte /\ p.kind \in Byte
        /\ p.payload \in [0..PayloadSize - 1 -> Byte]
        /\ p.crc \in Seq(Byte) /\ p.valid \in BOOLEAN
    BY <1>0, <1>4, CrsfPacketOK
  <2> HIDE DEF p
  <2>2. Complete(p)
    BY <1>4 DEF p
  <2>3. BufferOK' /\ PacketOK'
    BY <2>1, <2>2, Completed
  <2> QED
    BY <1>4, <2>2, <2>3 DEF Complete
<1>5. rx # <<>> /\ Len(buffer) < 3 /\ Collect(buffer) => Len(buffer) < Longest(protocol)
  BY <1>0, <1>a
<1> QED
  BY <1>0, <1>a, <1>1, <1>2, <1>3, <1>4, <1>5 DEF crsfParseByte, buffer

LEMMA MavlinkStep ==
  ASSUME BufferOK, PacketOK, protocol = "mavlink", protocol' = protocol,
         NEW b \in Byte, mavlinkParseByte(b)
  PROVE  /\ BufferOK' /\ PacketOK'
         /\ rx = <<>> => rx' = IF b = SyncByte THEN <<b>> ELSE <<>>
         /\ rx # <<>> => rx' \in {<<>>, Append(rx, b)}
<1> DEFINE buffer == Append(rx, b)
           complete == /\ Len(buffer) >= 6
                       /\ Len(buffer) >= mavlinkExpectedLength(buffer)
<1>0. /\ buffer \in Seq(Byte) /\ Len(buffer) = Len(rx) + 1
      /\ Len(rx) \in Nat /\ (rx # <<>> => Len(rx) >= 1)
      /\ rx = <<>> => buffer = <<b>> /\ Len(buffer) = 1
  BY Appended DEF BufferOK
<1>a. /\ <<>> \in Seq(Byte) /\ Len(<<>>) = 0 /\ Longest(protocol) \in Nat
      /\ Longest(protocol) >= 8 /\ Longest(protocol) = 8 + MaxByte
  BY Numbers DEF Longest
<1> HIDE DEF buffer
<1>1. CASE rx = <<>> /\ Collect(IF b = MAVLINK_STX_V1 THEN buffer ELSE <<>>)
  <2>1. BufferOK' /\ PacketOK'
    <3>1. CASE b = MAVLINK_STX_V1
      <4>1. Collect(buffer) /\ Len(buffer) < Longest(protocol)
        BY <1>0, <1>a, <1>1, <3>1
      <4> QED
        BY <1>0, <4>1, Collected
    <3>2. CASE b # MAVLINK_STX_V1
      BY <1>1, <3>2, NothingKept
    <3> QED
      BY <3>1, <3>2
  <2> QED
    BY <1>0, <1>1, <2>1 DEF Collect, SyncByte
<1>2. CASE rx # <<>> /\ ~complete /\ Collect(buffer)
  <2>1. Len(buffer) < Longest(protocol)
    <3>1. CASE Len(buffer) < 6
      BY <1>0, <1>a, <3>1
    <3>2. CASE Len(buffer) >= 6
      <4>1. buffer[2] \in Byte
        BY <1>0, <3>2
      <4> QED
        BY <1>0, <1>a, <1>2, <3>2, <4>1, Numbers
           DEF mavlinkExpectedLength, Byte
    <3> QED
      BY <1>0, <3>1, <3>2
  <2>2. BufferOK' /\ PacketOK'
    BY <1>0, <1>2, <2>1, Collected
  <2> QED
    BY <1>2, <2>2 DEF Collect, buffer
<1>3. CASE rx # <<>> /\ complete /\ Complete(mavlinkPacket(buffer, packet.payload))
  <2> DEFINE p == mavlinkPacket(buffer, packet.payload)
  <2>1. /\ p.length \in Byte /\ p.kind \in Byte
        /\ p.payload \in [0..PayloadSize - 1 -> Byte]
        /\ p.crc \in Seq(Byte) /\ p.valid \in BOOLEAN
    BY <1>0, <1>3, MavlinkPacketOK
  <2> HIDE DEF p
  <2>2. Complete(p)
    BY <1>3 DEF p
  <2>3. BufferOK' /\ PacketOK'
    BY <2>1, <2>2, Completed
  <2> QED
    BY <1>3, <2>2, <2>3 DEF Complete
<1> QED
  BY <1>1, <1>2, <1>3 DEF mavlinkParseByte, buffer

LEMMA AnyByte ==
  ASSUME BufferOK, PacketOK, protocol \in {"crsf", "mavlink"},
         protocol' = protocol, NEW b \in Byte, parseByte(b)
  PROVE  /\ BufferOK' /\ PacketOK'
         /\ rx = <<>> => rx' = IF b = SyncByte THEN <<b>> ELSE <<>>
         /\ rx # <<>> => rx' \in {<<>>, Append(rx, b)}
BY CrsfStep, MavlinkStep DEF parseByte

\* The next byte of a good frame, when the assembler holds the ones before it.
Expected(f, p) == Len(rx) = p /\ \A i \in 1..p : rx[i] = f[i]

LEMMA CrsfGood ==
  ASSUME BufferOK, PacketOK, protocol = "crsf",
         NEW f \in Seq(Byte), crsfGood(f), NEW p \in 1..(Len(f) - 1),
         Expected(f, p), crsfParseByte(f[p + 1])
  PROVE  /\ p + 1 < Len(f) => rx' = Append(rx, f[p + 1])
         /\ p + 1 = Len(f) =>
              /\ rx' = <<>> /\ accepted' /\ packet'.length = f[2]
              /\ \A i \in 1..(Len(f) - 3) :
                   i <= f[2] - 2 => packet'.payload[i - 1] = f[3 + i]
<1> DEFINE b == f[p + 1]
           buffer == Append(rx, b)
           n == f[2] - 2
           copied == Copied(buffer, 3, n, packet.payload)
<1>1. b \in Byte /\ Len(f) \in Nat
  OBVIOUS
<1>2. /\ buffer \in Seq(Byte) /\ Len(buffer) = p + 1
      /\ rx # <<>> /\ \A i \in 1..(p + 1) : buffer[i] = f[i]
  <2>1. /\ buffer \in Seq(Byte) /\ Len(buffer) = Len(rx) + 1
        /\ \A i \in 1..Len(rx) : buffer[i] = rx[i]
        /\ buffer[Len(rx) + 1] = b
    BY <1>1, Appended DEF BufferOK
  <2>2. rx # <<>>
    BY DEF Expected
  <2> HIDE DEF buffer
  <2> QED
    BY <2>1, <2>2 DEF Expected
<1>3. /\ Len(f) >= 4 /\ f[2] = Len(f) - 2 /\ n \in 0..CRSF_PAYLOAD_SIZE_MAX
      /\ Len(f) <= CRSF_MAX_PACKET_SIZE /\ ~BadLength(f[2])
  BY Numbers DEF crsfGood, BadLength
<1>4. CASE p + 1 < Len(f)
  <2>1. Len(buffer) >= 3 =>
          /\ ~BadLength(buffer[2])
          /\ ~(Len(buffer) >= crsfExpectedLength(buffer))
          /\ ~(Len(buffer) >= CRSF_MAX_PACKET_SIZE)
    <3>1. Len(buffer) >= 3 => buffer[2] = f[2]
      <4> HIDE DEF buffer
      <4> QED
        BY <1>2
    <3>2. Len(buffer) < Len(f) /\ Len(f) \in Nat /\ Len(buffer) \in Nat
      BY <1>2, <1>4
    <3> HIDE DEF buffer
    <3> QED
      BY <1>3, <3>1, <3>2, Numbers DEF crsfExpectedLength
  <2>2. Collect(buffer)
    BY <1>2, <2>1 DEF crsfParseByte
  <2> QED
    BY <1>4, <2>2 DEF Collect
<1>5. CASE p + 1 = Len(f)
  <2>1. /\ buffer[2] = f[2] /\ buffer[3] = f[3] /\ Len(buffer) >= 3
        /\ Len(buffer) >= crsfExpectedLength(buffer)
    <3> HIDE DEF buffer
    <3> QED
      BY <1>2, <1>3, <1>5 DEF crsfExpectedLength
  <2>2. Complete(crsfPacket(buffer, packet.payload))
    BY <1>2, <1>3, <2>1 DEF crsfParseByte
  <2>3. \A i \in 1..n : copied[i - 1] = f[i + 3]
    <3>1. 0..PayloadSize - 1 \in SUBSET Nat /\ PayloadSize = CRSF_PAYLOAD_SIZE_MAX
      BY Numbers DEF PayloadSize
    <3>2. packet.payload \in [0..PayloadSize - 1 -> Byte]
      BY DEF PacketOK
    <3>3. n \in Int /\ 3 + n <= Len(buffer) /\ buffer \in Seq(Byte)
      BY <1>2, <1>3, <1>5
    <3> HIDE DEF n, buffer
    <3>4. \A i \in 0..PayloadSize - 1 : i < n => copied[i] = buffer[3 + 1 + i]
      <4>1. 3 \in Nat
        OBVIOUS
      <4> DEFINE D == 0..PayloadSize - 1
                 old == packet.payload
      <4>2. D \in SUBSET Nat /\ old \in [D -> Byte]
        BY <3>1, <3>2
      <4> HIDE DEF D, old
      <4>3. \A i \in D : i < n => Copied(buffer, 3, n, old)[i] = buffer[3 + 1 + i]
        BY <3>3, <4>1, <4>2, CopiedBytes
      <4> QED
        BY <4>3 DEF D, old
    <3>5. \A i \in 1..n : i - 1 \in 0..PayloadSize - 1
      BY <1>3, <3>1, Numbers
    <3>6. \A i \in 1..n : copied[i - 1] = buffer[i + 3]
      <4>1. \A i \in 1..n : i - 1 < n /\ 3 + 1 + (i - 1) = i + 3
        BY <3>3
      <4> QED
        BY <3>4, <3>5, <4>1
    <3> HIDE DEF copied
    <3> QED
      BY <1>2, <1>3, <1>5, <3>6 DEF n
  <2>4. [i \in 1..n |-> copied[i - 1]] = [i \in 1..n |-> f[i + 3]]
    BY <2>3
  <2>5. At(buffer, n + 4) = f[Len(f)]
    <3> HIDE DEF buffer
    <3> QED
      BY <1>2, <1>3, <1>5 DEF At
  <2>6. crsfCrc(<<f[3]>> \o [i \in 1..n |-> f[i + 3]]) = f[Len(f)]
    BY DEF crsfGood
  <2>7. crsfPacket(buffer, packet.payload).valid
    <3> HIDE DEF buffer
    <3> QED
      BY <2>1, <2>4, <2>5, <2>6 DEF crsfPacket, validateCRC
  <2>8. /\ crsfPacket(buffer, packet.payload).length = f[2]
        /\ crsfPacket(buffer, packet.payload).payload = copied
    BY <2>1 DEF crsfPacket
  <2>9. \A i \in 1..(Len(f) - 3) : i <= f[2] - 2 => copied[i - 1] = f[3 + i]
    <3> HIDE DEF copied
    <3>1. \A i \in 1..(Len(f) - 3) : i <= f[2] - 2 => i \in 1..n /\ i + 3 = 3 + i
      BY <1>1, <1>3
    <3> QED
      BY <2>3, <3>1
  <2> QED
    BY <1>5, <2>2, <2>7, <2>8, <2>9 DEF Complete
<1> QED
  BY <1>1, <1>4, <1>5

LEMMA MavlinkGood ==
  ASSUME BufferOK, PacketOK, protocol = "mavlink",
         NEW f \in Seq(Byte), mavlinkGood(f), NEW p \in 1..(Len(f) - 1),
         Expected(f, p), mavlinkParseByte(f[p + 1])
  PROVE  /\ p + 1 < Len(f) => rx' = Append(rx, f[p + 1])
         /\ p + 1 = Len(f) =>
              /\ rx' = <<>> /\ accepted' /\ packet'.length = f[2]
              /\ \A i \in 1..(Len(f) - 6) :
                   i <= f[2] => packet'.payload[i - 1] = f[6 + i]
<1> DEFINE b == f[p + 1]
           buffer == Append(rx, b)
           n == f[2]
           copied == Copied(buffer, 6, n, packet.payload)
           header == <<f[3], f[4], f[5]>>
<1>1. b \in Byte /\ Len(f) \in Nat
  OBVIOUS
<1>2. /\ buffer \in Seq(Byte) /\ Len(buffer) = p + 1
      /\ rx # <<>> /\ \A i \in 1..(p + 1) : buffer[i] = f[i]
  <2>1. /\ buffer \in Seq(Byte) /\ Len(buffer) = Len(rx) + 1
        /\ \A i \in 1..Len(rx) : buffer[i] = rx[i]
        /\ buffer[Len(rx) + 1] = b
    BY <1>1, Appended DEF BufferOK
  <2>2. rx # <<>>
    BY DEF Expected
  <2> HIDE DEF buffer
  <2> QED
    BY <2>1, <2>2 DEF Expected
<1>3. Len(f) >= 8 /\ f[2] = Len(f) - 8 /\ f[2] \in Byte /\ n \in 0..MaxByte
  <2>1. Len(f) >= 8 /\ f[2] = Len(f) - 8
    BY DEF mavlinkGood
  <2>2. f[2] \in Byte
    BY <2>1
  <2> QED
    BY <2>1, <2>2 DEF Byte
<1>4. CASE p + 1 < Len(f)
  <2>1. Len(buffer) >= 6 => ~(Len(buffer) >= mavlinkExpectedLength(buffer))
    <3>1. Len(buffer) >= 6 => buffer[2] = f[2]
      <4> HIDE DEF buffer
      <4> QED
        BY <1>2
    <3>2. Len(buffer) < Len(f) /\ Len(f) \in Nat /\ Len(buffer) \in Nat
      BY <1>2, <1>4
    <3> HIDE DEF buffer
    <3> QED
      BY <1>3, <3>1, <3>2 DEF mavlinkExpectedLength
  <2>2. Collect(buffer)
    BY <1>2, <2>1 DEF mavlinkParseByte
  <2> QED
    BY <1>4, <2>2 DEF Collect
<1>5. CASE p + 1 = Len(f)
  <2>1. /\ buffer[2] = f[2] /\ buffer[6] = f[6] /\ Len(buffer) >= 6
        /\ <<buffer[3], buffer[4], buffer[5]>> = header
        /\ Len(buffer) >= mavlinkExpectedLength(buffer)
    <3> HIDE DEF buffer
    <3> QED
      BY <1>2, <1>3, <1>5 DEF mavlinkExpectedLength
  <2>2. Complete(mavlinkPacket(buffer, packet.payload))
    BY <1>2, <2>1 DEF mavlinkParseByte
  <2>3. \A i \in 1..n : copied[i - 1] = f[i + 6]
    <3> DEFINE D == 0..PayloadSize - 1
               old == packet.payload
    <3>1. D \in SUBSET Nat /\ PayloadSize = MaxByte
      BY Numbers DEF PayloadSize
    <3>2. old \in [D -> Byte]
      BY DEF PacketOK
    <3>3. n \in Int /\ 6 + n <= Len(buffer) /\ buffer \in Seq(Byte) /\ 6 \in Nat
      BY <1>2, <1>3, <1>5
    <3>4. \A i \in D : i < n => copied[i] = buffer[6 + 1 + i]
      <4> HIDE DEF D, old, n, buffer
      <4>1. \A i \in D :
              i < n => Copied(buffer, 6, n, old)[i] = buffer[6 + 1 + i]
        BY <3>1, <3>2, <3>3, CopiedBytes
      <4> QED
        BY <4>1 DEF old
    <3>5. \A i \in 1..n : i - 1 \in D /\ i - 1 < n /\ 6 + 1 + (i - 1) = i + 6
      <4> HIDE DEF n
      <4> QED
        BY <1>3, <3>1, <3>3, Numbers
    <3>6. \A i \in 1..n : i + 6 \in 1..(p + 1)
      <4> HIDE DEF buffer
      <4> QED
        BY <1>2, <1>3, <1>5, <3>3
    <3> HIDE DEF D, old, n, buffer, copied
    <3>7. \A i \in 1..n : copied[i - 1] = buffer[i + 6]
      BY <3>4, <3>5
    <3> QED
      BY <1>2, <3>6, <3>7
  <2>4. [i \in 1..n |-> copied[i - 1]] = [i \in 1..n |-> f[i + 6]]
    BY <2>3
  <2>5. <<At(buffer, 7 + n), At(buffer, 8 + n)>> = <<f[Len(f) - 1], f[Len(f)]>>
    <3> HIDE DEF buffer
    <3> QED
      BY <1>2, <1>3, <1>5 DEF At
  <2>6. /\ f[6] \in KnownMessages
        /\ mavlinkCrc(<<f[2]>> \o header \o <<f[6]>>
                        \o [i \in 1..n |-> f[i + 6]], f[6])
             = <<f[Len(f) - 1], f[Len(f)]>>
    BY DEF mavlinkGood
  <2>7. mavlinkPacket(buffer, packet.payload).valid
    <3> HIDE DEF buffer
    <3> QED
      BY <2>1, <2>4, <2>5, <2>6 DEF mavlinkPacket, validateChecksum
  <2>8. /\ mavlinkPacket(buffer, packet.payload).length = f[2]
        /\ mavlinkPacket(buffer, packet.payload).payload = copied
    BY <2>1 DEF mavlinkPacket
  <2>9. \A i \in 1..(Len(f) - 6) : i <= f[2] => copied[i - 1] = f[6 + i]
    <3> HIDE DEF copied
    <3>1. \A i \in 1..(Len(f) - 6) : i <= f[2] => i \in 1..n /\ i + 6 = 6 + i
      BY <1>1, <1>3
    <3> QED
      BY <2>3, <3>1
  <2> QED
    BY <1>5, <2>2, <2>7, <2>8, <2>9 DEF Complete
<1> QED
  BY <1>1, <1>4, <1>5

FirstByte == IF protocol = "crsf" THEN 3 ELSE 6
PayloadLen == frame[2] - (IF protocol = "crsf" THEN 2 ELSE 0)

\* The packet that comes out is the frame.
Arrived ==
  /\ accepted' /\ packet'.length = frame[2]
  /\ \A i \in 1..(Len(frame) - FirstByte) :
       i <= PayloadLen => packet'.payload[i - 1] = frame[FirstByte + i]

LEMMA GoodByte ==
  ASSUME BufferOK, PacketOK, StreamOK, Synced, pos \in 1..(Len(frame) - 1),
         parseByte(frame[pos + 1])
  PROVE  /\ pos + 1 < Len(frame) => rx' = Append(rx, frame[pos + 1])
         /\ pos + 1 = Len(frame) => rx' = <<>> /\ Arrived
<1>1. protocol \in {"crsf", "mavlink"} /\ frame \in Frames(protocol)
  BY DEF StreamOK
<1>2. /\ frame \in Seq(Byte)
      /\ protocol = "crsf" => crsfGood(frame)
      /\ protocol = "mavlink" => mavlinkGood(frame)
  BY <1>1, FrameFacts
<1>3. Expected(frame, pos)
  BY DEF Synced, Expected
<1>4. CASE protocol = "crsf"
  <2>1. /\ pos + 1 < Len(frame) => rx' = Append(rx, frame[pos + 1])
        /\ pos + 1 = Len(frame) =>
             /\ rx' = <<>> /\ accepted' /\ packet'.length = frame[2]
             /\ \A i \in 1..(Len(frame) - 3) :
                  i <= frame[2] - 2 => packet'.payload[i - 1] = frame[3 + i]
    BY <1>2, <1>3, <1>4, CrsfGood DEF parseByte
  <2>2. FirstByte = 3 /\ PayloadLen = frame[2] - 2
    BY <1>4 DEF FirstByte, PayloadLen
  <2> QED
    BY <2>1, <2>2 DEF Arrived
<1>5. CASE protocol = "mavlink"
  <2>1. /\ pos + 1 < Len(frame) => rx' = Append(rx, frame[pos + 1])
        /\ pos + 1 = Len(frame) =>
             /\ rx' = <<>> /\ accepted' /\ packet'.length = frame[2]
             /\ \A i \in 1..(Len(frame) - 6) :
                  i <= frame[2] => packet'.payload[i - 1] = frame[6 + i]
    BY <1>2, <1>3, <1>5, MavlinkGood DEF parseByte
  <2>2. frame[2] \in Nat
    BY <1>1, FrameFacts, Numbers
  <2>3. FirstByte = 6 /\ PayloadLen = frame[2]
    BY <1>5, <2>2 DEF FirstByte, PayloadLen
  <2> QED
    BY <2>1, <2>3 DEF Arrived
<1> QED
  BY <1>1, <1>4, <1>5

-----------------------------------------------------------------------------
(* The steps of the stream.                                                *)

Typed == BufferOK /\ PacketOK /\ StreamOK

LEMMA TypedInit == Init => Typed
<1> SUFFICES ASSUME Init PROVE Typed
  OBVIOUS
<1>1. protocol \in {"crsf", "mavlink"} /\ frame \in Frames(protocol)
  BY DEF Init
<1>2. frame \in Seq(Byte) /\ Len(frame) \in 4..Longest(protocol)
  BY <1>1, FrameFacts
<1>3. pos \in 0..(Len(frame) - 1) /\ pos \in Nat /\ Len(frame) - pos \in Nat
  BY <1>2 DEF Init
<1>4. StreamOK
  BY <1>1, <1>2, <1>3, Numbers DEF Init, StreamOK
<1>5. BufferOK
  <2>1. rx = <<>> /\ accepted = FALSE /\ <<>> \in Seq(Byte) /\ Len(<<>>) = 0
    BY DEF Init
  <2>2. Longest(protocol) \in Nat /\ Longest(protocol) > 0
    BY <1>1, Numbers DEF Longest
  <2> QED
    BY <2>1, <2>2 DEF BufferOK
<1>6. PacketOK
  <2>1. packet = Cleared(PayloadSize)
    BY DEF Init, PayloadSize
  <2>2. [i \in 0..PayloadSize - 1 |-> 0] \in [0..PayloadSize - 1 -> Byte]
    BY Numbers
  <2> QED
    BY <2>1, <2>2, Numbers DEF Cleared, PacketOK
<1> QED
  BY <1>4, <1>5, <1>6 DEF Typed

LEMMA TypedFrame ==
  ASSUME Typed
  PROVE  /\ protocol \in {"crsf", "mavlink"} /\ frame \in Frames(protocol)
         /\ frame \in Seq(Byte) /\ Len(frame) \in 4..Longest(protocol)
         /\ Len(frame) \in Nat /\ Longest(protocol) \in Nat
         /\ frame[1] = SyncByte /\ pos \in 0..Len(frame)
         /\ pos < Len(frame) => frame[pos + 1] \in Byte
         /\ rx \in Seq(Byte) /\ Len(rx) \in Nat /\ Len(rx) < Longest(protocol)
         /\ rx # <<>> => Len(rx) >= 1
         /\ left \in Nat /\ unsure \in Nat
<1>1. protocol \in {"crsf", "mavlink"} /\ frame \in Frames(protocol)
  BY DEF Typed, StreamOK
<1>2. /\ frame \in Seq(Byte) /\ Len(frame) \in 4..Longest(protocol)
      /\ frame[1] = SyncByte
  BY <1>1, FrameFacts
<1>3. Longest(protocol) \in Nat
  BY Numbers DEF Longest
<1>4. /\ pos \in 0..Len(frame) /\ unsure \in Nat /\ left \in 0..MaxPiece
  BY DEF Typed, StreamOK
<1>5. pos < Len(frame) => frame[pos + 1] \in Byte
  BY <1>2, <1>4
<1>6. rx \in Seq(Byte) /\ Len(rx) \in Nat /\ Len(rx) < Longest(protocol)
  BY DEF Typed, BufferOK
<1>7. rx # <<>> => Len(rx) >= 1
  BY <1>6, EmptySeq
<1> QED
  BY <1>1, <1>2, <1>3, <1>4, <1>5, <1>6, <1>7, Numbers

LEMMA TypedNext == Typed /\ [Next]_vars => Typed'
<1> SUFFICES ASSUME Typed, [Next]_vars PROVE Typed'
  OBVIOUS
<1> USE TypedFrame DEF Typed
<1>1. ASSUME NEW n \in 1..MaxPiece, parseBuffer(n) PROVE Typed'
  <2>1. BufferOK' /\ PacketOK'
    BY <1>1 DEF parseBuffer, BufferOK, PacketOK, PayloadSize, link
  <2>2. StreamOK'
    BY <1>1, Numbers DEF parseBuffer, StreamOK, link
  <2> QED
    BY <2>1, <2>2
<1>2. CASE NextFrame
  <2>1. BufferOK' /\ PacketOK'
    BY <1>2 DEF NextFrame, parser, BufferOK, PacketOK, PayloadSize
  <2>2. frame' \in Seq(Byte) /\ Len(frame') \in Nat
    BY <1>2, FrameFacts DEF NextFrame
  <2>3. StreamOK'
    BY <1>2, <2>2 DEF NextFrame, StreamOK
  <2> QED
    BY <2>1, <2>3
<1>3. CASE Deliver
  <2>1. BufferOK' /\ PacketOK'
    BY <1>3, AnyByte DEF Deliver
  <2>2. unsure' \in Nat /\ left' \in 0..MaxPiece /\ pos' \in 0..Len(frame)
    BY <1>3, Numbers DEF Deliver, Larger, parsing, StreamOK
  <2>3. StreamOK'
    BY <1>3, <2>2 DEF Deliver, StreamOK
  <2> QED
    BY <2>1, <2>3
<1>4. CASE Discard
  <2>1. BufferOK' /\ PacketOK'
    BY <1>4 DEF Discard, parser, BufferOK, PacketOK, PayloadSize
  <2>2. unsure' \in Nat /\ left' \in 0..MaxPiece /\ pos' \in 0..Len(frame)
    BY <1>4, Numbers DEF Discard, Larger, StreamOK
  <2>3. StreamOK'
    BY <1>4, <2>2 DEF Discard, StreamOK
  <2> QED
    BY <2>1, <2>3
<1>5. CASE Fault
  <2>1. BufferOK' /\ PacketOK'
    <3>1. CASE UNCHANGED parser
      BY <1>5, <3>1 DEF Fault, parser, BufferOK, PacketOK, PayloadSize
    <3>2. ASSUME NEW b \in Noise, parseByte(b) PROVE BufferOK' /\ PacketOK'
      <4>1. b \in Byte /\ protocol' = protocol
        BY <1>5, Numbers DEF Fault
      <4> QED
        BY <3>2, <4>1, AnyByte
    <3> QED
      BY <1>5, <3>1, <3>2 DEF Fault
  <2>2. unsure' \in Nat /\ left' \in 0..MaxPiece /\ faults' \in 0..MaxFaults
    <3>1. unsure' = 2 * Longest(protocol) /\ Longest(protocol) \in Nat
      BY <1>5 DEF Fault
    <3>2. faults' = faults + 1 /\ faults < MaxFaults /\ faults \in 0..MaxFaults
      BY <1>5 DEF Fault, StreamOK
    <3>3. left' = left \/ (left > 0 /\ left' = left - 1)
      BY <1>5 DEF Fault, parsing
    <3>4. left' \in 0..MaxPiece
      BY <3>3, Numbers DEF StreamOK
    <3>5. unsure' \in Nat
      BY ONLY <3>1
    <3>6. faults' \in 0..MaxFaults
      BY <3>2, Numbers
    <3> QED
      BY ONLY <3>4, <3>5, <3>6
  <2>3. pos' \in 0..Len(frame)
    BY <1>5 DEF Fault
  <2>4. StreamOK'
    BY <1>5, <2>2, <2>3 DEF Fault, StreamOK
  <2> QED
    BY <2>1, <2>4
<1>6. CASE UNCHANGED vars
  BY <1>6 DEF vars, parser, link, BufferOK, PacketOK, PayloadSize, StreamOK
<1> QED
  BY <1>1, <1>2, <1>3, <1>4, <1>5, <1>6 DEF Next

\* The buffers stay within bounds for any bytes, whatever is lost or damaged.
THEOREM TypesHold == Spec => []TypeOK
<1>1. Typed => TypeOK
  <2> SUFFICES ASSUME Typed PROVE TypeOK
    OBVIOUS
  <2>1. packet.payload \in [DOMAIN packet.payload -> Byte]
    BY DEF Typed, PacketOK
  <2> QED
    BY <2>1 DEF Typed, BufferOK, PacketOK, StreamOK, TypeOK
<1> QED
  BY <1>1, TypedInit, TypedNext, PTL DEF Spec

\* The assembler is in one of three positions.
InStep == Synced \/ Skipping \/ Locked

LEMMA StepInit == Init => InStep
<1> SUFFICES ASSUME Init PROVE InStep
  OBVIOUS
<1>1. Typed
  BY TypedInit
<1>2. /\ pos \in 0..(Len(frame) - 1) /\ Len(frame) \in Nat
      /\ rx = <<>> /\ Len(rx) = 0
  BY <1>1, TypedFrame DEF Init
<1>3. CASE pos = 0
  BY <1>2, <1>3 DEF InStep, Synced
<1>4. CASE pos # 0
  BY <1>2, <1>4 DEF Init, InStep, Skipping
<1> QED
  BY <1>3, <1>4

\* A byte of the frame on the air.
LEMMA StepDeliver ==
  ASSUME Typed, Typed', InStep, Deliver PROVE InStep'
<1> DEFINE b == frame[pos + 1]
<1>1. /\ protocol \in {"crsf", "mavlink"} /\ protocol' = protocol
      /\ frame' = frame /\ frame \in Frames(protocol) /\ frame \in Seq(Byte)
      /\ Len(frame) \in 4..Longest(protocol) /\ Len(frame) \in Nat
      /\ pos \in 0..(Len(frame) - 1) /\ pos' = pos + 1 /\ b \in Byte
      /\ Longest(protocol) \in Nat /\ Longest(protocol)' = Longest(protocol)
  BY TypedFrame DEF Deliver, Longest
<1>2. /\ unsure \in Nat /\ unsure' \in Nat
      /\ \/ unsure' >= unsure - 1 \/ unsure' = 2 * Longest(protocol)
      /\ unsure > 0 /\ pos > 0 /\ b = SyncByte
           => unsure' = 2 * Longest(protocol)
      /\ rx \in Seq(Byte) /\ Len(rx) \in Nat /\ Len(rx) < Longest(protocol)
  BY TypedFrame DEF Deliver, Larger, FalseStart
<1>3. /\ BufferOK /\ PacketOK /\ StreamOK /\ parseByte(b)
  BY DEF Typed, Deliver
<1>4. /\ rx = <<>> => rx' = IF b = SyncByte THEN <<b>> ELSE <<>>
      /\ rx # <<>> => rx' \in {<<>>, Append(rx, b)}
  BY <1>1, <1>3, AnyByte
<1>5. /\ Append(rx, b) # <<>> /\ Len(Append(rx, b)) = Len(rx) + 1
      /\ \A i \in 1..Len(rx) : Append(rx, b)[i] = rx[i]
      /\ Append(rx, b)[Len(rx) + 1] = b
  <2>1. /\ Append(rx, b) \in Seq(Byte) /\ Len(Append(rx, b)) = Len(rx) + 1
        /\ \A i \in 1..Len(rx) : Append(rx, b)[i] = rx[i]
        /\ Append(rx, b)[Len(rx) + 1] = b
    BY <1>1, <1>2, Appended
  <2>2. Append(rx, b) # <<>>
    <3> HIDE DEF b
    <3> QED
      BY <1>2, <2>1
  <2> QED
    BY <2>1, <2>2
<1>6. CASE Synced
  <2>1. CASE pos = 0
    <3>1. b = SyncByte /\ b = frame[1]
      BY <1>1, <2>1, TypedFrame
    <3>2. rx = <<>>
      BY <1>1, <1>2, <1>6, <2>1, EmptySeq DEF Synced
    <3>3. rx' = <<b>> /\ pos' = 1
      BY <1>1, <1>4, <2>1, <3>1, <3>2
    <3>4. Len(rx') = 1 /\ rx'[1] = frame[1]
      BY <3>1, <3>3
    <3>5. Synced'
      <4> HIDE DEF b
      <4> QED
        BY <1>1, <3>3, <3>4 DEF Synced
    <3> QED
      BY <3>5 DEF InStep
  <2>2. CASE pos # 0 /\ pos + 1 < Len(frame)
    <3>1. rx' = Append(rx, b)
      BY <1>1, <1>3, <1>6, <2>2, GoodByte
    <3>2. Len(rx) = pos /\ \A i \in 1..pos : rx[i] = frame[i]
      BY <1>1, <1>6 DEF Synced
    <3>3. Len(rx') = pos' /\ \A i \in 1..pos' : rx'[i] = frame[i]
      <4>1. \A i \in 1..(pos + 1) : i \in 1..pos \/ i = pos + 1
        BY <1>1
      <4> DEFINE longer == Append(rx, b)
      <4>2. /\ Len(longer) = pos + 1 /\ \A i \in 1..pos : longer[i] = frame[i]
            /\ longer[pos + 1] = frame[pos + 1]
        BY <1>5, <3>2
      <4> HIDE DEF longer
      <4>3. \A i \in 1..(pos + 1) : longer[i] = frame[i]
        BY <4>1, <4>2
      <4> QED
        BY <1>1, <3>1, <4>2, <4>3 DEF longer
    <3>4. Synced'
      BY <1>1, <2>2, <3>3 DEF Synced
    <3> QED
      BY <3>4 DEF InStep
  <2>3. CASE pos # 0 /\ pos + 1 = Len(frame)
    <3>1. rx' = <<>>
      BY <1>1, <1>3, <1>6, <2>3, GoodByte
    <3>2. Synced'
      BY <1>1, <2>3, <3>1 DEF Synced
    <3> QED
      BY <3>2 DEF InStep
  <2> QED
    BY <1>1, <2>1, <2>2, <2>3
<1>7. CASE Skipping
  <2>1. /\ rx = <<>> /\ pos > 0 /\ unsure > 0
        /\ Len(frame) - pos <= unsure
    BY <1>1, <1>2, <1>7 DEF Skipping
  <2>2. CASE b = SyncByte
    <3>1. rx' = <<b>> /\ unsure' = 2 * Longest(protocol)
      BY <1>2, <1>4, <2>1, <2>2
    <3>2. rx' # <<>> /\ Len(rx') = 1
      <4> HIDE DEF b
      <4> QED
        BY <3>1
    <3>3. 2 * Longest(protocol) - 1 <= unsure'
      BY ONLY <1>1, <3>1
    <3> QED
      BY <1>1, <3>2, <3>3 DEF Locked, InStep
  <2>3. CASE b # SyncByte
    <3>1. rx' = <<>>
      BY <1>4, <2>1, <2>3
    <3>2. CASE pos + 1 = Len(frame)
      BY <1>1, <3>1, <3>2 DEF Synced, InStep
    <3>3. CASE pos + 1 < Len(frame)
      <4>1. Len(frame) - (pos + 1) <= unsure'
        BY ONLY <1>1, <1>2, <2>1
      <4> QED
        BY <1>1, <3>1, <3>3, <4>1 DEF Skipping, InStep
    <3> QED
      BY <1>1, <3>2, <3>3
  <2> QED
    BY <2>2, <2>3
<1>8. CASE Locked
  <2>1. CASE rx' = Append(rx, b)
    <3>1. Len(rx') = Len(rx) + 1 /\ rx' # <<>>
      BY <1>5, <2>1
    <3>2. 2 * Longest(protocol) - Len(rx) <= unsure
      BY <1>8 DEF Locked
    <3>3. 2 * Longest(protocol) - Len(rx') <= unsure'
      BY ONLY <1>1, <1>2, <3>1, <3>2
    <3> QED
      BY <1>1, <3>1, <3>3 DEF Locked, InStep
  <2>2. CASE rx' = <<>>
    <3>1. 2 * Longest(protocol) - Len(rx) <= unsure
      BY <1>8 DEF Locked
    <3>2. unsure' >= Longest(protocol)
      BY ONLY <1>1, <1>2, <3>1
    <3>3. CASE pos + 1 = Len(frame)
      BY <1>1, <2>2, <3>3 DEF Synced, InStep
    <3>4. CASE pos + 1 < Len(frame)
      BY <1>1, <1>2, <2>2, <3>2, <3>4 DEF Skipping, InStep
    <3> QED
      BY <1>1, <3>3, <3>4
  <2> QED
    BY <1>4, <1>8, <2>1, <2>2 DEF Locked
<1> QED
  BY <1>6, <1>7, <1>8 DEF InStep

LEMMA StepFault == ASSUME Typed, Typed', Fault PROVE InStep'
<1>1. /\ frame' = frame /\ Len(frame) \in 4..Longest(protocol)
      /\ Len(frame) \in Nat /\ Longest(protocol) \in Nat
      /\ Longest(protocol)' = Longest(protocol)
      /\ unsure' = 2 * Longest(protocol)
  BY TypedFrame DEF Fault, Longest
<1>2. /\ pos' \in 0..Len(frame) /\ rx' \in Seq(Byte) /\ Len(rx') \in Nat
  <2>1. StreamOK' /\ BufferOK'
    BY DEF Typed
  <2> QED
    BY <1>1, <2>1 DEF StreamOK, BufferOK
<1>3. CASE rx' # <<>>
  <2>1. 2 * Longest(protocol) - Len(rx') <= 2 * Longest(protocol)
    BY ONLY <1>1, <1>2
  <2> QED
    BY <1>1, <1>3, <2>1 DEF Locked, InStep
<1>4. CASE rx' = <<>> /\ pos' = Len(frame)
  BY <1>1, <1>4 DEF Synced, InStep
<1>5. CASE rx' = <<>> /\ pos' = 0
  <2>1. Len(rx') = 0
    BY <1>5
  <2> QED
    BY <1>1, <1>5, <2>1 DEF Synced, InStep
<1>6. CASE rx' = <<>> /\ pos' \in 1..(Len(frame) - 1)
  <2>1. Len(frame) - pos' <= 2 * Longest(protocol)
    BY ONLY <1>1, <1>6
  <2> QED
    BY <1>1, <1>6, <2>1 DEF Skipping, InStep
<1> QED
  BY <1>1, <1>2, <1>3, <1>4, <1>5, <1>6

LEMMA StepNext ==
  ASSUME Typed, Typed', InStep, [Next]_vars PROVE InStep'
<1>0. /\ Len(frame) \in 4..Longest(protocol) /\ Len(frame) \in Nat
      /\ pos \in 0..Len(frame) /\ unsure \in Nat
  BY TypedFrame
<1>1. ASSUME NEW n \in 1..MaxPiece, parseBuffer(n) PROVE InStep'
  BY <1>1 DEF parseBuffer, link, InStep, Synced, Skipping, Locked, Longest
<1>2. CASE NextFrame
  <2>1. /\ rx' = rx /\ unsure' = unsure /\ protocol' = protocol /\ pos' = 0
        /\ pos = Len(frame)
    BY <1>2 DEF NextFrame, parser
  <2>2. Len(frame') \in Nat /\ Len(frame') >= 4
    <3>1. protocol \in {"crsf", "mavlink"} /\ frame' \in Frames(protocol)
      BY <1>2, TypedFrame DEF NextFrame
    <3> QED
      BY <3>1, FrameFacts
  <2>3. CASE Synced
    <3>1. rx' = <<>> /\ Len(rx') = 0
      BY <2>1, <2>3 DEF Synced
    <3> QED
      BY <2>1, <2>2, <3>1 DEF Synced, InStep
  <2>4. CASE Locked
    BY <2>1, <2>4 DEF Locked, Longest, InStep
  <2> QED
    BY <1>0, <2>1, <2>3, <2>4 DEF InStep, Skipping
<1>3. CASE Deliver
  BY <1>3, StepDeliver
<1>4. CASE Discard
  <2>1. rx' = <<>> /\ frame' = frame /\ pos' = pos + 1 /\ pos < Len(frame)
    BY <1>4 DEF Discard, parser, Typed, BufferOK
  <2>2. unsure' >= Len(frame) - pos'
    BY <1>0, <1>4, <2>1 DEF Discard, Larger
  <2>3. CASE pos' = Len(frame)
    BY <2>1, <2>3 DEF Synced, InStep
  <2>4. CASE pos' # Len(frame)
    BY <1>0, <2>1, <2>2, <2>4 DEF Skipping, InStep
  <2> QED
    BY <2>3, <2>4
<1>5. CASE Fault
  BY <1>5, StepFault
<1>6. CASE UNCHANGED vars
  BY <1>6 DEF vars, parser, link, InStep, Synced, Skipping, Locked, Longest
<1> QED
  BY <1>1, <1>2, <1>3, <1>4, <1>5, <1>6 DEF Next

\* With nothing unsure, the assembler is in step.
LEMMA CertainInStep ==
  ASSUME Typed, InStep, unsure = 0 PROVE Synced
<1>1. /\ Len(frame) \in Nat /\ Longest(protocol) \in Nat /\ pos \in 0..Len(frame)
      /\ Len(rx) \in Nat /\ Len(rx) < Longest(protocol)
  BY TypedFrame
<1>2. ~Skipping
  BY <1>1 DEF Skipping
<1>3. ~Locked
  <2>1. ~(2 * Longest(protocol) - Len(rx) <= 0)
    BY ONLY <1>1
  <2> QED
    BY <2>1 DEF Locked
<1> QED
  BY <1>2, <1>3 DEF InStep

\* For any frames, what they hold included, and any checksums: a parser in step
\* stays there, and one that a fault, a cut or the start put out of step is back
\* once the bytes of two longest frames have come without a false start.
THEOREM SyncIsRegained == Spec => []SyncRegained
<1>1. Typed /\ InStep => SyncRegained
  <2> SUFFICES ASSUME Typed, InStep, unsure = 0
               PROVE  rx = IF pos = Len(frame) THEN <<>>
                                               ELSE SubSeq(frame, 1, pos)
    BY DEF SyncRegained
  <2>1. Synced
    BY CertainInStep
  <2>2. CASE pos = Len(frame)
    BY <2>1, <2>2 DEF Synced
  <2>3. CASE pos # Len(frame)
    <3>1. Len(rx) = pos /\ \A i \in 1..pos : rx[i] = frame[i]
      BY <2>1, <2>3 DEF Synced
    <3>2. /\ frame \in Seq(Byte) /\ pos \in 0..Len(frame) /\ rx \in Seq(Byte)
          /\ pos \in Nat /\ Len(frame) \in Nat
      BY TypedFrame
    <3> DEFINE part == SubSeq(frame, 1, pos)
    <3>3. /\ part \in Seq(Byte) /\ Len(part) = pos
          /\ \A i \in 1..pos : part[i] = frame[i]
      BY <3>2
    <3>4. rx = part
      <4> HIDE DEF part
      <4> QED
        BY <3>1, <3>2, <3>3, SeqEqual
    <3> QED
      BY <2>3, <3>4
  <2> QED
    BY <2>2, <2>3
<1>2. Typed /\ InStep /\ [Next]_vars => (Typed /\ InStep)'
  BY TypedNext, StepNext
<1> QED
  BY <1>1, <1>2, TypedInit, StepInit, PTL DEF Spec

\* For any frames: one that ends in step is handed out as it was sent, whatever
\* packet was in the array before and whatever bytes it holds.
THEOREM FramesDoArrive == Spec => FramesArrive
<1> DEFINE ends == /\ unsure = 0 /\ faults' = faults
                   /\ pos' # pos /\ pos' = Len(frame)
           handed == /\ accepted' /\ packet'.length = frame[2]
                     /\ LET first == IF protocol = "crsf" THEN 3 ELSE 6 IN
                        \A i \in 1..(Len(frame) - first) :
                           i <= frame[2] - (IF protocol = "crsf" THEN 2 ELSE 0)
                           => packet'.payload[i - 1] = frame[first + i]
<1>1. Typed /\ InStep /\ [Next]_vars => [ends => handed]_vars
  <2> SUFFICES ASSUME Typed, InStep, Next, ends PROVE handed
    OBVIOUS
  <2>0. /\ Len(frame) \in Nat /\ Len(frame) >= 4 /\ pos \in 0..Len(frame)
        /\ Synced /\ faults \in Nat
    BY TypedFrame, CertainInStep DEF Typed, StreamOK
  <2>1. CASE Deliver
    <3>1. pos \in 1..(Len(frame) - 1) /\ pos + 1 = Len(frame)
      BY <2>0, <2>1 DEF Deliver
    <3>2. BufferOK /\ PacketOK /\ StreamOK /\ parseByte(frame[pos + 1])
      BY <2>1 DEF Typed, Deliver
    <3>3. Arrived
      BY <2>0, <3>1, <3>2, GoodByte
    <3> QED
      BY <3>3 DEF Arrived, FirstByte, PayloadLen
  <2>2. CASE Discard
    <3>1. pos' = pos + 1 /\ rx = <<>> /\ pos < Len(frame)
      BY <2>2 DEF Discard, Typed, BufferOK
    <3>2. Len(rx) = pos /\ Len(rx) = 0
      BY <3>1, <2>0 DEF Synced
    <3> QED
      BY <2>0, <3>1, <3>2
  <2>3. CASE NextFrame
    BY <2>0, <2>3 DEF NextFrame
  <2>4. ASSUME NEW n \in 1..MaxPiece, parseBuffer(n) PROVE FALSE
    BY <2>4 DEF parseBuffer, link
  <2>5. CASE Fault
    BY <2>0, <2>5 DEF Fault
  <2> QED
    BY <2>1, <2>2, <2>3, <2>4, <2>5 DEF Next
<1>2. Typed /\ InStep /\ [Next]_vars => (Typed /\ InStep)'
  BY TypedNext, StepNext
<1> QED
  BY <1>1, <1>2, TypedInit, StepInit, PTL DEF Spec, FramesArrive
=============================================================================
