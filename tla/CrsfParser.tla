----------------------------- MODULE CrsfParser -----------------------------
(* CRSFParser (protocols/crsf_parser.cpp).  The length field of a CRSF frame *)
(* counts type, payload and CRC.                                             *)
EXTENDS FrameBuffer

CONSTANTS
  CRSF_SYNC_BYTE,
  CRSF_PAYLOAD_SIZE_MAX,
  CRSF_MAX_PACKET_SIZE,
  crsfCrc(_)           \* the CRC-8 of a sequence of bytes

ASSUME CrsfAssumption ==
  /\ CRSF_SYNC_BYTE \in Byte
  /\ CRSF_PAYLOAD_SIZE_MAX \in Nat
  /\ CRSF_MAX_PACKET_SIZE = CRSF_PAYLOAD_SIZE_MAX + 4

\* (variant) the type is left out
validateCRC_PayloadOnly(kind, payload, crc) == crsfCrc(payload) = crc

validateCRC(kind, payload, crc) == crsfCrc(<<kind>> \o payload) = crc

\* The packet in a buffer whose length byte is in range.
crsfPacket(buffer, old) ==
  LET n == buffer[2] - 2
      payload == Copied(buffer, 3, n, old)
      crc == At(buffer, n + 4)
  IN [length |-> buffer[2], header |-> <<>>, kind |-> buffer[3],
      payload |-> payload, crc |-> <<crc>>,
      valid |-> validateCRC(buffer[3], [i \in 1..n |-> payload[i - 1]], crc)]

BadLength(length) == length < 2 \/ length - 2 > CRSF_PAYLOAD_SIZE_MAX

\* (variant) the frame ends one byte late, where the CRC was looked for once
crsfExpectedLength_Late(buffer) == buffer[2] + 3

crsfExpectedLength(buffer) == buffer[2] + 2

crsfParseByte(b) ==
  LET buffer == Append(rx, b) IN
  \/ rx = <<>> /\ Collect(IF b = CRSF_SYNC_BYTE THEN buffer ELSE <<>>)
  \/ rx # <<>> /\ Len(buffer) < 3 /\ Collect(buffer)
  \/ rx # <<>> /\ Len(buffer) >= 3 /\ BadLength(buffer[2]) /\ Collect(<<>>)
  \/ /\ rx # <<>> /\ Len(buffer) >= 3 /\ ~BadLength(buffer[2])
     /\ IF Len(buffer) >= crsfExpectedLength(buffer)
        THEN Complete(crsfPacket(buffer, packet.payload))
        ELSE Collect(IF Len(buffer) >= CRSF_MAX_PACKET_SIZE THEN <<>>
                                                            ELSE buffer)
=============================================================================
