--------------------------- MODULE MavlinkParser ---------------------------
(* MAVLinkParser (protocols/mavlink_parser.cpp).  The length field of a      *)
(* MAVLink v1 frame counts the payload only.                                 *)
EXTENDS FrameBuffer

CONSTANTS
  MAVLINK_STX_V1,
  MavlinkBufferSize,   \* 280
  KnownMessages,       \* the message ids with a CRC_EXTRA
  mavlinkCrc(_, _)     \* the CRC-16 of a sequence and the CRC_EXTRA of an id,
                       \* as <<low byte, high byte>>

ASSUME MavlinkAssumption ==
  /\ MAVLINK_STX_V1 \in Byte
  /\ MavlinkBufferSize \in Nat /\ MavlinkBufferSize >= 8 + MaxByte

validateChecksum(length, header, kind, payload, crc) ==
  /\ kind \in KnownMessages
  /\ mavlinkCrc(<<length>> \o header \o <<kind>> \o payload, kind) = crc

\* The packet in a buffer that holds 8 bytes and the payload.
mavlinkPacket(buffer, old) ==
  LET n == buffer[2]
      header == <<buffer[3], buffer[4], buffer[5]>>
      payload == Copied(buffer, 6, n, old)
      crc == <<At(buffer, 7 + n), At(buffer, 8 + n)>>
  IN [length |-> n, header |-> header, kind |-> buffer[6],
      payload |-> payload, crc |-> crc,
      valid |-> validateChecksum(n, header, buffer[6],
                                 [i \in 1..n |-> payload[i - 1]], crc)]

\* (variant) the sum in a uint8_t
mavlinkExpectedLength_Wraps(buffer) == (8 + buffer[2]) % (MaxByte + 1)

mavlinkExpectedLength(buffer) == 8 + buffer[2]

mavlinkParseByte(b) ==
  LET buffer == Append(rx, b) IN
  \/ rx = <<>> /\ Collect(IF b = MAVLINK_STX_V1 THEN buffer ELSE <<>>)
  \/ /\ rx # <<>> /\ Len(rx) < MavlinkBufferSize
     /\ IF Len(buffer) >= 6 /\ Len(buffer) >= mavlinkExpectedLength(buffer)
        THEN Complete(mavlinkPacket(buffer, packet.payload))
        ELSE Collect(buffer)
=============================================================================
