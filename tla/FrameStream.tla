---------------------------- MODULE FrameStream ----------------------------
(***************************************************************************)
(* A frame parser on a byte stream.  A transmitter sends good frames back  *)
(* to back; the receiver is switched on in the middle of one, and the link *)
(* loses, damages and adds a bounded number of bytes.  The caller hands    *)
(* the bytes to parseBuffer() in pieces of any length (a piece of one byte *)
(* is a call of parseByte()).  parseBuffer() returns at the first packet:  *)
(* what is left of the piece is lost.                                      *)
(*                                                                         *)
(* Nothing in the firmware calls the parsers yet; the transmitter, the     *)
(* link and the caller stand for the receiver they are meant for and for   *)
(* the streams of test/host/test_parsers.cpp.                              *)
(***************************************************************************)
EXTENDS CrsfParser, MavlinkParser

CONSTANTS
  CrsfFrames, MavlinkFrames, \* frames the transmitter may send
  Noise,                     \* bytes the link may put in (a subset: bound)
  MaxPiece,                  \* bound on the length of a piece
  MaxFaults                  \* bound on damaged bytes

VARIABLES
  protocol,
  frame, pos,   \* the frame on the air, of which pos bytes are gone
  left,         \* bytes of the piece parseBuffer() has not looked at
  faults,
  unsure        \* bytes without a false start after which it must be in step

parser == <<rx, packet, accepted>>
link == <<frame, pos, faults, unsure>>
vars == <<parser, link, protocol, left>>

Frames(p) == IF p = "crsf" THEN CrsfFrames ELSE MavlinkFrames
SyncByte == IF protocol = "crsf" THEN CRSF_SYNC_BYTE ELSE MAVLINK_STX_V1

\* The longest frame the assembler waits for.
Longest(p) == IF p = "crsf" THEN CRSF_MAX_PACKET_SIZE ELSE 8 + MaxByte

crsfGood(f) ==
  /\ Len(f) >= 4 /\ f[1] = CRSF_SYNC_BYTE
  /\ f[2] = Len(f) - 2 /\ Len(f) <= CRSF_MAX_PACKET_SIZE
  /\ f[Len(f)] = crsfCrc(<<f[3]>> \o [i \in 1..(f[2] - 2) |-> f[i + 3]])

mavlinkGood(f) ==
  /\ Len(f) >= 8 /\ f[1] = MAVLINK_STX_V1 /\ f[2] = Len(f) - 8
  /\ f[6] \in KnownMessages
  /\ <<f[Len(f) - 1], f[Len(f)]>> =
       mavlinkCrc(<<f[2]>> \o <<f[3], f[4], f[5]>> \o <<f[6]>>
                    \o [i \in 1..f[2] |-> f[i + 6]], f[6])

ASSUME StreamAssumption ==
  /\ CrsfFrames \subseteq {f \in Seq(Byte) : crsfGood(f)}
  /\ MavlinkFrames \subseteq {f \in Seq(Byte) : mavlinkGood(f)}
  /\ Noise \subseteq Byte /\ MaxPiece \in Nat \ {0} /\ MaxFaults \in Nat

Init ==
  /\ protocol \in {"crsf", "mavlink"}
  /\ rx = <<>> /\ accepted = FALSE
  /\ packet = Cleared(IF protocol = "crsf" THEN CRSF_PAYLOAD_SIZE_MAX
                                           ELSE MaxByte)
  /\ frame \in Frames(protocol) /\ pos \in 0..Len(frame) - 1
  /\ unsure = IF pos = 0 THEN 0 ELSE Len(frame) - pos
  /\ left = 0 /\ faults = 0
-----------------------------------------------------------------------------

parseByte(b) ==
  IF protocol = "crsf" THEN crsfParseByte(b) ELSE mavlinkParseByte(b)

\* parseBuffer() still has bytes to look at.
parsing == left > 0 /\ ~accepted

parseBuffer(n) ==
  /\ left = 0 /\ left' = n /\ accepted' = FALSE
  /\ UNCHANGED <<rx, packet, link, protocol>>

NextFrame ==
  /\ pos = Len(frame)
  /\ frame' \in Frames(protocol) /\ pos' = 0
  /\ UNCHANGED <<parser, protocol, left, faults, unsure>>

Larger(i, j) == IF i > j THEN i ELSE j

\* The byte to come looks like the start of a frame and is not.  To a parser in
\* step it is one byte of its frame; any other may take it for a start.
FalseStart == pos > 0 /\ frame[pos + 1] = SyncByte

Deliver ==
  /\ parsing /\ pos < Len(frame)
  /\ parseByte(frame[pos + 1])
  /\ pos' = pos + 1 /\ left' = left - 1
  /\ unsure' = IF unsure > 0 /\ FalseStart THEN 2 * Longest(protocol)
               ELSE Larger(unsure - 1, 0)
  /\ UNCHANGED <<protocol, frame, faults>>

\* parseBuffer() has returned: the caller throws the rest of the piece away.
Discard ==
  /\ left > 0 /\ accepted /\ pos < Len(frame)
  /\ pos' = pos + 1 /\ left' = left - 1
  /\ unsure' = Larger(unsure - 1, Len(frame) - pos')
  /\ UNCHANGED <<parser, protocol, frame, faults>>

\* A byte of the frame lost, damaged, or one that nobody sent.
Fault ==
  /\ faults < MaxFaults /\ faults' = faults + 1
  /\ unsure' = 2 * Longest(protocol)
  /\ \/ /\ pos < Len(frame) /\ pos' = pos + 1
        /\ UNCHANGED <<parser, left>>
     \/ /\ parsing /\ left' = left - 1
        /\ \E b \in Noise : parseByte(b)
        /\ pos' \in {pos, pos + 1} /\ pos' <= Len(frame)
  /\ UNCHANGED <<protocol, frame>>

Next == (\E n \in 1..MaxPiece : parseBuffer(n)) \/ NextFrame \/ Deliver
        \/ Discard \/ Fault

Spec == Init /\ [][Next]_vars

\* The transmitter keeps sending and the caller keeps calling.
FairSpec ==
  Spec /\ WF_vars((\E n \in 1..MaxPiece : parseBuffer(n)) \/ NextFrame
                  \/ Deliver \/ Discard)
-----------------------------------------------------------------------------
(* Properties.                                                             *)

\* The buffers: the assembler never holds a frame it cannot finish, and no
\* packet carries bytes from behind rxIndex (CHANGELOG.md:68,76: the length
\* byte used to wrap).
TypeOK ==
  /\ protocol \in {"crsf", "mavlink"}
  /\ rx \in Seq(Byte) /\ Len(rx) < Longest(protocol)
  /\ packet.length \in Byte
  /\ packet.payload \in [DOMAIN packet.payload -> Byte]
  /\ packet.kind \in Byte /\ packet.valid \in BOOLEAN
  /\ packet.crc \in Seq(Byte)
  /\ accepted \in BOOLEAN
  /\ frame \in Frames(protocol) /\ pos \in 0..Len(frame)
  /\ left \in 0..MaxPiece /\ faults \in 0..MaxFaults /\ unsure \in Nat

\* Whatever the frames hold, a parser in step stays in step; after the start, a
\* fault or a piece thrown away it is back in step once the bytes of two longest
\* frames have come without a false start among them: a lock it is in and the
\* rest of a frame.  What it holds is then exactly the part of the frame that is
\* gone.
SyncRegained ==
  unsure = 0 =>
    rx = IF pos = Len(frame) THEN <<>> ELSE SubSeq(frame, 1, pos)

\* A frame that ends in step is handed out, valid, with its own payload: what
\* an earlier packet left in the array does not matter.
FramesArrive ==
  [][ unsure = 0 /\ faults' = faults /\ pos' # pos /\ pos' = Len(frame)
      => /\ accepted' /\ packet'.length = frame[2]
         /\ LET first == IF protocol = "crsf" THEN 3 ELSE 6 IN
            \A i \in 1..(Len(frame) - first) :
               i <= frame[2] - (IF protocol = "crsf" THEN 2 ELSE 0)
               => packet'.payload[i - 1] = frame[first + i] ]_vars

\* Unless frames with sync bytes inside are sent again and again, frames keep
\* coming out, however the caller cuts the stream.
KeepsReceiving ==
  \/ []<>accepted
  \/ []<>(\E i \in 2..Len(frame) : frame[i] = SyncByte)
=============================================================================
