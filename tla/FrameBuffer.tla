---------------------------- MODULE FrameBuffer ----------------------------
(***************************************************************************)
(* What CRSFParser and MAVLinkParser have in common: bytes arrive one by   *)
(* one in rxBuffer, currentPacket is filled from a complete frame.  rx     *)
(* holds rxBuffer[0..rxIndex-1]; what lies behind rxIndex is left over     *)
(* from earlier frames.  The payload of a packet is an array: a shorter    *)
(* packet leaves the tail of the one before it in place.                   *)
(***************************************************************************)
EXTENDS Integers, Sequences

CONSTANTS
  MaxByte,     \* the largest uint8_t
  Leftover     \* what is read behind rxIndex

Byte == 0..MaxByte

ASSUME ByteAssumption == MaxByte \in Nat /\ Leftover \notin Byte

VARIABLES
  rx,        \* rxBuffer up to rxIndex
  packet,    \* currentPacket
  accepted   \* what the last call of parseByte() returned

\* rxBuffer[i - 1]
At(buffer, i) == IF i \in 1..Len(buffer) THEN buffer[i] ELSE Leftover

\* (variant) one byte too few is copied
Copied_Short(buffer, start, n, old) ==
  [i \in DOMAIN old |-> IF i < n - 1 THEN At(buffer, start + 1 + i)
                                     ELSE old[i]]

\* memcpy() of n payload bytes, from rxBuffer[start] on, over an old payload
Copied(buffer, start, n, old) ==
  [i \in DOMAIN old |-> IF i < n THEN At(buffer, start + 1 + i) ELSE old[i]]

\* The constructors clear the packet.
Cleared(size) ==
  [length |-> 0, header |-> <<>>, kind |-> 0, crc |-> <<>>, valid |-> FALSE,
   payload |-> [i \in 0..size - 1 |-> 0]]

\* parseByte() goes on collecting, or gives up what it has: false either way.
Collect(buffer) == rx' = buffer /\ accepted' = FALSE /\ UNCHANGED packet

\* parseByte() hands out a packet and starts over.
Complete(p) == packet' = p /\ accepted' = p.valid /\ rx' = <<>>
=============================================================================
