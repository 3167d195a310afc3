--------------------------- MODULE MCFrameStream ---------------------------
(* FrameStream with bytes of 0..5.  The checksums are weighted sums, so that *)
(* a frame read at the wrong offset may pass by accident, as with a CRC.     *)
(* One frame of each protocol holds a sync byte besides its first.           *)
EXTENDS FrameStream, SequencesExt

MCcrsfCrc(s) == FoldLeft(LAMBDA sum, b : (3 * sum + b + 1) % 6, 0, s)
MCmavlinkCrc(s, kind) ==
  LET c == FoldLeft(LAMBDA sum, b : (3 * sum + b + kind) % 36, 6, s)
  IN <<c % 6, c \div 6>>

MCCrsfFrames ==
  {<<5, Len(p) + 2, t>> \o p \o <<MCcrsfCrc(<<t>> \o p)>> :
     t \in {1}, p \in {<<>>, <<4, 2>>, <<5, 3>>}}

MCMavlinkFrames ==
  {<<5, Len(p), 0, 1, 1, k>> \o p
      \o MCmavlinkCrc(<<Len(p), 0, 1, 1, k>> \o p, k) :
     k \in {2}, p \in {<<>>, <<5>>}}

MCNoise == {5}
MCKnown == {2}
=============================================================================
