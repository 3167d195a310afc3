--------------------------- MODULE MCPowerManager ---------------------------
(* PowerManager with its three readers and a charge on each side of 5 %.   *)
EXTENDS PowerManager

CONSTANTS loop, web

MCReaders == {RF, loop, web}
MCTwoReaders == {RF, loop}
MCCharges == {4, 100}
=============================================================================
