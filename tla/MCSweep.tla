------------------------------- MODULE MCSweep ------------------------------
(* Small instances of Sweep.                                               *)
EXTENDS Sweep

\* 2 is outside the contract, and no band.
MCContract == {860, 915, 920}
MCBands == <<860, 920>>
MCModules == 0..2

\* Registers of the CC1101: 144 is -130 dBm, which int8_t makes 126 dBm, and 220
\* is -92 dBm.
MCSubGhzRaw == {144, 220}
MCTwoPointFourRaw == {140}
MCFivePointEightMv == {300, 900}

\* The defaults, one that is lower, and one that does not rise.
MCTables == {<<45, 60, 75, 85>>, <<20, 30, 52, 90>>, <<55, 50, 101, 101>>}
=============================================================================
