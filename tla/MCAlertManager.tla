-------------------------- MODULE MCAlertManager ---------------------------
(* AlertManager with its durations scaled down.  The order the code relies   *)
(* on is kept: a gap and a turn of the loop are together shorter than the    *)
(* LED period of a medium or a high alert, a gap is as long as the period of *)
(* a critical one, and the timeout and the gaps are below a wrap.            *)
EXTENDS AlertManager

ByType(medium, high, critical) ==
  [t \in Raised |-> CASE t = ALERT_ACTIVITY_MEDIUM -> medium
                      [] t = ALERT_ACTIVITY_HIGH -> high
                      [] t = ALERT_ACTIVITY_CRITICAL -> critical]

MCCount == ByType(1, 2, 2)
MCDuration == ByType(1, 1, 1)
MCGap == ByType(1, 1, 1)
MCBlink == ByType(3, 3, 1)
MCOn == {TRUE}
MCEither == BOOLEAN

ASSUME MCPausesFit == PausesFit
=============================================================================
