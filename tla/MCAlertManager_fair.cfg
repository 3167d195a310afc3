SPECIFICATION FairSpec
CONSTANTS
  TimeMod = 4
  Timeout = 1
  MaxLag = 1
  Count <- MCCount
  Duration <- MCDuration
  Gap <- MCGap
  Blink <- MCBlink
  StealthModes <- MCEither
INVARIANTS NoBeepUnderflow LedFollowsAlert PausesEnd
PROPERTIES AlarmSpec AlertsEnd
