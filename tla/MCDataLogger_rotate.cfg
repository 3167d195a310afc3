SPECIFICATION FairSpec
CONSTANTS
  rf = rf
  rid = rid
  NoTask = NoTask
  Tasks <- MCTasks
  RadioTasks <- MCRadioTasks
  MaxFiles = 1
  RotateSize = 2
  EntrySizes <- MCEntrySizes
  CountMod = 16
  BootTimes <- MCBootTimes
  CardFaults <- MCFaults
  MaxUptime = 5
  MaxBoots = 2
CHECK_DEADLOCK FALSE
INVARIANTS LockedExclusive FileCountBounded FileSizeBounded
PROPERTIES CardSpec LockReleased
