SPECIFICATION Spec
CONSTANTS
  rf = rf
  rid = rid
  NoTask = NoTask
  Tasks <- MCTasks
  RadioTasks <- MCRadioTasks
  MaxFiles = 1
  RotateSize = 2
  EntrySizes <- MCEntrySizes
  CountMod = 16
  BootTimes <- MCBootTimes
  CardFaults <- MCFaults
  MaxUptime = 4
  MaxBoots = 1
CHECK_DEADLOCK FALSE
INVARIANTS BusExclusive
