SPECIFICATION Spec
CONSTANTS
  a1 = a1
  a2 = a2
  Aircraft <- MCAircraft
  NoName = NoName
  MAX_DETECTED_DRONES = 2
  BLE_SCAN_INTERVAL_MS = 2
  REMOTE_ID_CLEANUP_MS = 2
  TaskDelay = 1
  MaxLag = 1
INVARIANTS
  TypeOK
  NamedNotPlaced
  ReportedFresh
PROPERTIES
  TableSpec
