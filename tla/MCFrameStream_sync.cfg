SPECIFICATION FairSpec
CONSTANTS
  MaxByte = 5
  Leftover = 99
  CRSF_SYNC_BYTE = 5
  CRSF_PAYLOAD_SIZE_MAX = 2
  CRSF_MAX_PACKET_SIZE = 6
  crsfCrc <- MCcrsfCrc
  MAVLINK_STX_V1 = 5
  MavlinkBufferSize = 15
  KnownMessages <- MCKnown
  mavlinkCrc <- MCmavlinkCrc
  CrsfFrames <- MCCrsfFrames
  MavlinkFrames <- MCMavlinkFrames
  Noise <- MCNoise
  MaxPiece = 2
  MaxFaults = 2
INVARIANTS TypeOK SyncRegained
PROPERTIES FramesArrive KeepsReceiving
