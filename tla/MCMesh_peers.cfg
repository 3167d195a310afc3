SPECIFICATION FairSpec
CONSTANTS
  a = a
  b = b
  NoMac = NoMac
  Senders <- MCSenders
  nodeID <- MCIds
  myNodeID = 2
  MaxPeers = 2
  TimeMod = 6
  Heartbeat = 1
  Stale = 2
  MaxLag = 1
  MaxLoss = 1
INVARIANTS TypeOK PeersDistinct
PROPERTIES NeighboursSpec LivePeerKept PeerReturns
