SPECIFICATION FairSpec
CONSTANTS
  s1 = s1
  badSsid = badSsid
  p1 = p1
  badPwd = badPwd
  g1 = g1
  g2 = g2
  g3 = g3
  g4 = g4
  r1 = r1
  r2 = r2
  gen = gen
  sky = sky
  keep = keep
  GenSsid = gen
  RetiredSsid = sky
  Keep = keep
  Empty = Empty
  NoCfg = NoCfg
  Absent = Absent
  Torn = Torn
  DefaultRest = r1
  PostSsids <- MCPostSsids
  ValidSsids <- MCValidSsids
  GenPasswords <- MCGenPasswords4
  PostPasswords <- MCPostPasswords
  ValidPasswords <- MCValidPasswords
  PostChannels <- MCBadChannel
  Rests <- MCRests
  FaultKinds <- MCNoCut
  MaxFaults = 2
  MaxBoots = 2
CHECK_DEADLOCK FALSE
INVARIANTS ApPasswordKnown
PROPERTIES BootRecovers
