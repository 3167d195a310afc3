CONSTANTS
  Home = 915
  Unknown = 2
  Contract <- MCContract
  Bands <- MCBands
  SxCount = 2
  RxCount = 2
  SubGhzRaw <- MCSubGhzRaw
  TwoPointFourRaw <- MCTwoPointFourRaw
  FivePointEightMv <- MCFivePointEightMv
  Modules <- MCModules
  Tables <- MCTables
  Timeout = 2
  MaxGap = 1
  TimeMod = 4
  SubGhz = 0
  TwoPointFour = 1
  FivePointEight = 2
  ScanEvery = 2
SPECIFICATION FairSpec
INVARIANTS TypeOK LoggedWhereSampled ScanLeavesNoTrace LevelBetween StrongerReadsHigher
PROPERTIES BoardSpec ChannelsCovered
