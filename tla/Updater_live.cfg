SPECIFICATION FairSpec
CONSTANTS
  MCSentries = 8
  MCUnitSize = 4
  Keys = {1, 2, 5}
  Values = {v1}
  NoValue = NoValue
  SentryHash <- MCSentryHash
  EndHash <- MCEndHash
  K80 <- MCK80
  UnitOf <- MCUnitOf
  UtilRatio = 1
  UtilDiv = 1
  CompactThres = 8
  CompactTrigger = 1
  RingSize = 1
  OpsPerBlock = 1
  MaxSN = 20
INVARIANT CompactorReads
PROPERTY CompactionEnds
