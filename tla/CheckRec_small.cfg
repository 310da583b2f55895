SPECIFICATION CheckSpec
CONSTANTS
  MCSentries = 2
  MCUnitSize = 4
  Keys = {1, 2, 5}
  Values = {v1, v2}
  NoValue = NoValue
  SentryHash <- MCSentryHash
  EndHash <- MCEndHash
  K80 <- MCK80
  UnitOf <- MCUnitOf
  UtilRatio = 1
  UtilDiv = 1
  CompactThres = 3
  CompactTrigger = 1
  RingSize = 1
  OpsPerBlock = 2
  MaxSN = 14
INVARIANTS OracleAgrees NoActiveBelowStart ReplayMatchesIndex SortedChain OpsFindEntries RingCoversPassed
PROPERTY RefinesKVStore
