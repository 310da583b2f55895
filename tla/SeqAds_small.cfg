SPECIFICATION Spec
CONSTANTS
  MCSentries = 4
  MCUnitSize = 4
  Keys = {1, 2}
  NoValue = 0
  SentryHash <- MCSentryHash
  EndHash <- MCEndHash
  K80 <- MCK80
  UnitOf <- MCUnitOf
  UtilRatio = 2
  UtilDiv = 3
  CompactThres = 5
  LeafBits = 3
  GroupBits = 1
  OpsPerSet = 2
  TxPerBlock = 2
  MaxHeight = 2
  MaxSN = 17
INVARIANTS SeqShardExact ProofPredictsRun 
PROPERTY RefinesCommitStore
