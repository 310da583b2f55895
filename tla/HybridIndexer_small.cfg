SPECIFICATION Spec
CHECK_DEADLOCK FALSE
CONSTANTS
  Units = {0}
  Keys = {0, 2, 3, 4}
  InitialKeys = {0, 2, 3}
  BucketSpan = 2
  TruncSpan = 2
  PageSize = 1
  MergeThres = 0
  MergeRatio = 5
  MergeDiv = 100
  KeepRange = 2
  Lead = 1
  MaxHeight = 4
  MaxSN = 6
  WarmKeys = {2}
INVARIANTS
  FileLookupsExact
  CachedLookupsExact
