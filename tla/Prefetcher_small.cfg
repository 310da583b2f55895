SPECIFICATION FairSpec
CONSTANTS
    BigBufSize = 2
    Size <- MCSize
    ShardCount = 2
    Work <- MCWork
    JobCount = 2
    PoolSize = 2
    UringCount = 2
    IdChanSize = 1
    DoneChanSize = 1
    ClientReads <- MCReads
INVARIANTS HitsAreExact DoneMeansFetched
PROPERTY BlocksRun
CHECK_DEADLOCK FALSE
