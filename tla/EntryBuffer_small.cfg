SPECIFICATION FairSpec
CONSTANTS
    BigBufSize = 3
    BufMargin = 3
    EntrySizes = {1, 2}
    StartPos = 2
    ChanCap = 1
    MaxEnd = 9
INVARIANTS ReadsSucceed DroppedIsOnDisk FlusherSeesContent
PROPERTY BlocksReachDisk
