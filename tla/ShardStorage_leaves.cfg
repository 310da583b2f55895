SPECIFICATION Spec
CONSTANTS
    LeafCount = 2
    Groups = 1
    MaxTwigs = 7
    InitCount = 4
    EntrySeg = 2
    TwigSeg = 100
    WithTwigFile = TRUE
    Cipher = FALSE
    PruneEvery = 1
    Kept = 1
    MinPruneCount = 2
    Victims <- MCEnds
    MaxDeact = 2
    CrashPoints = {"block", "flush", "commit", "torn", "history"}
    MaxSN = 8
    MaxHeight = 3
    MaxCrashes = 1
INVARIANTS RecoverySucceeds ProofsVerify ActiveBitsExact
CHECK_DEADLOCK FALSE
