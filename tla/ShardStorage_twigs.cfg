SPECIFICATION Spec
CONSTANTS
    LeafCount = 1
    Groups = 1
    MaxTwigs = 7
    InitCount = 2
    EntrySeg = 1
    TwigSeg = 2
    WithTwigFile = TRUE
    Cipher = FALSE
    PruneEvery = 1
    Kept = 1
    MinPruneCount = 2
    Victims <- MCEnds
    MaxDeact = 1
    CrashPoints = {"block", "history"}
    MaxSN = 6
    MaxHeight = 4
    MaxCrashes = 1
INVARIANTS RecoverySucceeds RootIsReference ProofsVerify LiveEntriesKept AckedSurvives KeepsRecentHeights
CHECK_DEADLOCK FALSE
