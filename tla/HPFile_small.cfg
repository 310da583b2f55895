SPECIFICATION Spec
CONSTANTS
    SegmentSize = 4
    BufferSize = 2
    IoBlkSize = 2
    Lengths = {1, 2}
    TruncateOnOpen = TRUE
    MaxAppends = 7
INVARIANTS ReadBack CommittedSurvives
