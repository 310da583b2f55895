SPECIFICATION Spec
CONSTANTS
    Keys = {0, 1, 2, 4}
    HiSpan = 3
    Positions = {8, 16, 24, 32}
    LEAF_INIT_CAP = 2
    DEFAULT_LEAF_LEN = 2
    EXTRA_KV_PAIRS = 1
    ExtraDiv = 2
    MarginDiv = 2
    BUF_SIZE = 76
    COMPACT_RATIO = 1
    COMPACT_THRES = 3
    MaxChanges = 6
INVARIANTS
    LookupsExact
