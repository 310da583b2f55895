SPECIFICATION FairSpec
CONSTANTS
    ShardCount = 2
    Workers = {w1, w2}
    Work <- MCWork
    TaskChanSize = 1
    EntryChanSize = 1
    EndChanSize = 2
    ProofHeight = 2
INVARIANTS NoPanic TasksInOrder CommitIsWholeBlocks ProofServed
PROPERTIES RefinesBlockPipeline BlocksFinish
