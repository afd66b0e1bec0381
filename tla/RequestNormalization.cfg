SPECIFICATION FairSpec
CONSTANTS
    Sources <- MCSources
    Batches <- MCBatches
    Families = {"budgets", "references", "samples"}
    ItemLimit = 3
    BatchLimit = 5
    ChunkBytes = 2
    MaxRawFrames = 6
    DefaultFrames = 8
    Backends = {"pyav"}
INVARIANTS
    TypeOK
    MemoryStaysWithinTheLimits
    ItemsNameTheirMedia
    BudgetIsWhatIsKept
    SampledFramesSpanTheClip
PROPERTY EveryBatchIsAnswered
