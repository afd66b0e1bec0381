SPECIFICATION Spec
CONSTANTS
    Sources <- MCSources
    Batches <- MCBatches
    Families = {"references"}
    ItemLimit = 3
    BatchLimit = 5
    ChunkBytes = 2
    MaxRawFrames = 10
    DefaultFrames = 8
    Backends = {"pyav"}
INVARIANT PositionsNameSuppliedImages
