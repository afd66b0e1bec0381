SPECIFICATION Spec
CONSTANTS
    Calls <- MCCalls
    NewImages <- MCNewImages
    NewVideos <- MCNewVideos
    Sides = {"left", "right"}
    MaxWrites = 2
    ItemLimit = 3
    BatchLimit = 4
    PixelLimit = 4
    FrameLimit = 3
    TokenLimit = 30
INVARIANTS
    PreparedCopiesAreWithinTheLimits
    MediaStandWhereTheMetadataSays
CHECK_DEADLOCK FALSE
