SPECIFICATION FairSpec
CONSTANTS
    Images = 6
    RowStart <- SixImages
    Videos = 2
    VideoRowStart <- TwoVideos
    TextElements = 2
    Parallel = TRUE
    Offers <- MCOffers
INVARIANTS
    TypeOK
    SlicesHoldTheirImages
    WritersNeverShareCells
    RefusedCallsWriteNothing
    CompletedCallsFillTheImages
PROPERTY AllOrNothing
