SPECIFICATION Spec
CONSTANTS
    Batches <- MCBatches
    MaxItems = 3
    MaxObserved = 2
    MaxWide = 4
INVARIANTS
    TypeOK
    LayoutsTileTheOutput
    CollectedErrorsHaveDistinctPlaces
    LimitsPrecedeDecoding
    PreparedBatchesAreComplete
PROPERTY AnswersWithTheVerdictOfTheBatch
