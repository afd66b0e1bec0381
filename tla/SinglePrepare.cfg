SPECIFICATION Spec
CONSTANTS
    Batches <- MCBatches
    MaxItems = 3
INVARIANTS
    TypeOK
    DecodePrecedesGeometry
    CompositionChecksAgree
PROPERTY AnswersWithTheVerdictOfTheRequest
