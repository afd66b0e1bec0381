SPECIFICATION Spec
CONSTANTS
    Batches <- MCBatches
    MaxItems = 2
    MaxObserved = 0
    MaxWide = 0
INVARIANT DecodePrecedesGeometry
