SPECIFICATION FairSpec
CONSTANTS
    t1 = t1
    t8 = t8
    Budgets <- OneBudget
    Provider <- OnTheSandbox
    Versions <- TwoVersions
    WorkloadOf <- OneWorkload
    ListedOf <- NoneListed
    FaultKinds <- EveryKind
    MaxFaults = 1
    ClockStep = 3
    Attempts = 1
INVARIANTS
    PayloadsComeFromReleasedSandboxes
    NoCaptureIsLost
    ReleasesRestOnBothCaptures
PROPERTIES
    SoundCapturesAreCertified
    SandboxesAreReleased
CHECK_DEADLOCK FALSE
