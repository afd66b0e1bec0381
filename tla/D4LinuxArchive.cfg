SPECIFICATION FairSpec
CONSTANTS
    t1 = t1
    t8 = t8
    Budgets <- TwoBudgets
    Provider <- OnLinux
    Versions <- TwoVersions
    WorkloadOf <- OneWorkload
    ListedOf <- NoneListed
    FaultKinds <- EveryKind
    MaxFaults = 0
    ClockStep = 3
    Attempts = 0
PROPERTIES
    SoundCapturesAreCertified
CHECK_DEADLOCK FALSE
