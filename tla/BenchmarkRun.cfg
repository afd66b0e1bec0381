SPECIFICATION FairSpec
CONSTANTS
    Warmups = 1
    MinimumSamples = 2
    MinimumTime = 8
    FloorLimit = 3
    Walls = {1, 2, 4}
    MaxReads = 3
    MaxFaults = 1
    Regimes <- MCRegimes
    Cases <- MCCases
    Repetitions = 3
    Coin <- MCCoin
    Settings <- MCSettings
INVARIANTS
    RetainedIsReadAfterTheCall
    WrittenResultsFollowTheSchedule
PROPERTY SoundRunsAreReported
