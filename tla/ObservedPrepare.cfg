SPECIFICATION Spec
CONSTANTS
    Calls <- MCCalls
    Bytes <- MCBytes
    MaxMedia = 2
    Entries = {"plan", "observer", "envelope", "binding"}
    Capacities = {0, 3, 64}
INVARIANTS
    TypeOK
    LiveIsHeld
    CountersAgreeWithTable
    EventsAccounted
    OpenSpansAreTheCallers
    ChildrenFitInTheirParent
    ReportAnswersTheCall
    RetainedIsWhatTheCallReturns
