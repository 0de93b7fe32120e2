CONSTANTS
    OpTimeout = 5
    PollInterval = 2
    RequestTimeout = 1
    Phases = 2
    MaxStart = 1
    MaxNow = 9
SPECIFICATION Spec
INVARIANTS
    OutcomeMatchesOperation
    TimeoutIsJustified
PROPERTIES
    WaitEnds
    ImplementsResolution
CHECK_DEADLOCK FALSE
