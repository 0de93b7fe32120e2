CONSTANTS
    N = 3
    Paths <- MCPaths
    Plans <- MCPlans
    WatchedPlans <- MCWatchedPlans
    MaxFailures = 1
SPECIFICATION Spec
CHECK_DEADLOCK FALSE
INVARIANTS
    CyclesAreReported
    StagesAreLongestChains
    NeverStuck
    WavesAreSafe
    NothingIsRedone
    FlowchartIsTruthful
PROPERTY
    PlanIsCompleted
