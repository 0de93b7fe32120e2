CONSTANTS
    t1 = t1
    t2 = t2
    s1 = s1
    Tasks = {t1, t2}
    Stages = {s1}
    StageOf <- OneStage
    Checkpoints = {t2}
    DepGraphs <- AllGraphs
    NoTask = NoTask
    MaxInterrupts = 2
    MaxWorkers = 3
SPECIFICATION Spec
INVARIANTS
    ReceiptsAreReal
    DepsAreMirrored
    SyncedIsMirrored
    WorkersWaitForDeps
PROPERTIES
    CommandsEnd
CHECK_DEADLOCK FALSE
