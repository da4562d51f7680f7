SPECIFICATION FairSpec
CONSTANTS
    None = None
    Executions = {e1, e2}
    Processes = {p1}
    MaxQueueAttempts = 1
    WorkerEnabled = TRUE
    Faults <- OutageOnly
    MaxFaults = 2
INVARIANTS
    ExecutorSetTerminal
    RunningIsRun
    CompletedIsClean
PROPERTIES
    RecoverySparesTheLiving
    OutcomeIsFinal
    KeepsPromise
    PendingIsServed
    EventuallyFinished
CHECK_DEADLOCK FALSE
