SPECIFICATION Spec
CONSTANTS
    None = None
    Executions = {e1}
    Processes = {p1}
    MaxQueueAttempts = 1
    WorkerEnabled = TRUE
    Faults <- AnyFault
    MaxFaults = 1
INVARIANTS
    ExecutorSetTerminal
CHECK_DEADLOCK FALSE
