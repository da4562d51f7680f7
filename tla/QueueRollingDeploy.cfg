SPECIFICATION Spec
CONSTANTS
    None = None
    Executions = {e1}
    Processes = {p1, p2}
    MaxQueueAttempts = 1
    WorkerEnabled = TRUE
    Faults <- OutageOnly
    MaxFaults = 1
PROPERTIES
    RecoverySparesTheLiving
CHECK_DEADLOCK FALSE
