SPECIFICATION Spec
CONSTANTS
    None = None
    Executions = {e1, e2}
    Processes = {p1, p2}
    MaxQueueAttempts = 1
    WorkerEnabled = TRUE
    Faults <- AnyFault
    MaxFaults = 1
SYMMETRY Symmetry
INVARIANTS
    TypeOK
    AtMostOnce
    ClaimInv
PROPERTIES
    CancelBeforeClaimHolds
CHECK_DEADLOCK FALSE
