SPECIFICATION FairSpec
CONSTANTS
    Missing = 0
    Workflows <- AllWorkflows
    MaxConcurrency = 2
    MayRaise = TRUE
INVARIANTS
    TypeOK
    DependenciesFirst
    RunsWhatIsWanted
    FailureIsHandled
    NoRowLeftRunning
    AttemptsAreOrdered
    FailureStopsTheRun
PROPERTIES
    Terminates
CHECK_DEADLOCK FALSE
