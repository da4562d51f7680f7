SPECIFICATION Spec
CONSTANTS
    Missing = 0
    Workflows <- AllWorkflows
    MaxConcurrency = 2
    MayRaise = TRUE
INVARIANTS
    NothingCouldCatch
CHECK_DEADLOCK FALSE
