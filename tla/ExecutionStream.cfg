SPECIFICATION FairSpec
CONSTANTS
    Executions <- MCExecutions
    Workloads <- MCWorkloads
    Awaited <- MCAwaited
    NodesOf <- MCNodesOf
    Connectors <- MCConnectors
    Attempts <- MCAttempts
    PoolSize = 3
    MaxConcurrency = 1
    Clients <- MCClients
    MaxAsking = 1
    Watched <- MCWatched
INVARIANTS
    TypeOK
    FanOutLeavesRoom
    AwaitedAnswerIsFinal
PROPERTIES
    EveryRequestEnds
    StreamEnds
    PollsCatchUp
CHECK_DEADLOCK FALSE
