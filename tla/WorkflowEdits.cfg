SPECIFICATION Spec
CONSTANTS
    Missing = 0
    NodeLists <- SmallNodeLists
    Ends <- SmallEnds
    MaxEdges <- SmallMaxEdges
INVARIANTS
    LevelsAreRanks
    SortAgreesWithLevels
    ValidIsRunnable
    UnreachableIsExact
    ClientMirrorsServer
CHECK_DEADLOCK FALSE
