SPECIFICATION Spec
CONSTANTS
    Missing = 0
    NodeLists <- SmallNodeLists
    Ends <- SmallEnds
    MaxEdges <- SmallMaxEdges
INVARIANTS
    ValidationAnswers
CHECK_DEADLOCK FALSE
