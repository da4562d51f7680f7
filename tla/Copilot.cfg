SPECIFICATION Spec
CONSTANTS
    Missing = Missing
    MaxNodes = 3
    Answers <- SomeAnswers
    Kinds <- AllKinds
INVARIANTS
    TypeOK
    AnswerIsUsable
    KeepsGoodAnswer
    AsksInOrder
CHECK_DEADLOCK FALSE
