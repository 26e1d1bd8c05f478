\* Every packet of the pieces, and every cut of it, parsed and built again.
SPECIFICATION Spec
CONSTANTS
    Packets <- MCPackets
    Questions <- MCQuestions
    MaxSteps = 20
INVARIANTS TypeOK RecordsInOrder DecodersStayInside NamesAreRight QuestionSurvives
PROPERTY EveryParseEnds
CHECK_DEADLOCK FALSE
