SPECIFICATION Spec
CONSTANTS
    Packets <- LongPackets
    Questions <- MCQuestions
    MaxSteps = 20
INVARIANT LoopMeansLoop
CHECK_DEADLOCK FALSE
