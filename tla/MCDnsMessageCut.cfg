SPECIFICATION Spec
CONSTANTS
    Packets <- MCPackets
    Questions <- MCQuestions
    MaxSteps = 20
INVARIANT CutNamesAreTold
CHECK_DEADLOCK FALSE
