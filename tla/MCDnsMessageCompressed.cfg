\* The names in rdata, where the rdata has pointers into the packet.
SPECIFICATION Spec
CONSTANTS
    Packets <- MCPackets
    Questions <- MCQuestions
    MaxSteps = 20
INVARIANT RdataNamesAreRight
CHECK_DEADLOCK FALSE
