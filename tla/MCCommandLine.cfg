\* Every line of up to four words, and the documented lines with something changed.
SPECIFICATION Spec
CONSTANTS
    CommandLines <- MCLines
    Number <- MCNumber
    Pieces <- MCPieces
    Unknown <- MCUnknown
    IntMax = 50
    SizeModulus = 64
    Garbage = Garbage
INVARIANTS TypeOK OptionsAreRead UsageIsDone AcceptedAsTyped
CHECK_DEADLOCK FALSE
