\* Four properties that do not hold, each checked by itself: TLC stops at the
\* first one violated, so leave the one asked for and comment out the others.
SPECIFICATION Spec
CONSTANTS
    CommandLines <- FewWords
    Number <- MCNumber
    Pieces <- MCPieces
    Unknown <- MCUnknown
    IntMax = 50
    SizeModulus = 64
    Garbage = Garbage
INVARIANT InactiveIsTold
\* INVARIANT InvalidArgumentStops
\* INVARIANT NameIsRequired
\* INVARIANT SizeIsItsOwn
CHECK_DEADLOCK FALSE
