SPECIFICATION Spec
CONSTANTS
    Transports = {"tcp", "dot"}
    Query <- MCQuery
    Streams <- MCStreams
    Nothing = Nothing
INVARIANT SurvivesReset
CHECK_DEADLOCK FALSE
