\* Both transports against servers that cut, close, reset, refuse and stay silent.
SPECIFICATION Spec
CONSTANTS
    Transports = {"tcp", "dot"}
    Query <- MCQuery
    Streams <- MCStreams
    Nothing = Nothing
INVARIANTS TypeOK ResultIsFramed RequestIsFramed
PROPERTY OnlySilenceBlocks
CHECK_DEADLOCK FALSE
