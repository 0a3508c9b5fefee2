SPECIFICATION FairSpec
CONSTANTS
    app = app
    Callers <- OneCaller
    Threads = 2
    MaxPackets = 3
    MaxChunks = 2
INVARIANTS TypeOK PacketsInOrder
PROPERTIES ContractSpec StopEndsReader PeerLossNoticed SendFreesStoppedWriter
CHECK_DEADLOCK FALSE
