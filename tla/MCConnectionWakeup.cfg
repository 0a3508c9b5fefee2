SPECIFICATION FairSpec
CONSTANTS
    app = app
    Callers <- OneCaller
    Threads = 1
    MaxPackets = 3
    MaxChunks = 2
PROPERTIES EveryPacketSent
CHECK_DEADLOCK FALSE
