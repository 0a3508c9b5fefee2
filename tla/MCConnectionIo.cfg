SPECIFICATION FairSpec
CONSTANTS
    app = app
    Callers <- NoCaller
    Threads = 1
    MaxPackets = 3
    MaxChunks = 3
INVARIANTS NoStrandedPacket
PROPERTIES EveryPacketSent
CHECK_DEADLOCK FALSE
