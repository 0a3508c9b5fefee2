SPECIFICATION FairSpec
CONSTANTS
    app = app
    Callers <- NoCaller
    Threads = 1
    MaxPackets = 3
    MaxChunks = 2
INVARIANTS DownReported
CHECK_DEADLOCK FALSE
