SPECIFICATION FairLifeSpec
CONSTANTS
    Types = {auth}
    MaxConnections = 3
    MaxRequests = 2
    MaxUpdates = 1
    AnswersUpdates = FALSE
INVARIANTS TypeOK OneConnection RestartsFindServices
PROPERTIES CallsAsPromised LossIsRetried
CHECK_DEADLOCK FALSE
