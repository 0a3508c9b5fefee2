SPECIFICATION FairSpec
CONSTANTS
    Types = {auth}
    MaxConnections = 2
    MaxRequests = 1
    MaxUpdates = 0
    AnswersUpdates = FALSE
PROPERTY SentOnceLocated
CHECK_DEADLOCK FALSE
