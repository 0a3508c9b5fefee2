SPECIFICATION FairSpec
CONSTANTS
    Requests = {1, 2}
    Payload <- SmallPayloads
    ReadSize = 60
PROPERTY AnswerArrives
CHECK_DEADLOCK FALSE
