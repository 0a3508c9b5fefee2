SPECIFICATION Spec
CONSTANTS
    MaxItems = 2
    IdSpace = 4
    Posting = {}
    Threads = 1
INVARIANTS CancelHolds
CHECK_DEADLOCK FALSE
