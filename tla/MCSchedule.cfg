SPECIFICATION FairSpec
CONSTANTS
    MaxItems = 3
    IdSpace = 4
    Posting = {2}
    Threads = 2
INVARIANTS TypeOK NotBeforeDue EarlyCancelHolds NoLeakedEntry
PROPERTIES EventuallyCalled DestructorReturns
CHECK_DEADLOCK FALSE
