SPECIFICATION FairSpec
CONSTANTS
    ThreadCount = 1
    MaxStarts = 3
    MaxLinks = 2
INVARIANTS TypeOK WorkHasThread ServerListens
PROPERTIES StartTakesEffect DestructorEnds
CHECK_DEADLOCK FALSE
