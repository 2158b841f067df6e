SPECIFICATION FairSpec
CONSTANTS
    Delay = 3
    Bauds = {1200, 9600}
    MaxRequests = 4
INVARIANTS ErasedAsAsked
PROPERTIES TouchResets
CHECK_DEADLOCK FALSE
