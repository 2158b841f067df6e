SPECIFICATION Spec
CONSTANTS
    Delay = 3
    Bauds = {1200, 9600}
    MaxRequests = 4
INVARIANT ClosedAtReset
CHECK_DEADLOCK FALSE
