SPECIFICATION Spec
CONSTANTS
    Delay = 3
    Bauds = {1200, 9600}
    MaxRequests = 4
INVARIANTS TypeOK CountsDown
CHECK_DEADLOCK FALSE
