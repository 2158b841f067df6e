SPECIFICATION Spec
CONSTANTS
    Period = 6
    Word = 20
    MaxDelay = 2
    MaxAge = 13
INVARIANT MicrosExact
CHECK_DEADLOCK FALSE
