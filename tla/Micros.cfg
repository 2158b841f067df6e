SPECIFICATION Spec
CONSTANTS
    Period = 6
    Word = 20
    MaxDelay = 2
    MaxAge = 13
INVARIANTS MicrosInCall DelayLongEnough
CHECK_DEADLOCK FALSE
