SPECIFICATION FairSpec
CONSTANTS
    Size = 2
    MaxOut = 6
    MaxIn = 7
    MaxBegins = 2
    MaxErrors = 1
INVARIANTS TypeOK NotForgotten
PROPERTIES HandedOver
CHECK_DEADLOCK FALSE
