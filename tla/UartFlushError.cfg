SPECIFICATION FairSpec
CONSTANTS
    N = 3
    Threshold = 0
    HasRTS = FALSE
    Slack = 0
    LineErrors = TRUE
    MaxTx = 4
    MaxRx = 1
    MaxBegins = 1
PROPERTY FlushReturns
CHECK_DEADLOCK FALSE
