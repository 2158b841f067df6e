SPECIFICATION IsrSpec
CONSTANTS
    N = 3
    Threshold = 0
    HasRTS = FALSE
    Slack = 0
    LineErrors = FALSE
    MaxTx = 5
    MaxRx = 0
    MaxBegins = 1
INVARIANT SentOnce
