SPECIFICATION FairSpec
CONSTANTS
    N = 3
    Threshold = 0
    HasRTS = FALSE
    Slack = 0
    LineErrors = FALSE
    MaxTx = 4
    MaxRx = 0
    MaxBegins = 1
PROPERTY FlushSendsLastBit
