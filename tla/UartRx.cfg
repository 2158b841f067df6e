SPECIFICATION FairSpec
CONSTANTS
    N = 7
    Threshold = 5
    HasRTS = TRUE
    Slack = 0
    LineErrors = FALSE
    MaxTx = 0
    MaxRx = 9
    MaxBegins = 1
INVARIANTS ReadsInOrder RxNeverDropped
PROPERTIES RtsReleased
