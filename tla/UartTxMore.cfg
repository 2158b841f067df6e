SPECIFICATION Spec
CONSTANTS
    N = 3
    Threshold = 0
    HasRTS = FALSE
    Slack = 0
    LineErrors = FALSE
    MaxTx = 4
    MaxRx = 1
    MaxBegins = 2
INVARIANTS TxInOrder
CHECK_DEADLOCK FALSE
