SPECIFICATION FairSpec
CONSTANTS
    N = 3
    Threshold = 0
    HasRTS = FALSE
    Slack = 0
    LineErrors = FALSE
    MaxTx = 4
    MaxRx = 1
    MaxBegins = 2
INVARIANTS TypeOK TxInv
PROPERTIES StrandedOnlyByBegin FlushLeavesOne RoomNotOverstated TxDelivered FlushReturns QueueSpec
CHECK_DEADLOCK FALSE
