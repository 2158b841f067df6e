SPECIFICATION FairSpec
CONSTANTS
    Capacity = 2
    TxCapacity = 3
    MaxQuantity = 3
    MaxReply = 3
    MaxTransfers = 4
INVARIANTS OneTransfer OwnReply
PROPERTIES Returns
CHECK_DEADLOCK FALSE
