SPECIFICATION Spec
CONSTANTS
    Capacity = 2
    TxCapacity = 3
    MaxQuantity = 3
    MaxReply = 3
    MaxTransfers = 4
INVARIANT Whole
CHECK_DEADLOCK FALSE
