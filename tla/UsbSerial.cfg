SPECIFICATION FairSpec
CONSTANTS
    Size = 2
    MaxBytes = 5
    SizeT = 16
    MaxRequest = 2
    MaxConfigs = 2
    BusyConfigure = FALSE
INVARIANTS TypeOK NoneLost NextInOrder BankStable NotForgotten
PROPERTIES Received
