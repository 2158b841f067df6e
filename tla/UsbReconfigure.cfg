SPECIFICATION Spec
CONSTANTS
    Size = 2
    MaxBytes = 5
    SizeT = 16
    MaxRequest = 2
    MaxConfigs = 2
    BusyConfigure = TRUE
INVARIANT BankStable
