SPECIFICATION Spec
CONSTANTS
    Size = 2
    MaxWrite = 3
    MaxBytes = 5
    MaxConfigs = 2
    MaxFaults = 2
INVARIANTS NothingSkipped
CHECK_DEADLOCK FALSE
