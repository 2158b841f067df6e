SPECIFICATION Spec
CONSTANTS
    Size = 2
    MaxWrite = 3
    MaxBytes = 6
    MaxConfigs = 2
    MaxFaults = 2
INVARIANTS TypeOK
CHECK_DEADLOCK FALSE
