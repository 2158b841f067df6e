SPECIFICATION Spec
CONSTANTS
    Size = 2
    MaxWrite = 3
    MaxBytes = 6
    MaxConfigs = 2
    MaxFaults = 2
INVARIANT FailedWroteNothing
CHECK_DEADLOCK FALSE
