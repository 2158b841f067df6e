SPECIFICATION FairSpec
CONSTANTS
    Size = 2
    MaxWrite = 3
    MaxBytes = 5
    MaxConfigs = 2
    MaxFaults = 2
INVARIANTS PacketIntact InOrder OnlyGivenUpAreLost
PROPERTIES SendReturns Recovers
CHECK_DEADLOCK FALSE
