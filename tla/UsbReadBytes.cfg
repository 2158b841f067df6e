SPECIFICATION Spec
CONSTANTS
    Size = 2
    MaxBytes = 5
    SizeT = 16
    MaxRequest = 2
    MaxConfigs = 1
    BusyConfigure = FALSE
PROPERTY CountInRange
