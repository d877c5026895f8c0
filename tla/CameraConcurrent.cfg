\* Both cameras may be open at once.
CONSTANTS
    NumCameras = 2
    MaxOpens = 2
    Concurrent = TRUE
SPECIFICATION Spec
PROPERTY TorchOffLeavesZsl
