\* One camera open at a time, several opens.
CONSTANTS
    NumCameras = 2
    MaxOpens = 3
    Concurrent = FALSE
SPECIFICATION Spec
INVARIANTS
    TypeOK
    NoDanglingEntry
    VenusOnlyForUhd
    EventsReachClient
PROPERTY TorchOffLeavesZsl
