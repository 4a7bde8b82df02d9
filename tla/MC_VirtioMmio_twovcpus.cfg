CONSTANTS
    Vcpus <- MCVcpus2
    NumQueues = 2
    QueueMaxSize = 4
    GuestWrites <- MCRaceWrites
    ResetSupported = TRUE
    ActivateMayFail = FALSE
    MaxActivations = 3
    ShmRegions <- MCNoShm

SPECIFICATION Spec

INVARIANT ActivatorsCarryInterrupt
