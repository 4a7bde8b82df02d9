CONSTANTS
    Vcpus <- MCVcpus1
    NumQueues = 2
    QueueMaxSize = 4
    GuestWrites <- MCFailWrites
    ResetSupported = TRUE
    ActivateMayFail = FALSE
    MaxActivations = 2
    ShmRegions <- MCNoShm
    MaxRestores = 1
    MaxRequests = 2

SPECIFICATION SSpec

INVARIANT ActivatedAgreesWithDevice
