CONSTANTS
    Vcpus <- MCVcpus1
    NumQueues = 2
    QueueMaxSize = 4
    GuestWrites <- MCGuestWrites
    ResetSupported = TRUE
    ActivateMayFail = FALSE
    MaxActivations = 3
    ShmRegions <- MCNoShm

SPECIFICATION Spec

INVARIANT InterruptAdapterConserved
INVARIANT ActivatedAgreesWithDevice
PROPERTY BlockedVcpuReleased
PROPERTY ImplementsActivation
