CONSTANTS
    Vcpus <- MCVcpus1
    NumQueues = 1
    QueueMaxSize = 4
    GuestWrites <- MCRoundTripWrites
    ResetSupported = TRUE
    ActivateMayFail = FALSE
    MaxActivations = 2
    ShmRegions <- MCNoShm
    MaxRestores = 1
    MaxRequests = 2

SPECIFICATION SSpec

INVARIANT InterruptAdapterConserved
INVARIANT ActivatedAgreesWithDevice
PROPERTY SnapshotRoundTrip
INVARIANT UsedRingExact
