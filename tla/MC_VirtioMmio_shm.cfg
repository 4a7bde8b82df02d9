\* A device with one shared-memory region; the guest selects and reads it.
CONSTANTS
    Vcpus <- MCVcpus1
    NumQueues = 1
    QueueMaxSize = 4
    GuestWrites <- MCShmWrites
    ResetSupported = TRUE
    ActivateMayFail = FALSE
    MaxActivations = 1
    ShmRegions <- MCOneShm

SPECIFICATION Spec

INVARIANT ReadsNeverPanic
