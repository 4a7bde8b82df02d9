CONSTANTS
    Fallible <- MCNoFailures
    MaxHandlers = 2
    Vcpus <- MCVcpus1
    NumQueues = 1
    QueueMaxSize = 4
    GuestWrites <- MCShutdownWrites
    ResetSupported = TRUE
    ActivateMayFail = TRUE
    MaxActivations = 2
    ShmRegions <- MCNoShm

SPECIFICATION Spec

PROPERTY ShutdownReturns

\* A shut-down Vm is dropped by the VMM.
CHECK_DEADLOCK FALSE
