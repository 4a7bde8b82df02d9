\* Every lifecycle call fallible, two vCPUs racing guest writes to a device
\* whose activate() may fail and whose reset() is unsupported.
CONSTANTS
    Fallible <- MCAllSteps
    MaxHandlers = 2
    Vcpus <- MCVcpus2
    NumQueues = 2
    QueueMaxSize = 4
    GuestWrites <- MCRaceWrites
    ResetSupported = FALSE
    ActivateMayFail = TRUE
    MaxActivations = 3
    ShmRegions <- MCNoShm

SPECIFICATION Spec

INVARIANT ActivatedAgreesWithDevice

\* A shut-down Vm is dropped by the VMM, and a Vm::shutdown whose joins
\* wait on a vCPU blocked forever, or whose join of self.threads waits on
\* a signal handler whose handle was lost, stops the control thread.
CHECK_DEADLOCK FALSE
