\* Hot-plug and resize with every call fallible, under either memory hot-plug method.
SPECIFICATION Spec
CONSTANTS
    Kinds <- MCKindsNoFs
    Ids = {d1, d2}
    Fallible <- MCAllSteps
    NoValue = NoValue
    BootVcpus = 1
    BootMemory = 2
    Zones = {z0}
    ZoneSize = 2
    VcpuCounts = {1, 2}
    MemSizes = {2, 3}
    BalloonSizes = {0, 1}
INVARIANT RebootRecreatesLiveDevices
\* The VMM may stop calling at any time.
CHECK_DEADLOCK FALSE
