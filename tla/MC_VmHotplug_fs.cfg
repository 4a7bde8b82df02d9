\* remove_device on a hot-plugged fs device; no call fails.
SPECIFICATION Spec
CONSTANTS
    Kinds <- MCKindsFs
    Ids = {d1, d2}
    Fallible = {}
    NoValue = NoValue
    BootVcpus = 1
    BootMemory = 2
    Zones = {}
    ZoneSize = 1
    VcpuCounts = {1}
    MemSizes = {2}
    BalloonSizes = {0}
INVARIANT RebootRecreatesLiveDevices
CHECK_DEADLOCK FALSE
