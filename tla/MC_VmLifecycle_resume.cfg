CONSTANTS
    Fallible <- MCResumeFailures
    MaxHandlers = 2

SPECIFICATION Spec

INVARIANT SnapshotOnlyQuiesced

CHECK_DEADLOCK FALSE
