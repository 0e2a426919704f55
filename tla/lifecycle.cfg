\* Every call site whose status the code checks may fail, over two
\* provision/teardown cycles, for every device name up to one too long.
SPECIFICATION Spec
CONSTANTS
    Fallible <- MC_CheckedSites
    MaxRuns = 2
    NameSize <- MC_NameSize
    DeviceNames <- MC_DeviceNames
    Args <- MC_Args
INVARIANTS
    TypeOK
    SteeringBarrier
    DeviceNameAsGiven
    UnwindLeavesOnlyContextAndProcess
PROPERTIES
    UsesOnlyLiveHandles
    ImplementsResourceGraph
CHECK_DEADLOCK FALSE
