SPECIFICATION Spec
CONSTANTS
    Fallible <- MC_RqData
    MaxRuns = 2
    NameSize <- MC_NameSize
    DeviceNames <- MC_DeviceNames
    Args <- MC_OneArg
PROPERTIES
    UsesOnlyLiveHandles
\* the program exits after a failed start or after its teardown
CHECK_DEADLOCK FALSE
