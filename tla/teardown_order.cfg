SPECIFICATION Spec
CONSTANTS
    Fallible <- MC_NoFailure
    MaxRuns = 1
    NameSize <- MC_NameSize
    DeviceNames <- MC_DeviceNames
    Args <- MC_OneArg
PROPERTIES
    DestroyAfterDependents
\* the program exits after a failed start or after its teardown
CHECK_DEADLOCK FALSE
