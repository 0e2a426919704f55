SPECIFICATION Spec
CONSTANTS
    Fallible <- MC_TxAction
    MaxRuns = 1
    NameSize <- MC_NameSize
    DeviceNames <- MC_DeviceNames
    Args <- MC_OneArg
PROPERTIES
    NoDoubleDestroy
\* the program exits after a failed start or after its teardown
CHECK_DEADLOCK FALSE
