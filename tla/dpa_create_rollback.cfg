\* The export of the second event fails.
CONSTANTS
    NumKernels = 3
    NumThreads = 2
    Fallible <- MC_SecondExport
    MaxFaults = 1
SPECIFICATION Spec
\* kernel_launch returns; the system then stops.
CHECK_DEADLOCK FALSE
INVARIANTS EventsReleased
