\* Any one of the failures whose error paths release everything.
CONSTANTS
    NumKernels = 3
    NumThreads = 2
    Fallible <- MC_PassSites
    MaxFaults = 1
SPECIFICATION Spec
\* kernel_launch returns; the system then stops.
CHECK_DEADLOCK FALSE
INVARIANTS TypeOK EventsReleased FailureReported
PROPERTIES Termination
