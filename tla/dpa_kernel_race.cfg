\* Nothing fails; the DPA runs the kernels' threads in any order.
CONSTANTS
    NumKernels = 3
    NumThreads = 2
    Fallible <- MC_NoFailure
    MaxFaults = 1
SPECIFICATION Spec
\* kernel_launch returns; the system then stops.
CHECK_DEADLOCK FALSE
INVARIANTS NoUpdateAfterDestroy
