\* A task allocation, a payload release or the callback's payload read may
\* fail, two of them in one execution.  The program ends.
CONSTANT Fallible <- MC_ReleaseSites
CONSTANT MaxFaults = 2
SPECIFICATION Spec
CHECK_DEADLOCK FALSE
INVARIANTS ReleasedAtExit
