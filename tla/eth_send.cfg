\* Every call of the sample may fail.  The program ends, so deadlock at
\* its return is expected.
CONSTANT Fallible <- MC_AllSites
CONSTANT MaxFaults = 2
SPECIFICATION Spec
CHECK_DEADLOCK FALSE
INVARIANTS TypeOK NoFreeWhileInflight ReleasedUnlessLeakingCall
PROPERTIES Termination
