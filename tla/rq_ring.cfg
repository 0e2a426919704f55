\* Builds whose CQ and RQ depth constants agree.  The NIC stops after one
\* pass over the posted descriptors.
CONSTANTS
    Configs <- MC_EqualDepths
    DataAddr = 4096
    MkeyId = 7
SPECIFICATION Spec
CHECK_DEADLOCK FALSE
INVARIANTS TypeOK ReceiveInBounds RingMatchesReference
