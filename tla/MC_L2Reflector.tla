--------------------------- MODULE MC_L2Reflector ---------------------------
(* Model-checking instances of L2Reflector.                                *)
EXTENDS L2Reflector

\* every call site may fail
MC_AllSites == Sites

\* every site except the two allocations whose status allocate_rq ignores,
\* and the argp calls of register_l2_reflector_params
MC_CheckedSites == (Sites \ {"rqd", "rq_ring"}) \cup ArgpSites

\* one failing site per question asked of a failure path
MC_SqCreate == {"sq"}
MC_RqData == {"rqd"}
MC_TxAction == {"tx_action"}
MC_NoFailure == {}

\* DOCA_DEVINFO_IBDEV_NAME_SIZE scaled down from 64: the same arithmetic at
\* the boundary, on strings short enough to enumerate
MC_NameSize == 3
\* two devices, one name a prefix of the other, the longer of the largest
\* length the buffer holds
MC_DeviceNames == {<<"m">>, <<"m", "m">>}
\* every name up to one character too long, and one unknown name
MC_Args == BoundedSeq({"m"}, MC_NameSize) \cup {<<"x">>}
\* one valid name, for the runs about provisioning alone
MC_OneArg == {<<"m", "m">>}
=============================================================================
