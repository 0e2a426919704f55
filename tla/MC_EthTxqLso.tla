---------------------------- MODULE MC_EthTxqLso ----------------------------
(* The call sites that may fail, per run of EthTxqLso.                     *)
EXTENDS EthTxqLso

\* every call of the sample may fail
MC_AllSites == Sites
\* the releases of the payload can fail, on the error path of a failed task
\* allocation or in the completion callback
MC_ReleaseSites == {"task_alloc", "buf_release", "get_payload"}
=============================================================================
