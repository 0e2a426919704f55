------------------------------ MODULE EthTxqLso ------------------------------
(***************************************************************************)
(* The ETH TXQ LSO send sample                                             *)
(* (src/samples/doca_eth/eth_txq_lso_send_ethernet_frames/                 *)
(*  eth_txq_lso_send_ethernet_frames_sample.c).                            *)
(*                                                                         *)
(* One host thread runs eth_txq_lso_send_ethernet_frames: it creates the   *)
(* core objects, the TXQ context, the header buffers, the payload buffer   *)
(* and one LSO send task, submits the task, polls the progress engine      *)
(* until the completion callback has decremented inflight_tasks, and       *)
(* cleans up.  The NIC completes a posted task at a time of its own (with  *)
(* an error when the context is stopping); the callback runs only inside   *)
(* doca_pe_progress, on the host thread.  Each host action is one function *)
(* of the sample, or one iteration of a polling loop.                      *)
(***************************************************************************)
EXTENDS Naturals, FiniteSets

CONSTANTS
    Fallible,   \* the calls that may fail in this model
    MaxFaults   \* at most this many of them fail in one execution

VARIABLES
    pc,         \* where eth_txq_lso_send_ethernet_frames is
    alive,      \* objects allocated and not yet released
    undestroyed,\* objects whose release call failed (left allocated)
    txqSet,     \* state.eth_txq is non-NULL
    ctx,        \* DOCA context state of the TXQ
    hw,         \* the LSO send task as the NIC sees it
    inflight,   \* state.inflight_tasks (uint32_t)
    status,     \* the status the sample will return
    failing     \* the calls that fail in this execution

vars == <<pc, alive, undestroyed, txqSet, ctx, hw, inflight, status, failing>>

Objects == {"core", "txq", "hdrbuf", "hdrs", "payload", "task"}
Sites == {"core", "mac", "txq_create", "txq_setup", "hdrbuf", "hdrs", "pktbuf",
          "task_alloc", "submit", "send", "get_payload", "stop", "txq_destroy",
          "buf_release", "core_destroy"}
Labels == {"core", "mac", "ctx", "hdrbuf", "hdrs", "pktbuf", "tasks",
           "submit", "retrieve", "destroy_tasks", "destroy_bufs", "cleanup",
           "stop_wait", "done"}

\* inflight_tasks is a uint32_t, decremented with wrap-around; the code only
\* compares it with 0, so TLC's largest integer stands for UINT32_MAX
UINT32_MAX == 2147483647
Dec32(x) == IF x = 0 THEN UINT32_MAX ELSE x - 1

\* the call at site s fails in this execution
Fails(s) == s \in failing

-----------------------------------------------------------------------------
(* The completion callback (task_lso_send_common_cb), registered for       *)
(* successful and failed tasks alike and run by doca_pe_progress once the *)
(* NIC has written the task's completion.  It decrements inflight_tasks   *)
(* first; if the payload cannot be read back it frees the task and       *)
(* returns, otherwise it drops the payload's refcount (a failure is only  *)
(* logged) and frees the task.                                             *)

\* mutant: the early return decrements inflight_tasks a second time
task_lso_send_common_cb_double_dec ==
    /\ hw \in {"cqe_ok", "cqe_err"}
    /\ hw' = "idle"
    /\ \/ /\ Fails("get_payload")
          /\ inflight' = Dec32(Dec32(inflight))
          /\ alive' = alive \ {"task"}
          /\ UNCHANGED undestroyed
       \/ /\ ~Fails("get_payload")
          /\ inflight' = Dec32(inflight)
          /\ alive' = alive \ {"payload", "task"}
          /\ UNCHANGED undestroyed

\* mutant: only a successful completion decrements inflight_tasks
task_lso_send_success_only_cb ==
    /\ hw \in {"cqe_ok", "cqe_err"}
    /\ inflight' = IF hw = "cqe_ok" THEN Dec32(inflight) ELSE inflight
    /\ hw' = "idle"
    /\ alive' = alive \ {"payload", "task"}
    /\ UNCHANGED undestroyed

task_lso_send_common_cb ==
    /\ hw \in {"cqe_ok", "cqe_err"}
    /\ inflight' = Dec32(inflight)
    /\ hw' = "idle"
    /\ \/ /\ Fails("get_payload")
          /\ alive' = alive \ {"task"}
          /\ UNCHANGED undestroyed
       \/ /\ ~Fails("get_payload")
          /\ \/ /\ ~Fails("buf_release")
                /\ alive' = alive \ {"payload", "task"}
                /\ UNCHANGED undestroyed
             \/ /\ Fails("buf_release")
                /\ alive' = alive \ {"task"}
                /\ undestroyed' = undestroyed \cup {"payload"}

\* one call of doca_pe_progress: runs the callback if a completion is there
Progress ==
    \/ task_lso_send_common_cb
    \/ /\ hw \notin {"cqe_ok", "cqe_err"}
       /\ UNCHANGED <<alive, undestroyed, hw, inflight>>

Goto(l) == pc' = l
Fail(l) == /\ pc' = l
           /\ status' = "err"

\* a call at site s: on success go to next, on failure to the error label
Step(s, next, onError) ==
    \/ /\ ~Fails(s)
       /\ Goto(next)
       /\ UNCHANGED status
    \/ /\ Fails(s)
       /\ Fail(onError)

-----------------------------------------------------------------------------
(* eth_txq_lso_send_ethernet_frames, step by step.                         *)

\* the capabilities check_device reads from a device's devinfo
MAX_BURST_SIZE == 256
MAX_LSO_HEADER_SIZE == 64
Devices == [maxBurst : {128, 256}, maxLsoHeader : {32, 64}, regular : BOOLEAN]

\* check_device: the device supports the burst size, the LSO header size
\* and the regular CPU data-path TXQ type (a failed query is a "core" fault)
check_device(d) ==
    /\ d.maxBurst >= MAX_BURST_SIZE
    /\ d.maxLsoHeader >= MAX_LSO_HEADER_SIZE
    /\ d.regular

\* allocate_eth_core_resources with check_device as its device filter; on
\* failure the sample returns before any cleanup
AllocateCoreResources ==
    /\ pc = "core"
    /\ \E d \in Devices :
          \/ /\ ~Fails("core") /\ check_device(d)
             /\ Goto("mac")
             /\ alive' = alive \cup {"core"}
             /\ UNCHANGED status
          \/ /\ Fails("core") \/ ~check_device(d)
             /\ Fail("done")
             /\ UNCHANGED alive
    /\ UNCHANGED <<undestroyed, txqSet, ctx, hw, inflight, failing>>

GetMacAddr ==
    /\ pc = "mac"
    /\ Step("mac", "ctx", "cleanup")
    /\ UNCHANGED <<alive, undestroyed, txqSet, ctx, hw, inflight, failing>>

\* create_eth_txq_ctx: the set_type, LSO task configuration, PE connection,
\* user data and start calls ("txq_setup") share one error path that
\* destroys the TXQ and NULLs the field even when that destroy fails
create_eth_txq_ctx ==
    /\ pc = "ctx"
    /\ \/ /\ ~Fails("txq_create") /\ ~Fails("txq_setup")
          /\ Goto("hdrbuf")
          /\ alive' = alive \cup {"txq"}
          /\ txqSet' = TRUE
          /\ ctx' = "running"
          /\ UNCHANGED <<undestroyed, status>>
       \/ /\ Fails("txq_create")
          /\ Fail("cleanup")
          /\ UNCHANGED <<alive, undestroyed, txqSet, ctx>>
       \/ /\ ~Fails("txq_create") /\ Fails("txq_setup")
          /\ Fail("cleanup")
          /\ UNCHANGED <<txqSet, ctx>>
          /\ \/ /\ ~Fails("txq_destroy")
                /\ UNCHANGED <<alive, undestroyed>>
             \/ /\ Fails("txq_destroy")
                /\ alive' = alive \cup {"txq"}
                /\ undestroyed' = undestroyed \cup {"txq"}
    /\ UNCHANGED <<hw, inflight, failing>>

\* a malloc or buffer creation whose failure jumps to txq_lso_cleanup
Allocate(l, obj, next) ==
    /\ pc = l
    /\ Step(l, next, "cleanup")
    /\ alive' = IF Fails(l) THEN alive ELSE alive \cup {obj}
    /\ UNCHANGED <<undestroyed, txqSet, ctx, hw, inflight, failing>>

MallocHeadersBuf == Allocate("hdrbuf", "hdrbuf", "hdrs")
MallocHeaders == Allocate("hdrs", "hdrs", "pktbuf")
create_eth_txq_lso_packet_buffers == Allocate("pktbuf", "payload", "tasks")

\* a failed task allocation jumps to destroy_packet_buffers
create_eth_txq_tasks ==
    /\ pc = "tasks"
    /\ Step("task_alloc", "submit", "destroy_bufs")
    /\ alive' = IF Fails("task_alloc") THEN alive ELSE alive \cup {"task"}
    /\ UNCHANGED <<undestroyed, txqSet, ctx, hw, inflight, failing>>

\* mutant: a refused task jumps past destroy_txq_tasks
submit_eth_txq_tasks_skips_task_free ==
    /\ pc = "submit"
    /\ Step("submit", "retrieve", "destroy_bufs")
    /\ hw' = IF Fails("submit") THEN hw ELSE "posted"
    /\ inflight' = IF Fails("submit") THEN inflight ELSE inflight + 1
    /\ UNCHANGED <<alive, undestroyed, txqSet, ctx, failing>>

\* mutant: the sample goes to cleanup right after submitting
submit_eth_txq_tasks_no_retrieve ==
    /\ pc = "submit"
    /\ Step("submit", "cleanup", "destroy_tasks")
    /\ hw' = IF Fails("submit") THEN hw ELSE "posted"
    /\ inflight' = IF Fails("submit") THEN inflight ELSE inflight + 1
    /\ UNCHANGED <<alive, undestroyed, txqSet, ctx, failing>>

\* submit_eth_txq_tasks: the counter is raised only once doca_task_submit
\* has accepted the task; a refused task jumps to destroy_txq_tasks
submit_eth_txq_tasks ==
    /\ pc = "submit"
    /\ Step("submit", "retrieve", "destroy_tasks")
    /\ hw' = IF Fails("submit") THEN hw ELSE "posted"
    /\ inflight' = IF Fails("submit") THEN inflight ELSE inflight + 1
    /\ UNCHANGED <<alive, undestroyed, txqSet, ctx, failing>>

\* one iteration of the polling loop of retrieve_eth_txq_tasks; the main
\* function then jumps to txq_lso_cleanup with status still DOCA_SUCCESS
retrieve_eth_txq_tasks ==
    /\ pc = "retrieve"
    /\ \/ /\ inflight = 0
          /\ Goto("cleanup")
          /\ UNCHANGED <<alive, undestroyed, hw, inflight>>
       \/ /\ inflight # 0
          /\ Progress
          /\ UNCHANGED pc
    /\ UNCHANGED <<txqSet, ctx, status, failing>>

destroy_eth_txq_tasks ==
    /\ pc = "destroy_tasks"
    /\ Goto("destroy_bufs")
    /\ alive' = alive \ {"task"}
    /\ UNCHANGED <<undestroyed, txqSet, ctx, hw, inflight, status, failing>>

\* destroy_eth_txq_packet_buffers; on its failure the main function
\* returns clean_status at once, without eth_txq_lso_cleanup
destroy_eth_txq_packet_buffers ==
    /\ pc = "destroy_bufs"
    /\ Step("buf_release", "cleanup", "done")
    /\ alive' = IF Fails("buf_release") THEN alive ELSE alive \ {"payload"}
    /\ undestroyed' = IF Fails("buf_release") THEN undestroyed \cup {"payload"}
                                              ELSE undestroyed
    /\ UNCHANGED <<txqSet, ctx, hw, inflight, failing>>

-----------------------------------------------------------------------------
(* eth_txq_lso_cleanup and destroy_eth_txq_ctx.                            *)

\* destroy_eth_core_resources, the last step of eth_txq_lso_cleanup
DestroyCore(a) ==
    /\ alive' = IF "core" \in a /\ ~Fails("core_destroy") THEN a \ {"core"}
                                                          ELSE a
    /\ undestroyed' = IF "core" \in a /\ Fails("core_destroy")
                      THEN undestroyed \cup {"core"} ELSE undestroyed

\* the headers are freed first; then doca_ctx_stop, which answers
\* IN_PROGRESS while a task is in flight; any other failure of the stop
\* makes the cleanup return with the core objects left allocated
eth_txq_lso_cleanup ==
    /\ pc = "cleanup"
    /\ LET a == alive \ {"hdrs", "hdrbuf"}
       IN  \/ /\ ~txqSet
              /\ DestroyCore(a)
              /\ Goto("done")
              /\ UNCHANGED ctx
           \/ /\ txqSet
              /\ alive' = a
              /\ \/ /\ ~Fails("stop")
                    /\ Goto("stop_wait")
                    /\ ctx' = IF inflight # 0 THEN "stopping" ELSE "idle"
                    /\ UNCHANGED undestroyed
                 \/ /\ Fails("stop")
                    /\ Goto("done")
                    /\ undestroyed' = undestroyed \cup {"txq"}
                    /\ UNCHANGED ctx
    /\ UNCHANGED <<txqSet, hw, inflight, status, failing>>

\* one iteration of destroy_eth_txq_ctx's drain loop, entered when the stop
\* answered IN_PROGRESS, or, once no task is in flight, the TXQ destroy and
\* the rest of eth_txq_lso_cleanup
destroy_eth_txq_ctx ==
    /\ pc = "stop_wait"
    /\ IF inflight # 0
       THEN Progress /\ UNCHANGED <<pc, ctx>>
       ELSE /\ ctx' = "idle"
            /\ Goto("done")
            /\ UNCHANGED <<hw, inflight>>
            /\ IF Fails("txq_destroy")
               THEN /\ undestroyed' = undestroyed \cup {"txq"}
                    /\ UNCHANGED alive
               ELSE DestroyCore(alive \ {"txq"})
    /\ UNCHANGED <<txqSet, status, failing>>

\* the NIC writes the completion of the posted task: with an error if the
\* send fails or the context is stopping and flushes it
HwComplete ==
    /\ hw = "posted"
    /\ hw' = IF Fails("send") \/ ctx = "stopping" THEN "cqe_err" ELSE "cqe_ok"
    /\ UNCHANGED <<pc, alive, undestroyed, txqSet, ctx, inflight, status,
                   failing>>

Init ==
    /\ pc = "core"
    /\ alive = {}
    /\ undestroyed = {}
    /\ txqSet = FALSE
    /\ ctx = "none"
    /\ hw = "idle"
    /\ inflight = 0
    /\ status = "ok"
    /\ failing \in {F \in SUBSET Fallible : Cardinality(F) <= MaxFaults}

Host ==
    \/ AllocateCoreResources
    \/ GetMacAddr
    \/ create_eth_txq_ctx
    \/ MallocHeadersBuf
    \/ MallocHeaders
    \/ create_eth_txq_lso_packet_buffers
    \/ create_eth_txq_tasks
    \/ submit_eth_txq_tasks
    \/ retrieve_eth_txq_tasks
    \/ destroy_eth_txq_tasks
    \/ destroy_eth_txq_packet_buffers
    \/ eth_txq_lso_cleanup
    \/ destroy_eth_txq_ctx

Next == Host \/ HwComplete

\* The host thread busy-polls and never blocks; the NIC completes every
\* task posted to a started queue.
Spec == Init /\ [][Next]_vars /\ WF_vars(Host) /\ WF_vars(HwComplete)

-----------------------------------------------------------------------------
(* Properties.                                                             *)

TypeOK ==
    /\ pc \in Labels
    /\ alive \subseteq Objects
    /\ undestroyed \subseteq Objects
    /\ txqSet \in BOOLEAN
    /\ ctx \in {"none", "running", "stopping", "idle"}
    /\ hw \in {"idle", "posted", "cqe_ok", "cqe_err"}
    /\ inflight \in 0..1
    /\ status \in {"ok", "err"}
    /\ failing \subseteq Fallible

(* While the NIC may still read the task's headers and payload, none of   *)
(* them, nor the task, has been freed: eth_txq_lso_cleanup frees the      *)
(* header buffers before it stops the context, so this holds only because *)
(* the sample drains every task before it reaches the cleanup.            *)
NoFreeWhileInflight ==
    hw = "posted" => {"hdrbuf", "hdrs", "payload", "task"} \subseteq alive

(* When the sample returns, everything it allocated has been released,    *)
(* except objects whose own release call failed.                          *)
ReleasedAtExit ==
    pc = "done" => alive \subseteq undestroyed

\* the calls after whose failure the sample is known to leak: the payload
\* read in the callback and the payload release (eth_leaks), and the stop
\* and TXQ destroy, after which eth_txq_lso_cleanup returns at once
LeakingSites == {"get_payload", "buf_release", "stop", "txq_destroy"}

(* When the sample returns after any other failures, of a create, a       *)
(* submit, a send or a core destroy, everything it allocated has          *)
(* been released, except objects whose own release call failed: every     *)
(* error label of eth_txq_lso_send_ethernet_frames and of                  *)
(* create_eth_txq_ctx reaches the cleanup that frees what was made.        *)
ReleasedUnlessLeakingCall ==
    (pc = "done" /\ failing \cap LeakingSites = {}) => alive \subseteq undestroyed

(* The sample always returns: the retrieve loop and the drain loop of     *)
(* destroy_eth_txq_ctx end, because both the completion and the error     *)
(* callback decrement inflight_tasks.                                      *)
Termination == <>(pc = "done")

=============================================================================
