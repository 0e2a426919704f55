--------------------------- MODULE DpaKernelLaunch ---------------------------
(***************************************************************************)
(* The DPA kernel launch sample (src/samples/doca_dpa/dpa_kernel_launch).  *)
(*                                                                         *)
(* kernel_launch, on the host, creates one completion sync event per       *)
(* kernel (create_dpa_events), launches the kernels one after another,     *)
(* each with num_threads DPA threads running hello_world on its event,     *)
(* waits until the LAST kernel's event exceeds num_threads - 1, and then   *)
(* destroys every event.  The DPA threads run concurrently with the host   *)
(* and with each other, in an order the hardware chooses; each adds 1 to   *)
(* its kernel's event.  The sample's 255 kernels of 64 threads are         *)
(* NumKernels kernels of NumThreads threads here.                          *)
(***************************************************************************)
EXTENDS Naturals, FiniteSets

CONSTANTS
    NumKernels, \* num_dpa_threads: kernels launched, one event each
    NumThreads, \* num_threads: DPA threads per kernel
    Fallible,   \* the calls that may fail in this model
    MaxFaults   \* at most this many of them fail in one execution

ASSUME NumKernels >= 1 /\ NumThreads >= 1

VARIABLES
    pc,         \* where kernel_launch is
    i,          \* the index of the host's current loop
    alive,      \* events created and not destroyed
    value,      \* value[k]: the counter of event k
    pending,    \* pending[k]: threads of kernel k launched and not yet run
    stray,      \* events a DPA thread updated after the host destroyed them
    invalid,    \* the host destroyed an event pointer it never set
    result,     \* result of kernel_launch
    tmp,        \* tmp_result: the status of the last event destroy
    failed,     \* the kinds of call that failed so far (history)
    failing     \* the calls that fail in this execution

vars == <<pc, i, alive, value, pending, stray, invalid, result, tmp, failed,
          failing>>

Kernels == 0..(NumKernels - 1)
Last == NumKernels - 1
Sites == ({"create", "export", "launch", "destroy"} \X Kernels)
            \cup {<<"wait", Last>>}

Fails(kind, k) == <<kind, k>> \in failing

\* DOCA_ERROR_PROPAGATE(r, t): keep the first error
DOCA_ERROR_PROPAGATE(r, t) == IF r = "ok" THEN t ELSE r

\* the step of a for loop over the events: the last iteration moves on
Advance(next) ==
    IF i + 1 = NumKernels THEN /\ i' = 0
                               /\ pc' = next
                          ELSE /\ i' = i + 1
                               /\ UNCHANGED pc

-----------------------------------------------------------------------------
(* create_dpa_events.                                                      *)

\* the destroy_node_d_event label: destroys *node_d_comp_event, the first
\* event only, which was never set when its own creation failed; then
\* kernel_launch returns the error
DestroyNodeEvent(a) ==
    /\ alive' = IF 0 \in a /\ ~Fails("destroy", 0) THEN a \ {0} ELSE a
    /\ invalid' = (0 \notin a)
    /\ result' = "err"
    /\ failed' = failed \cup {"create"}
    /\ pc' = "done"
    /\ UNCHANGED i

\* mutant: the loop runs while i <= num, one event past the array
create_dpa_events_overrun ==
    /\ pc = "create"
    /\ ~Fails("create", i) /\ ~Fails("export", i)
    /\ alive' = alive \cup {i}
    /\ value' = [k \in Kernels |-> IF k = i THEN 0 ELSE value[k]]
    /\ IF i = NumKernels THEN i' = 0 /\ pc' = "launch"
                         ELSE i' = i + 1 /\ UNCHANGED pc
    /\ UNCHANGED <<pending, stray, invalid, result, tmp, failed, failing>>

\* one iteration: create event i, set it to 0, export it to the DPA
create_dpa_events ==
    /\ pc = "create"
    /\ \/ /\ ~Fails("create", i) /\ ~Fails("export", i)
          /\ alive' = alive \cup {i}
          /\ value' = [value EXCEPT ![i] = 0]
          /\ Advance("launch")
          /\ UNCHANGED <<invalid, result, failed>>
       \/ /\ Fails("create", i)
          /\ DestroyNodeEvent(alive)
          /\ UNCHANGED value
       \/ /\ ~Fails("create", i) /\ Fails("export", i)
          /\ value' = [value EXCEPT ![i] = 0]
          /\ DestroyNodeEvent(alive \cup {i})
    /\ UNCHANGED <<pending, stray, tmp, failing>>

-----------------------------------------------------------------------------
(* kernel_launch.                                                          *)

\* doca_dpa_kernel_launch_update_add of kernel i: NumThreads threads of
\* hello_world on event i; a failure jumps to destroy_event
LaunchKernel ==
    /\ pc = "launch"
    /\ \/ /\ ~Fails("launch", i)
          /\ pending' = [pending EXCEPT ![i] = NumThreads]
          /\ Advance("wait")
          /\ UNCHANGED <<result, failed>>
       \/ /\ Fails("launch", i)
          /\ pc' = "destroy"
          /\ i' = 0
          /\ result' = "err"
          /\ failed' = failed \cup {"launch"}
          /\ UNCHANGED pending
    /\ UNCHANGED <<alive, value, stray, invalid, tmp, failing>>

\* the threshold doca_sync_event_wait_gt waits to exceed
WaitThreshold_off_by_one == NumThreads
WaitThreshold == NumThreads - 1

\* doca_sync_event_wait_gt on the last kernel's event only; a failed wait
\* is logged and the events are destroyed all the same
WaitLastEvent ==
    /\ pc = "wait"
    /\ \/ /\ ~Fails("wait", Last)
          /\ value[Last] > WaitThreshold
          /\ UNCHANGED <<result, failed>>
       \/ /\ Fails("wait", Last)
          /\ result' = "err"
          /\ failed' = failed \cup {"wait"}
    /\ pc' = "destroy"
    /\ i' = 0
    /\ UNCHANGED <<alive, value, pending, stray, invalid, tmp, failing>>

\* mutant: the destroy loop reuses result for each destroy's status
DestroyEvent_into_result ==
    /\ pc = "destroy"
    /\ alive' = IF Fails("destroy", i) THEN alive ELSE alive \ {i}
    /\ tmp' = IF Fails("destroy", i) THEN "err" ELSE "ok"
    /\ result' = tmp'
    /\ failed' = IF Fails("destroy", i) THEN failed \cup {"destroy"} ELSE failed
    /\ Advance("finish")
    /\ UNCHANGED <<value, pending, stray, invalid, failing>>

\* mutant: the destroy loop stops one event short
DestroyEvent_short ==
    /\ pc = "destroy"
    /\ alive' = IF Fails("destroy", i) \/ i = Last THEN alive ELSE alive \ {i}
    /\ tmp' = IF Fails("destroy", i) THEN "err" ELSE "ok"
    /\ failed' = IF Fails("destroy", i) THEN failed \cup {"destroy"} ELSE failed
    /\ Advance("finish")
    /\ UNCHANGED <<value, pending, stray, invalid, result, failing>>

\* one iteration of the destroy_event loop: tmp_result keeps only the
\* status of the latest destroy
DestroyEvent ==
    /\ pc = "destroy"
    /\ alive' = IF Fails("destroy", i) THEN alive ELSE alive \ {i}
    /\ tmp' = IF Fails("destroy", i) THEN "err" ELSE "ok"
    /\ failed' = IF Fails("destroy", i) THEN failed \cup {"destroy"} ELSE failed
    /\ Advance("finish")
    /\ UNCHANGED <<value, pending, stray, invalid, result, failing>>

\* after the loop: the last destroy's error is propagated into result
ReturnResult ==
    /\ pc = "finish"
    /\ result' = IF tmp = "err" THEN DOCA_ERROR_PROPAGATE(result, tmp)
                                ELSE result
    /\ pc' = "done"
    /\ UNCHANGED <<i, alive, value, pending, stray, invalid, tmp, failed,
                   failing>>

-----------------------------------------------------------------------------
(* The device.                                                             *)

\* one DPA thread of kernel k runs hello_world: doca_dpa_dev_sync_event_
\* update_add(comp_event1, 1) on the event the kernel was launched with
hello_world(k) ==
    /\ pending[k] > 0
    /\ pending' = [pending EXCEPT ![k] = @ - 1]
    /\ \/ /\ k \in alive
          /\ value' = [value EXCEPT ![k] = @ + 1]
          /\ UNCHANGED stray
       \/ /\ k \notin alive
          /\ stray' = stray \cup {k}
          /\ UNCHANGED value
    /\ UNCHANGED <<pc, i, alive, invalid, result, tmp, failed, failing>>

Init ==
    /\ pc = "create"
    /\ i = 0
    /\ alive = {}
    /\ value = [k \in Kernels |-> 0]
    /\ pending = [k \in Kernels |-> 0]
    /\ stray = {}
    /\ invalid = FALSE
    /\ result = "ok"
    /\ tmp = "ok"
    /\ failed = {}
    /\ failing \in {F \in SUBSET Fallible : Cardinality(F) <= MaxFaults}

Host ==
    \/ create_dpa_events
    \/ LaunchKernel
    \/ WaitLastEvent
    \/ DestroyEvent
    \/ ReturnResult

Next == Host \/ \E k \in Kernels : hello_world(k)

\* The host thread only blocks in the wait; the DPA runs every thread of
\* a launched kernel.
Spec == /\ Init /\ [][Next]_vars
        /\ WF_vars(Host)
        /\ \A k \in Kernels : WF_vars(hello_world(k))

-----------------------------------------------------------------------------
(* Properties.                                                             *)

TypeOK ==
    /\ pc \in {"create", "launch", "wait", "destroy", "finish", "done"}
    /\ i \in Kernels
    /\ alive \subseteq Kernels
    /\ value \in [Kernels -> 0..NumThreads]
    /\ pending \in [Kernels -> 0..NumThreads]
    /\ stray \subseteq Kernels
    /\ invalid \in BOOLEAN
    /\ result \in {"ok", "err"}
    /\ tmp \in {"ok", "err"}
    /\ failed \subseteq {"create", "launch", "wait", "destroy"}
    /\ failing \subseteq Fallible

(* No DPA thread updates an event the host has already destroyed: when   *)
(* kernel_launch destroys the events, every kernel launched on them has   *)
(* finished.  The host waits on the last kernel's event only (line 123),  *)
(* so this is about the order in which the DPA runs the other kernels.    *)
NoUpdateAfterDestroy == stray = {}

(* When kernel_launch returns, every event it created is destroyed, bar   *)
(* one whose own destroy failed, and it destroyed no pointer it never     *)
(* set: create_dpa_events' error path and the destroy_event loop release  *)
(* exactly what was created.                                               *)
EventsReleased ==
    pc = "done" =>
        /\ \A k \in alive : Fails("destroy", k)
        /\ ~invalid

(* kernel_launch returns an error whenever one of its calls failed: an     *)
(* event creation or export, a launch, the wait, or the destroy of the    *)
(* last event.  A failed destroy of an earlier event is overwritten by    *)
(* the next iteration's tmp_result (line 132) and not reported, so the    *)
(* runs let only the last destroy fail.                                    *)
FailureReported ==
    (pc = "done" /\ failed # {}) => result = "err"

(* kernel_launch always returns: the wait ends once every thread of the   *)
(* last kernel has added to its event.                                     *)
Termination == <>(pc = "done")

=============================================================================
