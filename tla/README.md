# TLA+ models of doca-test

This directory holds TLA+ models of the code under `src/`, with the TLC
configurations that check them. The main subject is the host side of the
L2 reflector (`src/applications/l2_reflector/src/host/l2_reflector_core.c`).
That code provisions and tears down a graph of hardware objects, and its
correctness is a question of order: which object exists when another is
created from it, and what is destroyed (once, and in the right order) when a
step fails.

## 1. Inventory

### Components of the repository

| Component | Source | State it keeps | Operations |
|---|---|---|---|
| DeviceContextManager | `l2_reflector_core.c` 42-88, 948-951 | `ibv_ctx`, `pd` in `app_cfg` | open by name, alloc PD (close on failure), dealloc PD |
| OffloadProcessHandle | 91-114, 937-945 | `flexio_process`, `event_handler` | create process, create event handler, destroy handler |
| QueueResourceAllocator | 124-323, 382-599 | SQ/RQ CQs, rings, DBRs, data buffers, mkeys, queues, `dev_data`, `dev_data_daddr`, and the `*_transf` address records | `allocate_dbr`, `allocate_cq_memory`, `allocate_sq_memory`, `create_dpa_mkey`, `allocate_sq`, `allocate_rq`, `l2_reflector_allocate_device_resources`, `l2_reflector_{rq,sq,cq}_destroy`, `dev_queues_destroy`, `l2_reflector_device_resources_destroy` |
| RQRingInitializer | 143-183, 234-249, 337-373, 382-488 | the RQ descriptor ring and DBR contents in device memory | `init_dpa_rq_ring`; the DBR prime at the end of `allocate_rq` |
| FlowSteeringEngine | 612-934 | `rx_domain`, `fdb_domain`, three `dr_flow_table` structs (table and matcher), three `dr_flow_rule` structs (action and rule) | `create_flow_table`, `destroy_table`, `destroy_rule`, `l2_reflector_create_steering_rule_{rx,tx}`, `l2_reflector_steering_rules_destroy` |
| LifecycleCoordinator | `l2_reflector_destroy` 954-974; main() is not in the repository | the stage reached | provision in order, unwind on failure, tear down, restart |
| Parameter registration | 984-1031 | the device name in `app_cfg` | register the `-d` parameter and the version callback; `device_callback` checks and copies the name |
| Eth TXQ LSO sample | `samples/doca_eth/eth_txq_lso_send_ethernet_frames/..._sample.c` | core objects, `inflight_tasks` | submit LSO tasks, completion and error callbacks decrement the count, stop and drain in `destroy_eth_txq_ctx` |
| DPA kernel launch sample | `samples/doca_dpa/dpa_kernel_launch/` | 255 completion events | create events, launch 255 kernels, wait on the last event, destroy all events |
| Firefly monitor client | `services/firefly/src/monitor/client.cpp`, `firefly_monitor_core.cpp` | `force_quit`, the gRPC stream | subscribe, install the signal handler, read a record, print a fixed-height report, quit on SIGINT/SIGTERM |
| cc client main | `samples/doca_cc/...` | none | argp and logging setup |

### How they interact

main() first registers the parameters and parses the command line: `device_callback` stores the `-d` name in `app_cfg->device_name`, and `l2_reflector_open_ibv_device` later looks it up (spec.md 6, 7). It then (spec.md 4.6) calls the provisioning functions in dependency order:
1. `l2_reflector_setup_ibv_device` (context, PD);
2. `l2_reflector_setup_device` (process, event handler);
3. `l2_reflector_allocate_device_resources` (SQ side, RQ side and the `dev_data` block copied to the device);
4. `l2_reflector_create_steering_rule_rx`;
5. `l2_reflector_create_steering_rule_tx`.

Each step's output is the next step's input. The RX action forwards into the RQ. Every device buffer belongs to the process. On a failure, the coordinator runs the destroy functions of the stages already completed, latest first. At the end it calls `l2_reflector_destroy`.

### Behaviours that are hard

- A failure at any call site, followed by the error path the code takes:
  - early returns that keep what was already created (`allocate_sq`, `allocate_rq`);
  - goto ladders that destroy some objects without NULLing the fields (`exit_with_error` of the RX and TX builders);
  - a cleanup that passes the wrong struct (line 884).
- Destroy guards that test pointer fields. A field that was freed but not NULLed makes a second destroy happen later.
- An allocation whose status is ignored, with the address field tested instead (lines 424-435). This depends on what the field held before: a state that only a restart reaches.
- Teardown order inside `destroy_rule` and `destroy_table`.
- The steering barrier: no rule may forward into the RQ before the RQ, its CQ and mkey exist and its ring and DBR are written.
- Samples:
  - the callback-driven in-flight count and the retrieve loop that waits on it (Eth);
  - the wait on one event out of 255 (DPA).

### Properties that make each component correct

- Every create and every device write finds the handles it is made from alive (spec.md 3 (a)-(c)).
- No object is destroyed twice, and none is destroyed while an object made from it is alive (3 (d), 4.5).
- A failing composite operation leaves nothing it created (4.3, 7, 8.4).
- A failing TX build does not touch RX objects (7).
- A rule steers only into a ready queue (5).
- A started reflector holds the full graph, in a first run and after a restart (8.3).
- A clean teardown leaves nothing alive (4.6).
- Taken together, the lifecycle behaves as the abstract resource graph of spec.md 4.6, 7 and 8.3 says (`ResourceGraph`).
- The Firefly client's report keeps one height, and a signal ends the client.

## 2. Modules

### `L2Reflector.tla`: lifecycle of the reflector's resource graph

**State**
- `alive`: the objects that exist.
- `nn`: the `app_cfg` and struct pointer fields that are non-NULL.
- `written`: the RQ ring and DBR, once initialised.
- `calls`: the driver calls of the last step, in order. The action properties read it.
- `phase`, `failedIn`, `runs`: the coordinator.

**Operations.** Each C function is an operator whose value is its possible outcomes. An outcome is `[ops, ok]`: the call sequence the function issues for one choice of the first failing call site in `Fallible`, including the cleanup the code runs after that failure, and whether it returns success.
- The combinators mirror the code's control flow:
  - `Seqn` is a chain of early returns;
  - `OnError` is the cleanup in an `if (result != ...)` block;
  - `DIf` is a destroy guarded by pointer tests;
  - `N` is a field stored as NULL.
- A failed create stores NULL in its out-pointer. A `calloc` of a host struct clears its member fields (`Touches`).
- `Perform` executes a call sequence against the current fields:
  - a guarded destroy whose pointer is NULL issues nothing;
  - destroys never change a field, so the fields each call sees follow from the creates and NULL stores before it.
- Every function of the core that changes state is translated, including `unchecked_buf_dev_alloc`. It models flexio_buf_dev_alloc's ignored status: a failure can NULL the address or leave an old one in place.

**Parameters.** `register_l2_reflector_params` is a chain of three argp calls whose status is checked (`ArgpSites`). `device_callback` is translated with `strnlen` and `strlcpy`, modelled by what they do to a string (its characters, without the NUL):
- a name whose `strnlen` reaches `NameSize` is refused;
- any other name is copied with a size of `len + 1`.

`RegisterParams` and `ArgpStart` (spec_modelled: `doca_argp_start` hands the `-d` value to the callback, and fails if it fails) come before the first stage. A failure in either ends the program in phase `exited` with nothing created. `l2_reflector_open_ibv_device(name)` fails with NotFound when no name in `DeviceNames` matches.

**Coordinator** (spec_modelled, spec.md 4.6 and 7):
- one action per provisioning stage (`SetupIbvDevice` ... `CreateSteeringRuleTx`);
- `Unwind`, which runs the destroy functions of the completed stages (`Ladder`);
- `Shutdown` (`l2_reflector_destroy`);
- `Restart` after a clean teardown, bounded by `MaxRuns`.

`Fallible` is a CONSTANT (the call sites that may fail). `MaxRuns` is the number of provisioning cycles. `NameSize` is `DOCA_DEVINFO_IBDEV_NAME_SIZE`, taken as the size of `app_cfg->device_name`, whose struct header is not in the repository. `DeviceNames` are the devices present, and `Args` are the names the user may pass.

**Unwind.** `UnwindLeavesOnlyContextAndProcess` says what the ladder leaves after a failing stage: the device context, the FlexIO process and what the failing stage itself kept, and nothing else. The per-stage destroy functions do not close the context or destroy the process; only `l2_reflector_destroy` does.

**Not modelled.**
- Addresses, sizes, queue numbers, MAC values and match masks. No property here tells them apart.
- Log output.
- The bitwise-OR status aggregation of the destroy functions. It never changes which calls are made.

`MC_L2Reflector.tla` gives the `Fallible` sets used by the runs.

**Refinement.** `ImplementsResourceGraph` is `Abstract!Spec`, where `Abstract` is `INSTANCE ResourceGraph` with:
- `Owned <- StageOwned`: the objects each stage creates and keeps;
- `mode <- AbsMode`: a provisioning stage maps to `"provisioning"`, the other phases to themselves;
- `done <- AbsDone`: the index of the current (or failed) stage, minus one; 0 while the arguments are parsed (`Configuring`), which creates nothing;
- `held <- alive`.

### `ResourceGraph.tla`: what the lifecycle promises

The abstract specification of the coordinator (spec.md 4.6, 7, 8.3), with no driver call in sight. Its state is `mode`, the number of stages `done` and the objects `held`.
- `StageSucceeds` adds exactly the stage's own objects.
- `StageFails` adds no other stage's.
- `Unwind` only releases.
- `Teardown` of a running reflector leaves nothing.
- `Reprovision` starts again from a clean teardown.

Two things are deliberately left open, because the code does not fix them:
- what a failing stage leaves of its own objects (`sq_rollback` shows it can leave some);
- what the unwind leaves. `l2_reflector_ibv_device_destroy` (948-951) only deallocates the PD, and `l2_reflector_device_destroy` (936-945) only destroys the event handler. Only `l2_reflector_destroy` closes the context and destroys the process, so an unwind after a failing device stage leaves the context open. main(), which would decide this, is not in the repository. The first version of `ResourceGraph`, with an unwind that emptied `held`, was refuted by TLC in exactly this way.

### `RQRing.tla`: what `allocate_rq` writes into the receive queue

`L2Reflector` models which objects exist. `RQRing` models what `allocate_rq` puts in them. The values of the three build constants (`L2_LOG_CQ_RING_DEPTH`, `L2_LOG_RQ_RING_DEPTH`, `L2_LOG_WQ_DATA_ENTRY_BSIZE`) are a CONSTANT set `Configs`, because their header is not in the repository. `DataAddr` and `MkeyId` stand for what the driver returns.

**Pure operators**
- `allocate_cq_memory`: the CQE owner bits, all 1.
- `create_dpa_mkey`: an address and a length of `2^log_bsize`.
- `init_dpa_rq_ring`: descriptor `i` is `[addr ↦ base + i*chunk, len ↦ chunk, lkey ↦ mkey id]`.
- `ReceiveDescriptors`: the RECURSIVE reference of spec.md 8.2.

**Actions**, following `allocate_rq` in its order:
- `AllocateRqCq` (404-420): the CQ of CQ depth. The depth given to the device is the RQ's (line 420).
- `AllocateRqBuffers` (422-451):
  - a data buffer of `2^(rq + chunk)` bytes;
  - a ring allocation of CQ-depth descriptors (line 430);
  - the mkey over the data buffer.
- `InitRqRing` (453-457): the ring filled with CQ-depth descriptors.
- `PrimeDbr` (473-487): `<<2^rq & 0xffff, 0>>`.
- `NicReceive` (spec-modelled): the NIC takes the posted descriptors in RQ order (slot `k mod 2^rq`).

The driver calls' failure paths are already covered by `L2Reflector`, so this module follows the success path only.

### `EthTxqLso.tla`: the Eth TXQ LSO send sample

**State**
- `pc`: the step of `eth_txq_lso_send_ethernet_frames`.
- `alive`, `undestroyed`: what is allocated, and what a failed release left allocated.
- `txqSet`: `state.eth_txq` non-NULL.
- `ctx`: the context state.
- `hw`: the task as the NIC sees it (idle, posted, completed ok or with an error).
- `inflight`: `inflight_tasks`, a uint32_t that wraps below 0 (`Dec32`).
- `status`: the returned status.

**Actions**
- There is one host action per function of the sample, or per iteration of a polling loop: `AllocateCoreResources` over a small set of device capabilities (`check_device`), `create_eth_txq_ctx`, the three buffer allocations, `create_eth_txq_tasks`, `submit_eth_txq_tasks`, `retrieve_eth_txq_tasks`, `destroy_eth_txq_tasks`, `destroy_eth_txq_packet_buffers`, `eth_txq_lso_cleanup` and `destroy_eth_txq_ctx`.
- `task_lso_send_common_cb`, the completion callback, runs inside `Progress` (`doca_pe_progress`) on the host thread.
- `HwComplete` (spec-modelled) is the NIC completing a posted task, with an error if the context is stopping or the send fails.

**Fault model.** `failing` is chosen in `Init`: a set of at most `MaxFaults` call sites out of `Fallible` that fail in this execution. Every fallible call takes its error path when it is in the set.

**Conditional release.** `ReleasedUnlessLeakingCall` states that everything is released at return unless one of the calls whose failure the code lets leak (`LeakingSites`) failed. Each of those leaks is real:
- a failing payload read or buffer release, which `eth_leaks` shows;
- a failing `doca_ctx_stop` or `doca_eth_txq_destroy`, after which `eth_txq_lso_cleanup` returns at line 370 without destroying the core objects. `eth_leaks` cannot fail these calls; the leak was found while writing `ReleasedUnlessLeakingCall`, which fails under `eth_send`'s fault set when they are left out of `LeakingSites`.

**Unreachable branch.** The drain loop in `destroy_eth_txq_ctx` (the `inflight ≠ 0` branch) is never taken. `retrieve_eth_txq_tasks` has already waited for the only task.

### `DpaKernelLaunch.tla`: the DPA kernel launch sample

The sample's 255 kernels of 64 threads become `NumKernels` kernels of `NumThreads` threads.

**State**
- `pc`, `i`: the host's step and loop index.
- `alive`: the events that exist.
- `value`: the event counters.
- `pending`: threads launched and not yet run.
- `stray`: events updated after they were destroyed.
- `invalid`: a destroy of a pointer that was never set.
- `result`, `tmp`: `result` and `tmp_result`.
- `failed`: the history of failed call kinds.
- `failing`: the fault set, as in `EthTxqLso`.

**Actions**
- Host: `create_dpa_events` (with its error label `DestroyNodeEvent`), `LaunchKernel`, `WaitLastEvent` (`doca_sync_event_wait_gt` on the last event only), `DestroyEvent` and `ReturnResult`.
- Device: `hello_world(k)`, one DPA thread adding 1 to its kernel's event. It interleaves freely with the host and with the other kernels.

### `FireflyMonitor.tla`: the Firefly monitor client

**State**
- `pc`: the step of `run_client`.
- `handler`: the signal handler is installed.
- `force_quit`: the flag the handler sets.
- `pending`, `ended`: the records the server has sent and Read has not returned, and the end of the stream.
- `record`: the last record read.
- `screen`: the lines of the last report.
- `result`: the returned status.

A record is reduced to the three fields that decide the report's layout: a grandmaster is present, the timescale is TAI, there are errors.

**Operators.** `deserialize_record`, `report_time_to_stdout` and `report_monitoring_result_to_stdout` return the report as its sequence of lines, filler lines included.

**Actions**
- Client: `Subscribe` (104-120), `InstallHandlers` (122-124), `LoopTest` (127, 144-145), `StreamRead` (128-133) and `Report` (135-141).
- `Signal` is `signal_handler`. Before the handler is installed, the default action kills the process.
- The server is not in the repository. `ServerSend` buffers one record, and `ServerClose` ends the stream.

`signal()` installs the handler with restart semantics, so a signal does not interrupt the blocking Read. `StreamRead` has no signal disjunct for this reason.

## 3. Runs

| Run | Config | Expect | Shows |
|---|---|---|---|
| lifecycle | `lifecycle.cfg` | pass | `TypeOK`, `SteeringBarrier` and `UsesOnlyLiveHandles` hold, and `L2Reflector` implements `ResourceGraph` (`ImplementsResourceGraph`), with every checked call site able to fail, over two provision/teardown cycles. For every device name up to one too long, the device opened is the one named (`DeviceNameAsGiven`). An unwind leaves only the context, the process and the failing stage's own objects (`UnwindLeavesOnlyContextAndProcess`). |
| double_destroy | `double_destroy.cfg` | violation | `NoDoubleDestroy`: after `mlx5dv_dr_action_create_dest_vport` (tx_action) fails, the TX error path destroys the RX rule (line 884), and the unwind destroys it and `fdb_domain` a second time (891, 932). |
| teardown_order | `teardown_order.cfg` | violation | `DestroyAfterDependents`: with no failure at all, `destroy_rule` destroys the action before its rule (678-680), and `destroy_table` destroys the table before its matcher (661-663). |
| sq_rollback | `sq_rollback.cfg` | violation | `FailedStageRollsBack`: a failing `flexio_sq_create` leaves the SQ CQ and memory alive (306-309). |
| stale_rq_addr | `stale_rq_addr.cfg` | violation | `UsesOnlyLiveHandles`: in the second cycle, a failed RQ data-buffer allocation is hidden by the address left from the first cycle (424-425). |
| rq_ring | `rq_ring.cfg` | pass | For all builds with equal CQ and RQ depths, the CQ, ring, mkey and doorbell equal the reference (`RingMatchesReference`). Every descriptor the NIC takes lies in the ring and in the data buffer its mkey covers (`ReceiveInBounds`). |
| eth_send | `eth_send.cfg` | pass | Any two calls of the sample may fail. Nothing the NIC may still read has been freed (`NoFreeWhileInflight`). `inflight_tasks` never wraps (`TypeOK`). The sample always returns (`Termination`). Everything is released at return unless a call whose failure the code leaks failed (`ReleasedUnlessLeakingCall`). |
| eth_leaks | `eth_leaks.cfg` | violation | `ReleasedAtExit`: TLC's trace has a task allocation fail, then the payload release on its error path, and the sample returns without `eth_txq_lso_cleanup` (509-510). The fault set also lets the callback's payload read fail; with that as the only fault the invariant fails too, on the payload leaked at line 75. |
| dpa_launch | `dpa_launch.cfg` | pass | `EventsReleased`, `FailureReported` and `Termination` hold when any one of the failures whose error paths release everything occurs. Only the last event's destroy may fail: an earlier destroy's failure is lost (132), so `FailureReported` speaks of the last destroy only. |
| dpa_kernel_race | `dpa_kernel_race.cfg` | violation | `NoUpdateAfterDestroy`: the host waits on the last event only (123). A thread of an earlier kernel can update its event after the host destroyed it. |
| firefly_client | `firefly_client.cfg` | pass | Every report is 22 lines high, whatever the record (`ReportLength`). After a signal, `run_client` returns unless the server stays silent forever (`QuitsUnlessServerSilent`). |
| dpa_create_rollback | `dpa_create_rollback.cfg` | violation | `EventsReleased`: when the second event's export fails, the error path destroys only the first event (81). The second event stays alive. |

**Bounds**
- `lifecycle`: every call site may fail except the two unchecked allocations of `allocate_rq`. Two cycles reach every state a restart reads.
  - `NameSize` is 3 instead of 64. The boundary arithmetic is the same, on strings short enough to enumerate.
  - The names are every string of "m" up to one character too long, plus an unknown one. The devices are "m" and "mm": a name cut short by one character would open the other device.
  - The violation runs use the one valid name "mm", so their state spaces are unchanged.
- `rq_ring`: depths from 2 to 16 descriptors, and chunks from 2 to 8 bytes. These are enough for the address arithmetic to separate the descriptors.
  - Depths of 2^16 and more, where the 16-bit counter mask posts nothing (line 477), are beyond a run of this size.
  - Builds with unequal CQ and RQ depths are not run. Spec.md 9 assumes the depths are equal.
- Eth: any two faults, and one task as in the sample.
- Firefly: the 8 kinds of record, any number of them, and the server may end the stream at any time.
- DPA: 3 kernels of 2 threads. That is enough for an earlier kernel to still be running when the last one finishes.

Deadlock checking is off everywhere: each program returns and then stops.

**Fairness**
- Eth: `WF_vars(Host)` and `WF_vars(HwComplete)`.
  - The host thread never blocks outside `doca_pe_progress` polling.
  - The NIC completes every posted task.
- DPA: `WF_vars(Host)` and `WF_vars(hello_world(k))` for each kernel `k`. The DPA runs every thread of a launched kernel.
- Firefly: `WF_vars(Client)` only. The client thread runs whenever it is not blocked in Read.
  - Nothing in the code makes the server send a record or end the stream, so no fairness is assumed for the server or for signals.
  - `QuitsUnlessServerSilent` is therefore `force_quit ~> (pc = "done" \/ [](blocked in Read on an empty, open stream))`. It says that a silent server is the only thing that can keep the client from quitting.
- The L2 reflector and RQ ring runs check safety and the refinement's safety part only, so they assume no fairness.

**Mutants.** Each property of a passing run is broken by a plausible bug in the code it is about:
- `init_dpa_rq_ring_into_cq_ring`, `allocate_rq_ring_before_mkey`, `allocate_rq_unchecked_dbr`, `allocate_sq_unchecked_mkey` (two properties), `device_callback_accepts_full` (length test off by one), `l2_reflector_device_resources_destroy_keeps_dev_data` (lifecycle);
- `allocate_cq_memory_overrun`, `init_dpa_rq_ring_same_chunk` (data address not advanced), `AllocateRqBuffers_no_chunk` (data buffer sized without the chunk) (rq_ring);
- `task_lso_send_common_cb_double_dec`, `task_lso_send_success_only_cb`, `submit_eth_txq_tasks_no_retrieve`, `submit_eth_txq_tasks_skips_task_free` (Eth);
- `report_time_to_stdout_no_filler`, `LoopTest_ignores_quit` (Firefly);
- `create_dpa_events_overrun`, `WaitThreshold_off_by_one`, `DestroyEvent_into_result`, `DestroyEvent_short` (DPA).

## 4. Plan and what is not modelled

Done: `L2Reflector` with its parameters and its refinement of `ResourceGraph`, `RQRing`, `EthTxqLso`, `DpaKernelLaunch` and `FireflyMonitor`.

Next:
- A run with unequal depth constants, to show what the line 420/430 mix-up does.
- The Eth sample returns a status that ignores the task's completion status (line 514), so a failed send is reported as success. No run checks this. The model would need to record the completion status, and the project keeps to twelve runs. The sample's comment implies this expectation, but does not state it.

Not modelled:
- The cc client main (`cc_ctrl_path_client_main.c`). Its only state is `doca_argp_init` paired with `doca_argp_destroy` around three calls, `register_cc_params`, `doca_argp_start` and `start_cc_ctrl_path_client_sample`. None of them is in the repository. The two-label goto ladder reaches `doca_argp_destroy` on every path after a successful init.
- The argp setters of `register_l2_reflector_params`. They return nothing, and change no state the model keeps.
- In the Firefly client: `get_stability_string`, `get_port_state_string` and the field values (wording only), and `firefly_monitor_version_callback` (prints and exits).
- The DOCA headers (declarations only).
- Addresses, sizes and MAC values outside `RQRing`, and all log output and timers.
- The DPA sample's destroy status. Only the last destroy's error reaches `result` (132). `dpa_launch` lets only the last destroy fail, and `FailureReported` says so. This is a hazard noted in `PROJECT.json`, checked by no run: the project keeps to twelve runs.
