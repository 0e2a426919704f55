----------------------------- MODULE L2Reflector -----------------------------
(***************************************************************************)
(* Host-side resource lifecycle of the L2 reflector                        *)
(* (src/applications/l2_reflector/src/host/l2_reflector_core.c).           *)
(*                                                                         *)
(* Every handle the program creates (device context, PD, FlexIO process,   *)
(* event handler, CQs, queues, device buffers, mkeys, DR domains, tables,  *)
(* matchers, actions, rules, and the host structs that hold them) is an    *)
(* element of Res, alive from its create to its destroy.  Each public      *)
(* function of the core is one action: it is evaluated as the sequence of  *)
(* driver calls it issues for one choice of the call (in Fallible) that    *)
(* fails first, including the error path the code takes after that        *)
(* failure.  The app_cfg pointer fields that the code tests before         *)
(* destroying are the set nn of non-NULL fields; a field is named after    *)
(* the handle it holds.                                                    *)
(*                                                                         *)
(* The order in which main() calls these functions, and the goto ladder it *)
(* runs on a failure, are not in the repository: they are modelled from   *)
(* spec.md section 4.6 (provisionAll / teardownAll).                       *)
(***************************************************************************)
EXTENDS Naturals, Sequences, SequencesExt, TLC

CONSTANTS
    Fallible,   \* the call sites that may fail in this model
    MaxRuns,    \* how many provision/teardown cycles the program may make
    NameSize,   \* DOCA_DEVINFO_IBDEV_NAME_SIZE, the size of app_cfg->device_name
    DeviceNames, \* the names of the devices ibv_get_device_list returns
    Args        \* the device names the user may pass with -d/--device

VARIABLES
    alive,      \* the objects that exist (created and not yet destroyed)
    nn,         \* app_cfg and struct pointer fields that are non-NULL
    written,    \* device buffers whose contents the host has initialised
    calls,      \* the driver calls issued by the last step, in order
    phase,      \* where the coordinator is in provisionAll/teardownAll
    failedIn,   \* the provisioning stage that failed, if one did
    runs,       \* provisioning cycles started so far
    arg,        \* the device name given on the command line
    device_name \* app_cfg->device_name

vars == <<alive, nn, written, calls, phase, failedIn, runs, arg, device_name>>

-----------------------------------------------------------------------------
(* The objects.                                                            *)

DeviceRes == {"ctx", "pd", "process", "eh"}
SqRes == {"sq_cq_dbr", "sq_cq_ring", "sq_cq", "sqd", "sq_ring", "sq_dbr",
          "sq", "sqd_mkey"}
RqRes == {"rq_cq_dbr", "rq_cq_ring", "rq_cq", "rqd", "rq_ring", "rq_dbr",
          "rqd_mkey", "rq"}
BlockRes == {"dev_data", "dev_data_daddr"}
\* host buffers that live only inside one function
Staging == {"cq_ring_src", "rx_wqes", "match_mask"}
RxRes == {"rx_domain", "rx_tbl", "rx_table", "rx_matcher",
          "rx_rule", "rx_action", "rx_drrule"}
TxRes == {"fdb_domain", "tx_root_tbl", "tx_root_table", "tx_root_matcher",
          "tx_tbl", "tx_table", "tx_matcher",
          "tx_root_rule", "tx_root_action", "tx_root_drrule",
          "tx_rule", "tx_action", "tx_drrule"}
Res == DeviceRes \cup SqRes \cup RqRes \cup BlockRes \cup Staging
         \cup RxRes \cup TxRes

\* fallible host-to-device copies that create no object
WriteSites == {"rq_ring_init", "rq_dbr_prime"}
Sites == Res \cup WriteSites

\* struct dr_flow_rule {dr_action, dr_rule}, struct dr_flow_table
\* {dr_table, dr_matcher}: calloc leaves the member pointers NULL
RxRule == [s |-> "rx_rule", action |-> "rx_action", rule |-> "rx_drrule"]
TxRootRule == [s |-> "tx_root_rule", action |-> "tx_root_action",
               rule |-> "tx_root_drrule"]
TxRule == [s |-> "tx_rule", action |-> "tx_action", rule |-> "tx_drrule"]
RxTbl == [s |-> "rx_tbl", table |-> "rx_table", matcher |-> "rx_matcher"]
TxRootTbl == [s |-> "tx_root_tbl", table |-> "tx_root_table",
              matcher |-> "tx_root_matcher"]
TxTbl == [s |-> "tx_tbl", table |-> "tx_table", matcher |-> "tx_matcher"]

Members(r) ==
    LET rules == {x \in {RxRule, TxRootRule, TxRule} : x.s = r}
        tbls  == {x \in {RxTbl, TxRootTbl, TxTbl} : x.s = r}
    IN  UNION {{x.action, x.rule} : x \in rules}
          \cup UNION {{x.table, x.matcher} : x \in tbls}

(* The objects a driver object is created from and must outlive.          *)
DeviceMem == {"sq_cq_dbr", "sq_cq_ring", "sqd", "sq_ring", "sq_dbr",
              "rq_cq_dbr", "rq_cq_ring", "rqd", "rq_ring", "rq_dbr",
              "dev_data_daddr"}
DependsOn ==
    {<<"pd", "ctx">>, <<"process", "ctx">>, <<"eh", "process">>}
      \cup {<<m, "process">> : m \in DeviceMem}
      \cup {<<"sq_cq", d>> : d \in {"ctx", "process", "sq_cq_ring", "sq_cq_dbr"}}
      \cup {<<"sq", d>> : d \in {"process", "pd", "sq_cq", "sq_ring"}}
      \cup {<<"sqd_mkey", d>> : d \in {"process", "pd", "sqd"}}
      \cup {<<"rq_cq", d>> : d \in {"process", "eh", "rq_cq_ring", "rq_cq_dbr"}}
      \cup {<<"rqd_mkey", d>> : d \in {"process", "pd", "rqd"}}
      \cup {<<"rq", d>> : d \in {"process", "pd", "rq_cq", "rq_ring", "rq_dbr",
                                  "rqd_mkey"}}
      \cup {<<"rx_domain", "ctx">>, <<"fdb_domain", "ctx">>,
            <<"rx_table", "rx_domain">>, <<"rx_matcher", "rx_table">>,
            <<"rx_action", "rq">>,
            <<"rx_drrule", "rx_matcher">>, <<"rx_drrule", "rx_action">>,
            <<"tx_root_table", "fdb_domain">>, <<"tx_table", "fdb_domain">>,
            <<"tx_root_matcher", "tx_root_table">>, <<"tx_matcher", "tx_table">>,
            <<"tx_root_action", "tx_table">>,
            <<"tx_root_drrule", "tx_root_matcher">>,
            <<"tx_root_drrule", "tx_root_action">>,
            <<"tx_action", "fdb_domain">>,
            <<"tx_drrule", "tx_matcher">>, <<"tx_drrule", "tx_action">>}
Dep(r) == {p[2] : p \in {q \in DependsOn : q[1] = r}}

\* a host-to-device write targets a live buffer; the RQ descriptors carry
\* the RX data mkey id
WriteNeeds(r) == IF r = "rq_ring" THEN {"rq_ring", "rqd_mkey"} ELSE {r}

-----------------------------------------------------------------------------
(* Driver calls and their outcomes.                                        *)

OpKinds == {"create", "destroy", "write", "null"}
Op(k, r, g) == [op |-> k, res |-> r, guard |-> g]
C(r) == Op("create", r, {})
D(r) == Op("destroy", r, {})
\* destroy r only if every pointer in g is non-NULL
DIf(g, r) == Op("destroy", r, g)
W(r) == Op("write", r, {})
N(r) == Op("null", r, {})      \* the field is NULL (assigned or left so)

\* A function's possible results: the calls it issued and whether it
\* returned DOCA_SUCCESS.
Ok(ops) == {[ops |-> ops, ok |-> TRUE]}
Call(site, ops) ==
    Ok(ops) \cup (IF site \in Fallible THEN {[ops |-> <<>>, ok |-> FALSE]}
                                       ELSE {})
\* a failed create stores NULL into its out-pointer
Create(r) == {IF o.ok THEN o ELSE [o EXCEPT !.ops = <<N(r)>>]
                : o \in Call(r, <<C(r)>>)}
Then(o1, o2) ==
    {o \in o1 : ~o.ok}
      \cup {[ops |-> a.ops \o b.ops, ok |-> b.ok] : a \in {x \in o1 : x.ok},
                                                     b \in o2}
RECURSIVE Seqn(_)
Seqn(s) == IF s = <<>> THEN Ok(<<>>) ELSE Then(Head(s), Seqn(Tail(s)))
\* the code's cleanup after a failure inside o
OnError(o, cleanup) ==
    {IF x.ok THEN x ELSE [x EXCEPT !.ops = @ \o cleanup] : x \in o}

\* Executing a call sequence against the current fields.  Only destroys are
\* guarded, and a destroy whose pointer is NULL is skipped and issues
\* nothing.  Destroys never change a field, so the fields a call sees depend
\* only on the creates and NULL stores before it.

\* the fields each create or NULL store sets or clears
Touches == [x \in Sites |-> {x} \cup Members(x)]

\* whether field r is non-NULL just before ops[i]: it was last set by a
\* create of itself, or cleared by a NULL store or by a calloc of its struct
NonNullAt(ops, i, r, nn0) ==
    LET J == {j \in 1..(i - 1) : /\ ops[j].op \in {"create", "null"}
                                 /\ r \in Touches[ops[j].res]}
    IN  IF J = {} THEN r \in nn0 ELSE ops[Max(J)] = C(r)

\* the indices of the calls really issued (NULL stores issue none)
Issued(ops, nn0) ==
    SelectSeq([i \in 1..Len(ops) |-> i],
              LAMBDA i : /\ ops[i].op # "null"
                         /\ \A r \in ops[i].guard : NonNullAt(ops, i, r, nn0))

\* r's state after the issued calls cs, from its last call among kinds K
LastIs(cs, r, K, kind, before) ==
    LET J == {j \in 1..Len(cs) : cs[j].res = r /\ cs[j].op \in K}
    IN  IF J = {} THEN before ELSE cs[Max(J)].op = kind

Perform(ops) ==
    LET idx == Issued(ops, nn)
        cs  == [k \in 1..Len(idx) |-> [op |-> ops[idx[k]].op, res |-> ops[idx[k]].res]]
    IN  /\ calls' = cs
        /\ alive' = {r \in Res : LastIs(cs, r, {"create", "destroy"}, "create",
                                         r \in alive)}
        /\ written' = {r \in Res : LastIs(cs, r, {"create", "destroy", "write"},
                                           "write", r \in written)}
        /\ nn' = {r \in Res : NonNullAt(ops, Len(ops) + 1, r, nn)}

-----------------------------------------------------------------------------
(* Parameter registration.  A C string is the sequence of its characters, *)
(* without the terminating NUL.                                            *)

\* strnlen: the length of s, but at most maxlen
strnlen(s, maxlen) == IF Len(s) < maxlen THEN Len(s) ELSE maxlen

\* the string strlcpy leaves in its destination: at most size - 1
\* characters of src, then the NUL (nothing at all for size 0)
strlcpy(src, size) ==
    IF size = 0 THEN <<>>
    ELSE SubSeq(src, 1, IF Len(src) < size - 1 THEN Len(src) ELSE size - 1)

\* mutant: the length test is off by one
device_callback_accepts_full(param) ==
    LET len == strnlen(param, NameSize)
    IN  IF len > NameSize THEN [ok |-> FALSE, name |-> device_name]
        ELSE [ok |-> TRUE, name |-> strlcpy(param, len + 1)]

\* device_callback: a name that fills the whole buffer is refused
\* (DOCA_ERROR_INVALID_VALUE); otherwise it is copied into app_cfg
device_callback(param) ==
    LET len == strnlen(param, NameSize)
    IN  IF len = NameSize THEN [ok |-> FALSE, name |-> device_name]
        ELSE [ok |-> TRUE, name |-> strlcpy(param, len + 1)]

\* the argp calls whose status the code checks; the setters return nothing
ArgpSites == {"argp_param_create", "argp_register_param",
              "argp_register_version"}

\* register_l2_reflector_params returns the first failure
register_l2_reflector_params ==
    Seqn(<<Call("argp_param_create", <<>>), Call("argp_register_param", <<>>),
           Call("argp_register_version", <<>>)>>)

-----------------------------------------------------------------------------
(* DeviceContextManager and OffloadProcessHandle.                          *)

\* l2_reflector_open_ibv_device: NotFound when no listed device has the
\* name; otherwise the list or the open may fail, with no object left
l2_reflector_open_ibv_device(name) ==
    IF name \in DeviceNames THEN Create("ctx")
    ELSE {[ops |-> <<N("ctx")>>, ok |-> FALSE]}

\* ibv_alloc_pd failing closes the device again
l2_reflector_setup_ibv_device(name) ==
    Then(l2_reflector_open_ibv_device(name), OnError(Create("pd"), <<D("ctx")>>))

\* no cleanup of the process when the event handler cannot be created
l2_reflector_setup_device == Seqn(<<Create("process"), Create("eh")>>)

-----------------------------------------------------------------------------
(* QueueResourceAllocator and RQRingInitializer.                           *)

\* flexio_copy_from_host of the zeroed DBR allocates it
allocate_cq_memory(dbr, ring) ==
    Seqn(<<Create(dbr), Create("cq_ring_src"),
           OnError(Create(ring), <<D("cq_ring_src")>>),
           Ok(<<D("cq_ring_src")>>)>>)

allocate_sq_memory == Seqn(<<Create("sqd"), Create("sq_ring"), Create("sq_dbr")>>)

\* mutant: the status of create_dpa_mkey is not checked
allocate_sq_unchecked_mkey ==
    Seqn(<<allocate_cq_memory("sq_cq_dbr", "sq_cq_ring"), Create("sq_cq"),
           allocate_sq_memory, Create("sq"),
           {[o EXCEPT !.ok = TRUE] : o \in Create("sqd_mkey")}>>)

\* returns on the first failure; nothing created so far is released
allocate_sq ==
    Seqn(<<allocate_cq_memory("sq_cq_dbr", "sq_cq_ring"), Create("sq_cq"),
           allocate_sq_memory, Create("sq"), Create("sqd_mkey")>>)

\* flexio_buf_dev_alloc's status is ignored and the address tested for 0.
\* A failed allocation may zero the out-address or leave it untouched; an
\* untouched address is non-zero when the field still holds the buffer of
\* an earlier run, and then the failure goes unnoticed.
unchecked_buf_dev_alloc(r) ==
    Ok(<<C(r)>>)
      \cup (IF r \in Fallible
              THEN {[ops |-> <<N(r)>>, ok |-> FALSE]}
                     \cup (IF r \in nn THEN Ok(<<>>) ELSE {})
              ELSE {})

\* mutant: the descriptors are copied to the RQ CQ's ring address
init_dpa_rq_ring_into_cq_ring ==
    Seqn(<<Create("rx_wqes"),
           OnError(Call("rq_ring_init", <<W("rq_cq_ring")>>), <<D("rx_wqes")>>),
           Ok(<<D("rx_wqes")>>)>>)

init_dpa_rq_ring ==
    Seqn(<<Create("rx_wqes"),
           OnError(Call("rq_ring_init", <<W("rq_ring")>>), <<D("rx_wqes")>>),
           Ok(<<D("rx_wqes")>>)>>)

\* mutant: the descriptors are written before the mkey they carry exists
allocate_rq_ring_before_mkey ==
    Seqn(<<allocate_cq_memory("rq_cq_dbr", "rq_cq_ring"), Create("rq_cq"),
           unchecked_buf_dev_alloc("rqd"), unchecked_buf_dev_alloc("rq_ring"),
           Create("rq_dbr"), init_dpa_rq_ring, Create("rqd_mkey"),
           Create("rq"), Call("rq_dbr_prime", <<W("rq_dbr")>>)>>)

\* mutant: the status of the DBR update is not checked
allocate_rq_unchecked_dbr ==
    Seqn(<<allocate_cq_memory("rq_cq_dbr", "rq_cq_ring"), Create("rq_cq"),
           unchecked_buf_dev_alloc("rqd"), unchecked_buf_dev_alloc("rq_ring"),
           Create("rq_dbr"), Create("rqd_mkey"), init_dpa_rq_ring,
           Create("rq"),
           {[o EXCEPT !.ok = TRUE] : o \in Call("rq_dbr_prime", <<W("rq_dbr")>>)}>>)

\* the last step rewrites the RQ DBR receive counter so that every ring
\* slot is posted
allocate_rq ==
    Seqn(<<allocate_cq_memory("rq_cq_dbr", "rq_cq_ring"), Create("rq_cq"),
           unchecked_buf_dev_alloc("rqd"), unchecked_buf_dev_alloc("rq_ring"),
           Create("rq_dbr"), Create("rqd_mkey"), init_dpa_rq_ring,
           Create("rq"), Call("rq_dbr_prime", <<W("rq_dbr")>>)>>)

l2_reflector_rq_destroy ==
    <<D("rq"), D("rqd_mkey"), D("rq_dbr"), D("rq_ring"), D("rqd")>>

l2_reflector_sq_destroy ==
    <<D("sq"), D("sqd_mkey"), D("sq_dbr"), D("sq_ring"), D("sqd")>>

l2_reflector_cq_destroy(cq, ring, dbr) == <<D(cq), D(ring), D(dbr)>>

dev_queues_destroy ==
    l2_reflector_rq_destroy \o l2_reflector_sq_destroy
      \o l2_reflector_cq_destroy("rq_cq", "rq_cq_ring", "rq_cq_dbr")
      \o l2_reflector_cq_destroy("sq_cq", "sq_cq_ring", "sq_cq_dbr")

l2_reflector_allocate_device_resources ==
    Seqn(<<allocate_sq, allocate_rq,
           OnError(Create("dev_data"), dev_queues_destroy),
           OnError(Create("dev_data_daddr"),
                   dev_queues_destroy \o <<D("dev_data")>>)>>)

-----------------------------------------------------------------------------
(* FlowSteeringEngine.                                                     *)

\* *tbl_out is written only on success, so the caller's field stays NULL
create_flow_table(t) ==
    OnError(Seqn(<<Create(t.s),
                   OnError(Create(t.table), <<D(t.s)>>),
                   OnError(Create(t.matcher), <<D(t.table), D(t.s)>>)>>),
            <<N(t.s)>>)

\* destroy_table and destroy_rule with the caller's own guard g
destroy_table(g, t) ==
    <<DIf(g \cup {t.s, t.table}, t.table), DIf(g \cup {t.s, t.matcher}, t.matcher),
      DIf(g \cup {t.s}, t.s)>>
destroy_rule(g, r) ==
    <<DIf(g \cup {r.s, r.action}, r.action), DIf(g \cup {r.s, r.rule}, r.rule),
      DIf(g \cup {r.s}, r.s)>>

l2_reflector_create_steering_rule_rx ==
    LET exit_with_error ==
            <<D("match_mask")>> \o destroy_rule({}, RxRule) \o <<N("rx_rule")>>
              \o destroy_table({}, RxTbl) \o <<N("rx_tbl"), D("rx_domain")>>
    IN  Seqn(<<Create("match_mask"),
               OnError(Create("rx_domain"), <<D("match_mask")>>),
               OnError(create_flow_table(RxTbl),
                       <<D("rx_domain"), D("match_mask")>>),
               OnError(Seqn(<<Create("rx_rule"), Create("rx_action"),
                              Create("rx_drrule")>>), exit_with_error),
               Ok(<<D("match_mask")>>)>>)

\* The error path tests tx_rule but passes rx_rule to destroy_rule.
l2_reflector_create_steering_rule_tx ==
    LET exit_with_error ==
            <<D("match_mask")>>
              \o destroy_rule({}, TxRootRule) \o <<N("tx_root_rule")>>
              \o destroy_rule({"tx_rule"}, RxRule) \o <<N("tx_rule")>>
              \o destroy_table({}, TxRootTbl) \o <<N("tx_root_tbl")>>
              \o destroy_table({}, TxTbl) \o <<N("tx_tbl"), D("fdb_domain")>>
    IN  Seqn(<<Create("match_mask"),
               OnError(Create("fdb_domain"), <<D("match_mask")>>),
               OnError(create_flow_table(TxRootTbl),
                       <<D("fdb_domain"), D("match_mask")>>),
               OnError(create_flow_table(TxTbl),
                       destroy_table({}, TxRootTbl)
                         \o <<N("tx_root_tbl"), D("fdb_domain"), D("match_mask")>>),
               OnError(Seqn(<<Create("tx_root_rule"), Create("tx_root_action"),
                              Create("tx_root_drrule"), Create("tx_rule"),
                              Create("tx_action"), Create("tx_drrule")>>),
                       exit_with_error),
               Ok(<<D("match_mask")>>)>>)

\* the domains are destroyed but their fields are not reset
l2_reflector_steering_rules_destroy ==
    destroy_rule({}, RxRule) \o <<N("rx_rule")>>
      \o destroy_rule({}, TxRule) \o <<N("tx_rule")>>
      \o destroy_rule({}, TxRootRule) \o <<N("tx_root_rule")>>
      \o destroy_table({}, RxTbl) \o <<N("rx_tbl")>>
      \o destroy_table({}, TxTbl) \o <<N("tx_tbl")>>
      \o destroy_table({}, TxRootTbl) \o <<N("tx_root_tbl")>>
      \o <<DIf({"rx_domain"}, "rx_domain"), DIf({"fdb_domain"}, "fdb_domain")>>

-----------------------------------------------------------------------------
(* Teardown.                                                               *)

\* mutant: the device data block is not freed
l2_reflector_device_resources_destroy_keeps_dev_data ==
    dev_queues_destroy \o <<D("dev_data_daddr")>>

l2_reflector_device_resources_destroy ==
    dev_queues_destroy \o <<D("dev_data_daddr"), D("dev_data")>>

l2_reflector_device_destroy == <<D("eh")>>

l2_reflector_ibv_device_destroy == <<D("pd")>>

l2_reflector_destroy ==
    l2_reflector_steering_rules_destroy \o l2_reflector_device_resources_destroy
      \o l2_reflector_device_destroy \o l2_reflector_ibv_device_destroy
      \o <<D("process"), D("ctx")>>

-----------------------------------------------------------------------------
(* LifecycleCoordinator (spec.md 4.6): the provisioning stages in order,   *)
(* and the destroy function that undoes each one.                          *)

Stages == <<"ibv", "device", "resources", "rx", "tx">>
Phases == {"params", "args", "exited", "ibv", "device", "resources", "rx", "tx", "running", "unwinding",
           "failed", "stopped"}
\* the argument parsing before the first stage creates nothing
Configuring == {"params", "args", "exited"}

Undo == [ibv |-> l2_reflector_ibv_device_destroy,
         device |-> l2_reflector_device_destroy,
         resources |-> l2_reflector_device_resources_destroy,
         rx |-> l2_reflector_steering_rules_destroy,
         tx |-> <<>>]

StageIndex(f) == CHOOSE i \in 1..Len(Stages) : Stages[i] = f

\* on a failure in stage f, undo the completed stages, latest first
Ladder(f) ==
    FlattenSeq(Reverse([i \in 1..(StageIndex(f) - 1) |-> Undo[Stages[i]]]))

Init ==
    /\ alive = {}
    /\ nn = {}
    /\ written = {}
    /\ calls = <<>>
    /\ phase = "params"
    /\ failedIn = "none"
    /\ runs = 1
    /\ arg \in Args
    /\ device_name = <<>>

\* register_l2_reflector_params, before doca_argp_start; a failure ends
\* the program with nothing created
RegisterParams ==
    /\ phase = "params"
    /\ \E o \in register_l2_reflector_params :
         phase' = IF o.ok THEN "args" ELSE "exited"
    /\ UNCHANGED <<alive, nn, written, calls, failedIn, runs, arg, device_name>>

\* doca_argp_start hands the -d value to device_callback and fails when
\* the callback does
ArgpStart ==
    /\ phase = "args"
    /\ LET r == device_callback(arg)
       IN  /\ device_name' = r.name
           /\ phase' = IF r.ok THEN "ibv" ELSE "exited"
    /\ UNCHANGED <<alive, nn, written, calls, failedIn, runs, arg>>

\* run one provisioning function; go on to the next stage or unwind
Provision(from, to, outcomes) ==
    /\ phase = from
    /\ \E o \in outcomes :
         /\ Perform(o.ops)
         /\ phase' = IF o.ok THEN to ELSE "unwinding"
         /\ failedIn' = IF o.ok THEN failedIn ELSE from
    /\ UNCHANGED <<runs, arg, device_name>>

SetupIbvDevice ==
    Provision("ibv", "device", l2_reflector_setup_ibv_device(device_name))
SetupDevice == Provision("device", "resources", l2_reflector_setup_device)
AllocateDeviceResources ==
    Provision("resources", "rx", l2_reflector_allocate_device_resources)
CreateSteeringRuleRx == Provision("rx", "tx", l2_reflector_create_steering_rule_rx)
CreateSteeringRuleTx ==
    Provision("tx", "running", l2_reflector_create_steering_rule_tx)

Unwind ==
    /\ phase = "unwinding"
    /\ Perform(Ladder(failedIn))
    /\ phase' = "failed"
    /\ UNCHANGED <<failedIn, runs, arg, device_name>>

Shutdown ==
    /\ phase = "running"
    /\ Perform(l2_reflector_destroy)
    /\ phase' = "stopped"
    /\ UNCHANGED <<failedIn, runs, arg, device_name>>

\* after a clean teardown the caller may provision again (spec.md 7, 8.3)
Restart ==
    /\ phase = "stopped"
    /\ runs < MaxRuns
    /\ phase' = "ibv"
    /\ runs' = runs + 1
    /\ calls' = <<>>
    /\ UNCHANGED <<alive, nn, written, failedIn, arg, device_name>>

Next ==
    \/ RegisterParams
    \/ ArgpStart
    \/ SetupIbvDevice
    \/ SetupDevice
    \/ AllocateDeviceResources
    \/ CreateSteeringRuleRx
    \/ CreateSteeringRuleTx
    \/ Unwind
    \/ Shutdown
    \/ Restart

Spec == Init /\ [][Next]_vars

-----------------------------------------------------------------------------
(* Properties.                                                             *)

TypeOK ==
    /\ alive \subseteq Res
    /\ nn \subseteq Res
    /\ written \subseteq {"rq_ring", "rq_dbr"}
    /\ calls \in Seq([op : OpKinds \ {"null"}, res : Res])
    /\ phase \in Phases
    /\ failedIn \in {"none"} \cup Range(Stages)
    /\ runs \in 1..MaxRuns
    /\ arg \in Args
    /\ device_name \in Seq(UNION {Range(a) : a \in Args})

\* the objects alive just before the i-th call of the step: those whose last
\* create or destroy among the earlier calls is a create, and the objects
\* alive before the step that none of those calls touched
AliveBefore(cs, i) ==
    LET touching(r) == {j \in 1..(i - 1) :
                          cs[j].res = r /\ cs[j].op \in {"create", "destroy"}}
    IN  {r \in Res : IF touching(r) = {} THEN r \in alive
                     ELSE cs[Max(touching(r))].op = "create"}

Needs(c) == IF c.op = "create" THEN Dep(c.res) ELSE WriteNeeds(c.res)

(* Every driver call that creates an object from other handles, or writes  *)
(* a device buffer, finds those handles alive: no queue before its CQ, no  *)
(* mkey over a freed buffer, no descriptor before its mkey, no steering    *)
(* action before the queue it forwards to (spec.md 3 (a)-(c)).  Spans the  *)
(* stages, so it also covers the coordinator's order and a restart that    *)
(* reuses app_cfg.                                                         *)
UsesOnlyLiveHandles ==
    [][\A i \in 1..Len(calls') :
         calls'[i].op \in {"create", "write"} =>
             Needs(calls'[i]) \subseteq AliveBefore(calls', i)]_vars

(* No handle is destroyed or freed twice: every destroy call of a step     *)
(* finds its object alive (the NULL checks of the destroy paths).          *)
NoDoubleDestroy ==
    [][\A i \in 1..Len(calls') :
         calls'[i].op = "destroy" =>
             calls'[i].res \in AliveBefore(calls', i)]_vars

(* Teardown mirrors creation: an object is destroyed only after every      *)
(* object created from it (spec.md 3 (d), 4.5).                            *)
DestroyAfterDependents ==
    [][\A i \in 1..Len(calls') :
         calls'[i].op = "destroy" =>
             \A d \in Res : calls'[i].res \in Dep(d) =>
                 d \notin AliveBefore(calls', i)]_vars

(* A provisioning function that fails leaves none of the objects it        *)
(* created alive (spec.md 4.3 ordering contract, 7, 8.4).                  *)
FailedStageRollsBack ==
    [][(phase \in Range(Stages) /\ phase' = "unwinding") =>
         \A c \in Range(calls') : c.op = "create" => c.res \notin alive']_vars

(* Traffic is steered only into a ready queue: while the ingress rule      *)
(* exists its RQ, CQ and data mkey exist and the RQ ring and doorbell have *)
(* been written; while the egress root rule exists the secondary table's   *)
(* port rule exists too (spec.md 5 ordering barrier).                      *)
SteeringBarrier ==
    /\ "rx_drrule" \in alive =>
         /\ {"rq", "rq_cq", "rqd_mkey", "rqd"} \subseteq alive
         /\ {"rq_ring", "rq_dbr"} \subseteq written
    /\ "tx_root_drrule" \in alive => "tx_drrule" \in alive

(* The device the reflector opens is the one the user named: a name that  *)
(* fits app_cfg->device_name with its terminator is copied whole by       *)
(* device_callback (strnlen, then strlcpy with len + 1), one that does    *)
(* not is refused (spec.md 7 InvalidValue) rather than cut short or       *)
(* written past the buffer, and l2_reflector_open_ibv_device looks up     *)
(* that name.                                                             *)
DeviceNameAsGiven ==
    /\ Len(device_name) < NameSize
    /\ phase \notin Configuring => device_name = arg


-----------------------------------------------------------------------------
(* The lifecycle as ResourceGraph states it: the coordinator's phase is    *)
(* its mode and completed stages, the objects alive are the objects held,  *)
(* and each stage owns the objects its provisioning function keeps.        *)

StageOwned == [ibv       |-> {"ctx", "pd"},
               device    |-> {"process", "eh"},
               resources |-> SqRes \cup RqRes \cup BlockRes,
               rx        |-> RxRes,
               tx        |-> TxRes]

(* What an unwind leaves: after a failing stage and the ladder of the      *)
(* completed stages' destroy functions, nothing survives but what the     *)
(* failing stage itself kept and the device context and FlexIO process,   *)
(* which only l2_reflector_destroy releases (l2_reflector_ibv_device_destroy *)
(* and l2_reflector_device_destroy, lines 936-951).                        *)
UnwindLeavesOnlyContextAndProcess ==
    phase = "failed" =>
        alive \subseteq {"ctx", "process"} \cup StageOwned[failedIn]

AbsMode == CASE phase \in Range(Stages) \cup Configuring -> "provisioning"
             [] phase \in {"unwinding", "failed"}  -> phase
             [] phase \in {"running", "stopped"}   -> phase

AbsDone == CASE phase \in Configuring               -> 0
             [] phase \in Range(Stages)            -> StageIndex(phase) - 1
             [] phase \in {"unwinding", "failed"}  -> StageIndex(failedIn) - 1
             [] phase \in {"running", "stopped"}   -> Len(Stages)

Abstract == INSTANCE ResourceGraph
                WITH Stages <- Stages, Owned <- StageOwned,
                     mode <- AbsMode, done <- AbsDone, held <- alive

(* The code implements the lifecycle contract of spec.md 4.6, 7 and 8.3:   *)
(* each provisioning function that succeeds leaves exactly its own objects *)
(* (its staging buffers freed, nothing of another stage touched); one     *)
(* that fails leaves nothing of another stage; the unwind ladder only     *)
(* releases; l2_reflector_destroy leaves nothing; and a restart starts    *)
(* from nothing.                                                           *)
ImplementsResourceGraph == Abstract!Spec

=============================================================================
