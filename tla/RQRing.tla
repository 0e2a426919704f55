------------------------------- MODULE RQRing -------------------------------
(***************************************************************************)
(* The receive ring of the L2 reflector (allocate_rq, allocate_cq_memory,  *)
(* create_dpa_mkey and init_dpa_rq_ring in                                 *)
(* src/applications/l2_reflector/src/host/l2_reflector_core.c), down to    *)
(* the contents they write: the CQE ownership bits, the RQ descriptors,    *)
(* the memory key over the data buffer and the doorbell counters.  The NIC *)
(* then takes the posted descriptors in ring order.                        *)
(*                                                                         *)
(* The code sizes these objects with two compile-time constants,           *)
(* L2_LOG_CQ_RING_DEPTH and L2_LOG_RQ_RING_DEPTH (defined in a header that *)
(* is not in the repository), and L2_LOG_WQ_DATA_ENTRY_BSIZE; Configs is   *)
(* the set of their values to check.                                       *)
(***************************************************************************)
EXTENDS Naturals, Sequences

CONSTANTS
    Configs,    \* records [logCq, logRq, logChunk] of the three constants
    DataAddr,   \* the device address flexio_buf_dev_alloc returns for data
    MkeyId      \* the id flexio_mkey_get_id returns for the data mkey

VARIABLES
    step,       \* the next step of allocate_rq
    cfg,        \* the constants of this build
    cq,         \* cq[i]: ownership bit of CQE i of the RQ's CQ ring
    cqLogTold,  \* rq_cq_transf.log_cq_depth, as the device program reads it
    dataLen,    \* bytes of the RQ data buffer
    ringCap,    \* descriptors the RQ ring allocation holds
    mkey,       \* the data mkey: [addr, len, id]
    ring,       \* ring[i]: descriptor i as written to the RQ ring
    dbr,        \* the RQ doorbell record <<receive counter, send counter>>
    consumed    \* descriptors the NIC has taken

vars == <<step, cfg, cq, cqLogTold, dataLen, ringCap, mkey, ring, dbr, consumed>>

LOG2VALUE(l) == 2^l
\* the doorbell counters are 16 bits wide
Mask16(x) == x % 2^16

-----------------------------------------------------------------------------
(* The pure parts, as operators.                                           *)

\* mutant: the initialisation loop runs one CQE too far
allocate_cq_memory_overrun(logDepth) ==
    [i \in 0..LOG2VALUE(logDepth) |-> 1]

\* allocate_cq_memory: 2^log_depth CQEs, each with its owner bit set to 1
allocate_cq_memory(logDepth) ==
    [i \in 0..(LOG2VALUE(logDepth) - 1) |-> 1]

\* create_dpa_mkey: a key over 2^log_bsize bytes from daddr
create_dpa_mkey(daddr, logBsize, id) ==
    [addr |-> daddr, len |-> LOG2VALUE(logBsize), id |-> id]

\* mutant: data_daddr is not advanced after each descriptor
init_dpa_rq_ring_same_chunk(logDepth, dataAddr, logChunk, mkeyId) ==
    [i \in 0..(LOG2VALUE(logDepth) - 1) |->
        [addr |-> dataAddr, len |-> LOG2VALUE(logChunk), lkey |-> mkeyId]]

\* init_dpa_rq_ring: descriptor i covers chunk i of the data buffer
init_dpa_rq_ring(logDepth, dataAddr, logChunk, mkeyId) ==
    [i \in 0..(LOG2VALUE(logDepth) - 1) |->
        [addr |-> dataAddr + i * LOG2VALUE(logChunk),
         len  |-> LOG2VALUE(logChunk),
         lkey |-> mkeyId]]

\* The reference (spec.md 8.2): count descriptors, the first at base and
\* each next one chunk further on, all with the same key.
RECURSIVE ReceiveDescriptors(_, _, _, _)
ReceiveDescriptors(base, chunk, count, key) ==
    IF count = 0 THEN <<>>
    ELSE <<[addr |-> base, len |-> chunk, lkey |-> key]>>
            \o ReceiveDescriptors(base + chunk, chunk, count - 1, key)

-----------------------------------------------------------------------------
(* allocate_rq, the steps that size and fill the ring.                     *)

\* allocate_cq_memory for the RQ's CQ and flexio_cq_create with
\* L2_LOG_CQ_RING_DEPTH; the depth handed to the device is the RQ's
AllocateRqCq ==
    /\ step = "cq"
    /\ cq' = allocate_cq_memory(cfg.logCq)
    /\ cqLogTold' = cfg.logRq
    /\ step' = "buffers"
    /\ UNCHANGED <<cfg, dataLen, ringCap, mkey, ring, dbr, consumed>>

\* mutant: the data buffer is sized by the ring depth alone
AllocateRqBuffers_no_chunk ==
    /\ step = "buffers"
    /\ dataLen' = LOG2VALUE(cfg.logRq)
    /\ ringCap' = LOG2VALUE(cfg.logCq)
    /\ mkey' = create_dpa_mkey(DataAddr, cfg.logRq, MkeyId)
    /\ step' = "ring"
    /\ UNCHANGED <<cfg, cq, cqLogTold, ring, dbr, consumed>>

\* the data buffer of 2^log_rqd_bsize bytes, the ring allocation sized by
\* L2_LOG_CQ_RING_DEPTH descriptors, and the mkey over the data buffer
AllocateRqBuffers ==
    /\ step = "buffers"
    /\ LET log_rqd_bsize == cfg.logRq + cfg.logChunk
       IN  /\ dataLen' = LOG2VALUE(log_rqd_bsize)
           /\ mkey' = create_dpa_mkey(DataAddr, log_rqd_bsize, MkeyId)
    /\ ringCap' = LOG2VALUE(cfg.logCq)
    /\ step' = "ring"
    /\ UNCHANGED <<cfg, cq, cqLogTold, ring, dbr, consumed>>

\* init_dpa_rq_ring, called with L2_LOG_CQ_RING_DEPTH
InitRqRing ==
    /\ step = "ring"
    /\ ring' = init_dpa_rq_ring(cfg.logCq, DataAddr, cfg.logChunk, mkey.id)
    /\ step' = "dbr"
    /\ UNCHANGED <<cfg, cq, cqLogTold, dataLen, ringCap, mkey, dbr, consumed>>

\* rcv_counter: the receive counter that primes the doorbell
RcvCounter == LOG2VALUE(cfg.logRq)

\* the doorbell record posts every descriptor of the RQ, each counter
\* masked to 16 bits
PrimeDbr ==
    /\ step = "dbr"
    /\ dbr' = <<Mask16(RcvCounter), Mask16(0)>>
    /\ step' = "ready"
    /\ UNCHANGED <<cfg, cq, cqLogTold, dataLen, ringCap, mkey, ring, consumed>>

\* the NIC takes the next posted descriptor of the RQ, created with
\* L2_LOG_RQ_RING_DEPTH entries, in ring order
NicReceive ==
    /\ step = "ready"
    /\ consumed < dbr[1]
    /\ consumed' = consumed + 1
    /\ UNCHANGED <<step, cfg, cq, cqLogTold, dataLen, ringCap, mkey, ring, dbr>>

Init ==
    /\ step = "cq"
    /\ cfg \in Configs
    /\ cq = <<>>
    /\ cqLogTold = 0
    /\ dataLen = 0
    /\ ringCap = 0
    /\ mkey = create_dpa_mkey(0, 0, 0)
    /\ ring = <<>>
    /\ dbr = <<0, 0>>
    /\ consumed = 0

Next == AllocateRqCq \/ AllocateRqBuffers \/ InitRqRing \/ PrimeDbr \/ NicReceive

Spec == Init /\ [][Next]_vars

-----------------------------------------------------------------------------
(* Properties.                                                             *)

TypeOK ==
    /\ step \in {"cq", "buffers", "ring", "dbr", "ready"}
    /\ cfg \in Configs
    /\ step # "cq" => cq \in [0..(LOG2VALUE(cfg.logCq) - 1) -> {0, 1}]
    /\ dbr \in (0..(2^16 - 1)) \X (0..(2^16 - 1))
    /\ consumed \in Nat

\* slot s of the RQ as the NIC reads it
Slot(k) == k % LOG2VALUE(cfg.logRq)

(* Every descriptor the NIC takes lies inside the ring allocation and     *)
(* points at a chunk inside both the data buffer and the memory key that  *)
(* covers it: the ring allocation and init_dpa_rq_ring use the CQ depth,  *)
(* the RQ and its doorbell the RQ depth, the buffer and mkey the RQ depth *)
(* and chunk size.                                                         *)
ReceiveInBounds ==
    \A k \in 0..(consumed - 1) :
        LET s == Slot(k)
        IN  /\ s < ringCap
            /\ s \in DOMAIN ring
            /\ ring[s].lkey = mkey.id
            /\ mkey.addr <= ring[s].addr
            /\ ring[s].addr + ring[s].len <= mkey.addr + mkey.len
            /\ ring[s].addr + ring[s].len <= DataAddr + dataLen

(* Once allocate_rq has primed the doorbell, the RQ is what spec.md 8.1   *)
(* and 8.2 say: the CQ has 2^depth CQEs all owned by hardware and the     *)
(* device is told that depth; the ring holds exactly the reference        *)
(* descriptors for the RQ's depth; the doorbell posts all of them and no  *)
(* send.                                                                   *)
RingMatchesReference ==
    step = "ready" =>
        LET N   == LOG2VALUE(cfg.logRq)
            ref == ReceiveDescriptors(DataAddr, LOG2VALUE(cfg.logChunk), N, MkeyId)
        IN  /\ DOMAIN cq = 0..(LOG2VALUE(cqLogTold) - 1)
            /\ \A i \in DOMAIN cq : cq[i] = 1
            /\ DOMAIN ring = 0..(N - 1)
            /\ \A i \in 0..(N - 1) : ring[i] = ref[i + 1]
            /\ dbr = <<N, 0>>

=============================================================================
