------------------------------ MODULE MC_RQRing ------------------------------
(* Builds of the RQ ring: the depth constants and the chunk size.          *)
EXTENDS RQRing

\* the CQ and RQ depth constants agree (the assumption spec.md 9 names);
\* rings of 2 to 16 descriptors, chunks of 2 to 8 bytes
MC_EqualDepths ==
    {[logCq |-> d, logRq |-> d, logChunk |-> c] : d \in 1..4, c \in 1..3}
=============================================================================
