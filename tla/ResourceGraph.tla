---------------------------- MODULE ResourceGraph ----------------------------
(***************************************************************************)
(* What the L2 reflector's LifecycleCoordinator promises (spec.md 4.6, 7,  *)
(* 8.3), with no driver call in sight: provisioning runs its stages in     *)
(* order; a stage that succeeds adds exactly the objects it owns; a stage  *)
(* that fails adds none of another stage's; the unwind after a failure     *)
(* only releases; a teardown of a running reflector leaves nothing, and    *)
(* the caller may then provision again from scratch.                       *)
(*                                                                         *)
(* What a failing stage leaves of its own objects is not fixed here: the   *)
(* code does not always roll a stage back (the sq_rollback run).  Nor is   *)
(* what the unwind leaves: the caller that runs it is not in the          *)
(* repository, and the per-stage destroy functions it would use do not    *)
(* close the device context or destroy the process.                        *)
(***************************************************************************)
EXTENDS Naturals, Sequences

CONSTANTS
    Stages,     \* the provisioning stages, in order
    Owned       \* Owned[s]: the objects stage s creates and keeps

VARIABLES
    mode,       \* provisioning, unwinding, failed, running or stopped
    done,       \* how many stages have completed
    held        \* the objects that exist

N == Len(Stages)

Init ==
    /\ mode = "provisioning"
    /\ done = 0
    /\ held = {}

\* stage done+1 succeeds; after the last one the reflector runs
StageSucceeds ==
    /\ mode = "provisioning"
    /\ done < N
    /\ held' = held \cup Owned[Stages[done + 1]]
    /\ done' = done + 1
    /\ mode' = IF done + 1 = N THEN "running" ELSE "provisioning"

\* stage done+1 fails; only its own objects may be left over
StageFails ==
    /\ mode = "provisioning"
    /\ done < N
    /\ held' \subseteq held \cup Owned[Stages[done + 1]]
    /\ mode' = "unwinding"
    /\ UNCHANGED done

\* the caller undoes the completed stages, creating nothing
Unwind ==
    /\ mode = "unwinding"
    /\ held' \subseteq held
    /\ mode' = "failed"
    /\ UNCHANGED done

\* teardownAll of a running reflector
Teardown ==
    /\ mode = "running"
    /\ held' = {}
    /\ mode' = "stopped"
    /\ UNCHANGED done

\* after a clean teardown the caller may provision again
Reprovision ==
    /\ mode = "stopped"
    /\ mode' = "provisioning"
    /\ done' = 0
    /\ UNCHANGED held

Next == StageSucceeds \/ StageFails \/ Unwind \/ Teardown \/ Reprovision

Spec == Init /\ [][Next]_<<mode, done, held>>

=============================================================================
