--------------------------- MODULE MCVmLifecycle ----------------------------
(***************************************************************************)
(* Instances of VmLifecycle for TLC.                                       *)
(***************************************************************************)
EXTENDS VmLifecycle, TLC

CONSTANTS v1, v2, v3

(* The smallest size by default, a bigger one, and an odd vCPU count.      *)
SmallRequest   == [vcpus |-> {}, memory_mb |-> {}]
LargeRequest   == [vcpus |-> {2}, memory_mb |-> {130}]
InvalidRequest == [vcpus |-> {3}, memory_mb |-> {128}]

HeavyRequest   == [vcpus |-> {}, memory_mb |-> {300}]
MCRequests == {SmallRequest, LargeRequest, HeavyRequest, InvalidRequest}

MCFewRequests == {SmallRequest, LargeRequest}

MCOneRequest == {LargeRequest}

Symmetry == Permutations(Vm)
=============================================================================
