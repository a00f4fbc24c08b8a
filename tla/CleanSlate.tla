----------------------------- MODULE CleanSlate ------------------------------
(***************************************************************************)
(* What a restart promises (src/main.rs, src/firecracker/orphan.rs): while *)
(* no process serves, nothing new appears on the host, and a process only  *)
(* begins to serve once nothing of the machines of its predecessors is     *)
(* left.  Startup takes a start apart into its steps, VmLifecycle takes it *)
(* as one; both implement this.                                            *)
(***************************************************************************)
VARIABLES
  alive,  \* whether a process serves
  left    \* what is on the host of machines

SlateInit == ~alive \/ left = {}

(* A process makes and removes what it likes, and ends however it ends. *)
Serve == alive

(* Processes end by themselves, and starts sweep; they may fail half way.  *)
Shrink == ~alive /\ ~alive' /\ left' \subseteq left

Boot == ~alive /\ alive' /\ left' = {}

SlateNext == Serve \/ Shrink \/ Boot

SlateSpec == SlateInit /\ [][SlateNext]_<<alive, left>>
=============================================================================
