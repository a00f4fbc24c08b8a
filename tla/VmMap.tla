------------------------------- MODULE VmMap --------------------------------
(***************************************************************************)
(* What the rest of the program may rely on about the machines of one      *)
(* Warlock process: the life of a Uuid in `AppState::vms`, the lock of     *)
(* that map, and the Firecracker process behind the entry.  VmLifecycle    *)
(* implements it; SshConsole reads the map through it.                     *)
(*                                                                         *)
(* A Uuid is entered once, as a placeholder, becomes running once, leaves  *)
(* the map once and never comes back; its process is started at most once. *)
(***************************************************************************)
CONSTANT Vm      \* Uuids

VARIABLES
  life,    \* the entry of each machine: not yet, placeholder, running, no more
  locked,  \* whether the lock of the map is held over several steps
  proc     \* the Firecracker process of each machine

mapVars == <<life, locked, proc>>

MapTypeOK ==
  /\ life \in [Vm -> {"new", "creating", "running", "gone"}]
  /\ locked \in BOOLEAN
  /\ proc \in [Vm -> {"none", "up", "ended"}]

MapInit ==
  /\ life = [v \in Vm |-> "new"]
  /\ locked = FALSE
  /\ proc = [v \in Vm |-> "none"]

(* A create is given up before its placeholder; a 409 keeps the lock for   *)
(* the rollback.                                                           *)
Forget(v) ==
  /\ life[v] = "new"
  /\ life' = [life EXCEPT ![v] = "gone"]
  /\ proc' = [proc EXCEPT ![v] = "ended"]
  /\ locked' \in BOOLEAN
  /\ locked => locked'

Enter(v) ==
  /\ ~locked
  /\ life[v] = "new"
  /\ life' = [life EXCEPT ![v] = "creating"]
  /\ UNCHANGED <<locked, proc>>

(* The process starts while the create waits for no lock; an abort may     *)
(* have taken the placeholder out in the meantime.                         *)
Start(v) ==
  /\ life[v] \in {"creating", "gone"}
  /\ proc[v] = "none"
  /\ proc' = [proc EXCEPT ![v] = "up"]
  /\ UNCHANGED <<life, locked>>

Run(v) ==
  /\ ~locked
  /\ life[v] = "creating"
  /\ proc[v] # "none"
  /\ life' = [life EXCEPT ![v] = "running"]
  /\ UNCHANGED <<locked, proc>>

(* An entry is taken out under the lock, which may be kept for the         *)
(* teardown: DELETE, the error path of a create, a dropped guard, the      *)
(* drain at shutdown.                                                      *)
Remove(v) ==
  /\ life[v] \in {"creating", "running"}
  /\ life' = [life EXCEPT ![v] = "gone"]
  /\ locked' \in BOOLEAN
  /\ locked => locked'
  /\ UNCHANGED proc

(* Processes end: stopped, dropped, swept or by themselves.  A teardown    *)
(* that is cut short lets go of the lock in the same step.                 *)
End ==
  /\ \E E \in (SUBSET Vm) \ {{}} : proc' = [v \in Vm |-> IF v \in E THEN "ended" ELSE proc[v]]
  /\ locked' \in BOOLEAN
  /\ locked' => locked
  /\ UNCHANGED life

Acquire == ~locked /\ locked' = TRUE /\ UNCHANGED <<life, proc>>

Unlock == locked /\ locked' = FALSE /\ UNCHANGED <<life, proc>>

(* The process exits or dies: the map is forgotten, and Firecracker        *)
(* processes may be left.                                                  *)
Exit ==
  /\ life' \in [Vm -> {"new", "gone"}]
  /\ \A v \in Vm : life'[v] = "new" => life[v] = "new"
  /\ \E E \in SUBSET Vm : proc' = [v \in Vm |-> IF v \in E THEN "ended" ELSE proc[v]]
  /\ locked' = FALSE

(* What happens to the map while the process lives. *)
MapStep ==
  \/ \E v \in Vm : Forget(v) \/ Enter(v) \/ Start(v) \/ Run(v) \/ Remove(v)
  \/ End \/ Acquire \/ Unlock

MapNext == MapStep \/ Exit

MapSpec == MapInit /\ [][MapNext]_mapVars
=============================================================================
