------------------------------- MODULE Gateway -------------------------------
(***************************************************************************)
(* What a worker reports to the gateway (src/gateway_client.rs), and when: *)
(* a create registers its machine after the upgrade, without the lock of   *)
(* `vms` (src/handlers/vm.rs); a delete deregisters it with the lock held; *)
(* the shutdown deregisters every entry before it drains the map           *)
(* (src/main.rs).  The resources of the machines are left to VmLifecycle:  *)
(* of a create only the placeholder and what follows it matters here.      *)
(*                                                                         *)
(* A call is an HTTP request with a timeout of 5 s whose failure is only   *)
(* logged.  The caller goes on when the call has been served, or refused,  *)
(* or when the time is up, and then the call may still be served later.    *)
(***************************************************************************)
EXTENDS Naturals, FiniteSets

CONSTANTS
  Vm,     \* Uuids that may be drawn; bounds the number of creates
  NoVm,   \* not a Uuid
  Faults  \* what may go wrong: handlers dropped, calls late or lost, crashes,
          \* an SSH server that stops

ASSUME GatewayAssumption ==
  NoVm \notin Vm /\ Faults \subseteq {"cancel", "net", "crash", "ssh"}

VARIABLES
  vms,       \* the map
  create,    \* where the create handler of each machine is
  holder,    \* who holds the lock of `vms` across steps
  victim,    \* the machine the holder is deleting or deregistering
  stage,     \* what it does with it
  todo,      \* keys that the shutdown has yet to deregister
  mode,      \* what main() is doing
  client,    \* whether AppState has a gateway client
  calls,     \* calls sent and not served
  registry,  \* external: the machines the gateway lists for this worker
  unsure     \* machines of which a report was not sent, or not served before
             \* its caller went on

callVars == <<calls, registry, unsure>>
lockVars == <<holder, victim, stage, todo>>
vars == <<vms, create, holder, victim, stage, todo, mode, client, calls, registry,
          unsure>>

Call == {"register", "deregister"} \X Vm

Entries == {v \in Vm : vms[v] # "absent"}

(* The keys still to be deregistered stay entries, by the lock.            *)
TypeOK ==
  /\ vms \in [Vm -> {"absent", "creating", "running"}]
  /\ create \in [Vm -> {"idle", "prepare", "setup", "report", "await", "done"}]
  /\ holder \in {"none", "delete", "shutdown"}
  /\ victim \in Vm \cup {NoVm}
  /\ stage \in {"none", "stop", "await"}
  /\ todo \subseteq Entries
  /\ mode \in {"serving", "draining", "closing", "aborting", "exiting", "exited"}
  /\ client \in BOOLEAN
  /\ calls \subseteq Call
  /\ registry \subseteq Vm
  /\ unsure \subseteq Vm
  /\ holder = "none" => victim = NoVm /\ stage = "none" /\ todo = {}

(* A worker that cannot register goes on without a client. *)
Clients == IF "net" \in Faults THEN BOOLEAN ELSE {TRUE}

Init ==
  /\ vms = [v \in Vm |-> "absent"]
  /\ create = [v \in Vm |-> "idle"]
  /\ holder = "none" /\ victim = NoVm /\ stage = "none" /\ todo = {}
  /\ mode = "serving"
  /\ client \in Clients
  /\ calls = {} /\ registry = {} /\ unsure = {}

(* Mutant: the lock does not exclude. *)
LockWithoutWaiting(who) == holder' = who

Lock(who) == holder = "none" /\ holder' = who

Unlock == holder' = "none" /\ victim' = NoVm /\ stage' = "none" /\ todo' = {}

-----------------------------------------------------------------------------
(* Calls. *)

Send(op, v) ==
  /\ calls' = IF client THEN calls \cup {<<op, v>>} ELSE calls
  /\ unsure' = IF client THEN unsure ELSE unsure \cup {v}
  /\ UNCHANGED registry

(* Mutant: no timeout. *)
NeverGivesUp(op, v) == <<op, v>> \notin calls /\ UNCHANGED callVars

(* The call was served, or it took too long. *)
GoesOn(op, v) ==
  /\ <<op, v>> \notin calls \/ "net" \in Faults
  /\ unsure' = IF <<op, v>> \in calls THEN unsure \cup {v} ELSE unsure
  /\ UNCHANGED <<calls, registry>>

(* A dropped caller's call is gone, or is on its way already. *)
CallDropped(op, v) ==
  /\ calls' \in {calls, calls \ {<<op, v>>}}
  /\ unsure' = unsure \cup {v}
  /\ UNCHANGED registry

(* The gateway serves a call. *)
Serve(op, v) ==
  /\ <<op, v>> \in calls
  /\ calls' = calls \ {<<op, v>>}
  /\ registry' = IF op = "register" THEN registry \cup {v} ELSE registry \ {v}
  /\ UNCHANGED <<vms, create, lockVars, mode, client, unsure>>

(* The call never gets there, or is answered with an error. *)
Lose(op, v) ==
  /\ "net" \in Faults
  /\ <<op, v>> \in calls
  /\ calls' = calls \ {<<op, v>>} /\ unsure' = unsure \cup {v}
  /\ UNCHANGED <<vms, create, lockVars, mode, client, registry>>

-----------------------------------------------------------------------------
(* POST /vm. *)

CreateBegin(v) ==
  /\ mode \in {"serving", "aborting"}
  /\ create[v] = "idle" /\ create' = [create EXCEPT ![v] = "prepare"]
  /\ UNCHANGED <<vms, lockVars, mode, client, callVars>>

Reserve(v) ==
  /\ holder = "none"
  /\ create[v] = "prepare" /\ create' = [create EXCEPT ![v] = "setup"]
  /\ vms' = [vms EXCEPT ![v] = "creating"]
  /\ UNCHANGED <<lockVars, mode, client, callVars>>

(* Whatever ends a create before its placeholder. *)
PrepareFails(v) ==
  /\ create[v] = "prepare" /\ create' = [create EXCEPT ![v] = "done"]
  /\ UNCHANGED <<vms, lockVars, mode, client, callVars>>

SetupFails(v) ==
  /\ holder = "none"
  /\ create[v] = "setup" /\ create' = [create EXCEPT ![v] = "done"]
  /\ vms' = [vms EXCEPT ![v] = "absent"]
  /\ UNCHANGED <<lockVars, mode, client, callVars>>

(* The machine is reported even if its placeholder was gone. *)
Upgrade(v) ==
  /\ holder = "none"
  /\ create[v] = "setup" /\ create' = [create EXCEPT ![v] = "report"]
  /\ vms' = [vms EXCEPT ![v] = IF @ = "creating" THEN "running" ELSE "absent"]
  /\ UNCHANGED <<lockVars, mode, client, callVars>>

(* Mutant: answers without waiting for the gateway. *)
RegisterInBackground(v) ==
  /\ create[v] = "report" /\ create' = [create EXCEPT ![v] = "done"]
  /\ Send("register", v)
  /\ UNCHANGED <<vms, lockVars, mode, client>>

Register(v) ==
  /\ create[v] = "report" /\ create' = [create EXCEPT ![v] = "await"]
  /\ Send("register", v)
  /\ UNCHANGED <<vms, lockVars, mode, client>>

Respond(v) ==
  /\ create[v] = "await" /\ create' = [create EXCEPT ![v] = "done"]
  /\ GoesOn("register", v)
  /\ UNCHANGED <<vms, lockVars, mode, client>>

(* The guard takes the placeholder out, unless the map is locked; after    *)
(* the upgrade it is defused.                                              *)
CancelCreate(v) ==
  /\ "cancel" \in Faults
  /\ create[v] \in {"setup", "report", "await"}
  /\ create' = [create EXCEPT ![v] = "done"]
  /\ \/ create[v] = "setup" /\ holder = "none" /\ vms' = [vms EXCEPT ![v] = "absent"]
     \/ UNCHANGED vms
  /\ CallDropped("register", v)
  /\ UNCHANGED <<lockVars, mode, client>>

-----------------------------------------------------------------------------
(* DELETE /vm/{id}. *)

DeleteBegin(v) ==
  /\ mode \notin {"closing", "exited"}
  /\ Lock("delete") /\ victim' = v /\ stage' = "stop"
  /\ vms[v] = "running" /\ vms' = [vms EXCEPT ![v] = "absent"]
  /\ UNCHANGED <<create, todo, mode, client, callVars>>

Deregister ==
  /\ stage = "stop" /\ stage' = "await"
  /\ Send("deregister", victim)
  /\ UNCHANGED <<vms, create, holder, victim, todo, mode, client>>

DeleteEnd ==
  /\ holder = "delete" /\ stage = "await"
  /\ GoesOn("deregister", victim)
  /\ Unlock
  /\ UNCHANGED <<vms, create, mode, client>>

CancelDelete ==
  /\ "cancel" \in Faults
  /\ holder = "delete"
  /\ Unlock
  /\ CallDropped("deregister", victim)
  /\ UNCHANGED <<vms, create, mode, client>>

-----------------------------------------------------------------------------
(* main(). *)

Signal ==
  /\ mode = "serving" /\ mode' = "draining"
  /\ UNCHANGED <<vms, create, lockVars, client, callVars>>

(* Mutant: the drain does not wait for creates that are being reported. *)
NoneSettingUp == holder = "none" /\ \A v \in Vm : create[v] \notin {"prepare", "setup"}

NoneInFlight == holder = "none" /\ \A v \in Vm : create[v] \in {"idle", "done"}

Drained ==
  /\ mode = "draining" /\ mode' = "closing"
  /\ NoneInFlight
  /\ UNCHANGED <<vms, create, lockVars, client, callVars>>

SshStopped ==
  /\ "ssh" \in Faults
  /\ mode \in {"serving", "draining"} /\ mode' = "aborting"
  /\ UNCHANGED <<vms, create, lockVars, client, callVars>>

ShutdownLock ==
  /\ mode \in {"closing", "aborting"}
  /\ Lock("shutdown")
  /\ todo' = Entries
  /\ UNCHANGED <<vms, create, victim, stage, mode, client, callVars>>

ShutdownDeregister(v) ==
  /\ holder = "shutdown" /\ stage = "none" /\ stage' = "await"
  /\ v \in todo /\ todo' = todo \ {v} /\ victim' = v
  /\ Send("deregister", v)
  /\ UNCHANGED <<vms, create, holder, mode, client>>

ShutdownGoesOn ==
  /\ holder = "shutdown" /\ stage = "await"
  /\ GoesOn("deregister", victim)
  /\ stage' = "none" /\ victim' = NoVm
  /\ UNCHANGED <<vms, create, holder, todo, mode, client>>

(* `vms.drain()` and the end of main().  The lock is free again for what   *)
(* the runtime has not dropped yet.                                        *)
ShutdownDone ==
  /\ holder = "shutdown" /\ stage = "none" /\ todo = {}
  /\ mode' = "exiting"
  /\ vms' = [v \in Vm |-> "absent"]
  /\ Unlock
  /\ UNCHANGED <<create, client, callVars>>

(* The machines that a dying process has a report of to make or to wait for. *)
Unreported ==
  Entries \cup {v \in Vm : create[v] \in {"report", "await"} \/ victim = v}

(* The process is gone, and perhaps its calls that were not on their way.  *)
Die ==
  /\ mode' = "exited"
  /\ vms' = [v \in Vm |-> "absent"]
  /\ create' = [v \in Vm |-> IF create[v] = "idle" THEN "idle" ELSE "done"]
  /\ Unlock
  /\ calls' \in SUBSET calls
  /\ unsure' = unsure \cup Unreported
  /\ UNCHANGED <<client, registry>>

Exit == mode = "exiting" /\ Die

Crash == "crash" \in Faults /\ mode # "exited" /\ Die

(* The worker registers itself; the machines of its predecessor are not    *)
(* touched.                                                                *)
Boot ==
  /\ mode = "exited" /\ mode' = "serving"
  /\ client' \in Clients
  /\ UNCHANGED <<vms, create, lockVars, callVars>>

-----------------------------------------------------------------------------
CreateStep(v) ==
  \/ Reserve(v) \/ PrepareFails(v) \/ SetupFails(v)
  \/ Upgrade(v) \/ Register(v) \/ Respond(v)

Shutdown == ShutdownGoesOn \/ ShutdownDone \/ Exit \/ \E v \in Vm : ShutdownDeregister(v)

Next ==
  \/ \E v \in Vm : CreateBegin(v) \/ CreateStep(v) \/ CancelCreate(v) \/ DeleteBegin(v)
  \/ \E op \in {"register", "deregister"}, v \in Vm : Serve(op, v) \/ Lose(op, v)
  \/ Deregister \/ DeleteEnd \/ CancelDelete
  \/ Signal \/ Drained \/ SshStopped \/ ShutdownLock \/ Shutdown \/ Crash \/ Boot

Spec == Init /\ [][Next]_vars

(* As in VmLifecycle.  The timeout makes a caller go on, whether or not    *)
(* the gateway ever serves a call; without lost calls it serves them.      *)
Fairness ==
  /\ \A v \in Vm : SF_vars(CreateStep(v))
  /\ WF_vars(Deregister \/ DeleteEnd)
  /\ SF_vars(Drained \/ ShutdownLock) /\ WF_vars(Shutdown)
  /\ "net" \notin Faults =>
       \A v \in Vm : WF_vars(Serve("register", v)) /\ WF_vars(Serve("deregister", v))

FairSpec == Spec /\ Fairness

-----------------------------------------------------------------------------
(* `When a VM is deleted, Warlock removes it from the gateway's registry`: *)
(* a machine that is gone, with no call or handler left that might still   *)
(* change it, is not listed.                                               *)
DeletedNotListed ==
  \A v \in Vm :
    create[v] = "done" /\ vms[v] = "absent" /\ victim # v /\ calls = {} => v \notin registry

(* The gateway finds every machine whose create was answered, until its    *)
(* delete or the shutdown gets to it: the answer waits for the gateway,    *)
(* and only a report that failed makes a difference.                       *)
RunningListed ==
  mode \in {"serving", "draining"} =>
    \A v \in Vm \ unsure : vms[v] = "running" /\ create[v] = "done" => v \in registry

(* Once the create of a running machine has been answered, no order of     *)
(* calls lists it again after it is gone, deleted or shut down, in this    *)
(* process or the next, unless one of its reports failed.  (When the SSH   *)
(* server stops, the shutdown may overtake the report of a create.)        *)
Settled(v) ==
  mode \in {"serving", "draining", "closing"} /\ vms[v] = "running" /\ create[v] = "done"

Unlisted(v) == vms[v] = "absent" /\ victim # v => v \notin registry \/ v \in unsure

LeavesOnceSettled(v) == [](Settled(v) => []Unlisted(v))

SettledMachinesLeave == \A v \in Vm : LeavesOnceSettled(v)

(* `Core VM management always works regardless of gateway availability`:   *)
(* a gateway that never answers neither keeps a delete, and with it the    *)
(* lock of the map, ...                                                    *)
DeleteAnswered == holder = "delete" ~> holder # "delete"

(* ... nor a create, ...                                                   *)
CreateAnswered == \A v \in Vm : create[v] # "idle" ~> create[v] = "done"

(* ... nor the shutdown, which makes one call for every machine.           *)
ShutdownCompletes == mode = "draining" ~> mode = "exited"
=============================================================================
