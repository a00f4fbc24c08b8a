---------------------------- MODULE VmLifecycle -----------------------------
(***************************************************************************)
(* The life of a virtual machine: POST /vm and DELETE /vm/{id}             *)
(* (src/handlers/vm.rs), the teardown at shutdown (src/main.rs) and the    *)
(* sweep at startup (src/firecracker/orphan.rs), over the state they       *)
(* share: the `vms` map and the subnet pool, both behind tokio mutexes,    *)
(* and what they leave on the host: rootfs copies, tap devices, nftables   *)
(* rules and Firecracker processes.                                        *)
(*                                                                         *)
(* Every create request draws a fresh Uuid, so a machine stands for the    *)
(* one request that creates it, and pc[v] is where that handler is.        *)
(* Handlers interleave at every await.  A critical section of `vms` that   *)
(* awaits nothing is one step; the ones that await, or that run commands   *)
(* on the host one after another, hold the lock over several steps.        *)
(* Requests that change nothing (GET /vm/{id} of a machine that is not     *)
(* running, a DELETE answered 404 or 409) are stuttering steps.            *)
(***************************************************************************)
EXTENDS SubnetPool, VmConfig

CONSTANTS
  Vm,          \* Uuids that may be drawn; bounds the number of creates
  NoVm,        \* not a Uuid
  Requests,    \* bodies of POST /vm that clients send
  HostCores,   \* what available_parallelism() returns
  HostMemory,  \* Capacity::memory_mb
  Faults       \* what may go wrong in the environment, see FaultKind

(* cancel: a handler's future is dropped at an await (the client hung up,  *)
(*         or the handler panicked);                                       *)
(* cmd:    a host command (cp, chown, ip, nft, pkill) fails;               *)
(* exit:   a Firecracker process ends by itself (the guest powered off);   *)
(* crash:  the Warlock process dies;                                       *)
(* ssh:    the SSH server cannot bind, or ends when an accept fails.       *)
FaultKind == {"cancel", "cmd", "exit", "crash", "ssh"}

ASSUME ConstantsAssumption ==
  /\ NoVm \notin Vm
  /\ IsFiniteSet(Vm)
  /\ Requests \subseteq Request
  /\ HostCores \in Nat \ {0}
  /\ HostMemory \in Nat
  /\ Faults \subseteq FaultKind

NoSlot == -1

Chains == {"postrouting", "filter"}

Defaults == [vcpus |-> DEFAULT_VCPUS, memory_mb |-> DEFAULT_MEMORY_MB]

VARIABLES
  pc,       \* where the create handler of each machine is
  size,     \* the resolved size of each machine
  slot,     \* the subnet index held in locals, then in VmResources
  dropped,  \* handlers whose future is gone while their blocking job runs
  vms,      \* the map: "absent", "creating" or "running" for each Uuid
  pool,     \* the subnet bitmap
  holder,   \* who holds the lock of `vms` across steps
  victim,   \* the machine the holder is tearing down
  stage,    \* the next step of that teardown
  mode,     \* what main() is doing
  taps,     \* tap devices on the host, by subnet index
  rules,    \* nftables rules on the host: a machine and a chain
  rootfs,   \* machines whose rootfs copy is on disk
  procs     \* machines whose Firecracker process runs

handlerVars == <<pc, size, slot, dropped>>
lockVars    == <<holder, victim, stage>>
netVars     == <<taps, rules>>
hostVars    == <<taps, rules, rootfs, procs>>
vars == <<pc, size, slot, dropped, vms, pool, holder, victim, stage, mode,
          taps, rules, rootfs, procs>>

PC == {"idle", "copy", "alloc", "tap", "nat", "netfail", "reserve",
       "rejecting", "setup", "configure", "upgrade", "error", "cleaning",
       "guard", "done"}

Stage == {"none", "stop", "tap", "nat", "release", "rootfs"}

TypeOK ==
  /\ pc \in [Vm -> PC]
  /\ size \in [Vm -> Size]
  /\ slot \in [Vm -> Index \cup {NoSlot}]
  /\ dropped \subseteq Vm
  /\ vms \in [Vm -> {"absent", "creating", "running"}]
  /\ pool \in Pool
  /\ holder \in {"none", "reader", "reject", "error", "delete", "shutdown"}
  /\ victim \in Vm \cup {NoVm}
  /\ stage \in Stage
  /\ mode \in {"serving", "draining", "closing", "aborting", "exiting",
               "exited"}
  /\ taps \subseteq Index
  /\ rules \subseteq Vm \X Chains
  /\ rootfs \subseteq Vm
  /\ procs \subseteq Vm

Init ==
  /\ pc = [v \in Vm |-> "idle"]
  /\ size = [v \in Vm |-> Defaults]
  /\ slot = [v \in Vm |-> NoSlot]
  /\ dropped = {}
  /\ vms = [v \in Vm |-> "absent"]
  /\ pool = FreshPool
  /\ holder = "none" /\ victim = NoVm /\ stage = "none"
  /\ mode = "serving"
  /\ taps = {} /\ rules = {} /\ rootfs = {} /\ procs = {}

-----------------------------------------------------------------------------
(* Helpers. *)

RulesOf(v) == {v} \X Chains

(* What best-effort removal may leave of S: a failing command is logged    *)
(* and the item stays.                                                     *)
Without(S, T) == IF "cmd" \in Faults THEN {S \ X : X \in SUBSET T} ELSE {S \ T}

GoTo(v, label) == pc' = [pc EXCEPT ![v] = label]

Goes(v, from, to) == pc[v] = from /\ GoTo(v, to)

Unlock == holder' = "none" /\ victim' = NoVm /\ stage' = "none"

(* Mutant: the lock does not exclude. *)
LockWithoutWaiting(who, v, first) == holder' = who /\ victim' = v /\ stage' = first

Lock(who, v, first) ==
  /\ holder = "none"
  /\ holder' = who /\ victim' = v /\ stage' = first

(* Mutant: placeholders are not counted. *)
RunningEntries == {v \in Vm : vms[v] = "running"}

(* The sums in `create`: a unit for every vCPU (MB) of every entry of the  *)
(* map, creating or running.                                               *)
Entries == {v \in Vm : vms[v] # "absent"}

Units(E, amount) == UNION {{v} \X (1 .. amount[v]) : v \in E}

AllocatedVcpus  == Cardinality(Units(Entries, [v \in Vm |-> size[v].vcpus]))
AllocatedMemory == Cardinality(Units(Entries, [v \in Vm |-> size[v].memory_mb]))

(* Capacity::vcpus *)
HostVcpus == TotalCpus(HostCores)

AvailableVcpus  == SaturatingSub(HostVcpus, WrapU8(AllocatedVcpus))
AvailableMemory == SaturatingSub(AllocatableMemory(HostMemory), AllocatedMemory)

HasCapacity(v) ==
  /\ size[v].vcpus <= AvailableVcpus
  /\ size[v].memory_mb <= AvailableMemory

-----------------------------------------------------------------------------
(* POST /vm up to the placeholder: no lock of `vms` is taken.              *)

(* A body that does not validate is answered 422 at once. *)
CreateBegin(v) ==
  /\ mode \in {"serving", "aborting"}
  /\ \E req \in Requests :
       IF IsValid(Resolve(req))
         THEN Goes(v, "idle", "copy") /\ size' = [size EXCEPT ![v] = Resolve(req)]
         ELSE Goes(v, "idle", "done") /\ UNCHANGED size
  /\ UNCHANGED <<slot, dropped, vms, pool, lockVars, mode, hostVars>>

(* The end of a blocking job: its handler goes on, if it still exists. *)
JobEnds(v, from, to) ==
  /\ Goes(v, from, IF v \in dropped THEN "done" ELSE to)
  /\ dropped' = dropped \ {v}

CopyRootfs(v) ==
  /\ JobEnds(v, "copy", "alloc")
  /\ rootfs' = rootfs \cup {v}
  /\ UNCHANGED <<size, slot, vms, pool, lockVars, mode, netVars, procs>>

(* cp or chown failed; a failed chown leaves the copy behind. *)
CopyRootfsFails(v) ==
  /\ "cmd" \in Faults
  /\ JobEnds(v, "copy", "done")
  /\ rootfs' \in {rootfs, rootfs \cup {v}}
  /\ UNCHANGED <<size, slot, vms, pool, lockVars, mode, netVars, procs>>

AllocateSubnet(v) ==
  /\ \/ \E i \in Index :
          /\ IsFirstFree(pool, i)
          /\ Goes(v, "alloc", "tap")
          /\ pool' = [pool EXCEPT ![i] = TRUE]
          /\ slot' = [slot EXCEPT ![v] = i]
     \/ /\ IsExhausted(pool)
        /\ Goes(v, "alloc", "done")
        /\ UNCHANGED <<pool, slot>>
  /\ UNCHANGED <<size, dropped, vms, lockVars, mode, hostVars>>

(* One blocking job runs `create_tap` and then `add_nat_rules`. *)
CreateTap(v) ==
  /\ Goes(v, "tap", "nat")
  /\ slot[v] \notin taps
  /\ taps' = taps \cup {slot[v]}
  /\ UNCHANGED <<size, slot, dropped, vms, pool, lockVars, mode, rules, rootfs, procs>>

(* `ip tuntap add` refuses a name that exists.  A later command that fails *)
(* deletes the device again, or fails to.                                  *)
CreateTapFails(v) ==
  /\ JobEnds(v, "tap", "netfail")
  /\ \/ slot[v] \in taps /\ UNCHANGED taps
     \/ "cmd" \in Faults /\ taps' \in {taps, taps \cup {slot[v]}}
  /\ UNCHANGED <<size, slot, vms, pool, lockVars, mode, rules, rootfs, procs>>

AddNatRules(v) ==
  /\ JobEnds(v, "nat", "reserve")
  /\ rules' = rules \cup RulesOf(v)
  /\ UNCHANGED <<size, slot, vms, pool, lockVars, mode, taps, rootfs, procs>>

(* nft fails, or prints no handle that can be parsed: a rule whose handle  *)
(* is not known stays, and so does one whose rollback fails.               *)
AddNatRulesFails(v) ==
  /\ "cmd" \in Faults
  /\ JobEnds(v, "nat", "netfail")
  /\ \E left \in {{}, {"postrouting"}, Chains} : rules' = rules \cup ({v} \X left)
  /\ taps' \in Without(taps, {slot[v]})
  /\ UNCHANGED <<size, slot, vms, pool, lockVars, mode, rootfs, procs>>

ReleaseFailedSubnet(v) ==
  /\ Goes(v, "netfail", "done")
  /\ pool' = Release(pool, slot[v])
  /\ UNCHANGED <<size, slot, dropped, vms, lockVars, mode, hostVars>>

(* The capacity check and the placeholder are one critical section. *)
Reserve(v) ==
  /\ holder = "none"
  /\ HasCapacity(v)
  /\ Goes(v, "reserve", "setup")
  /\ vms' = [vms EXCEPT ![v] = "creating"]
  /\ UNCHANGED <<size, slot, dropped, pool, lockVars, mode, hostVars>>

(* 409: the networking is rolled back with the lock held; the rootfs copy  *)
(* stays.                                                                  *)
Reject(v) ==
  /\ ~HasCapacity(v)
  /\ Goes(v, "reserve", "rejecting")
  /\ Lock("reject", v, "nat")
  /\ UNCHANGED <<size, slot, dropped, vms, pool, mode, hostVars>>

-----------------------------------------------------------------------------
(* POST /vm after the placeholder: the setup runs without the lock.        *)

StartVmm(v) ==
  /\ Goes(v, "setup", "configure")
  /\ procs' = procs \cup {v}
  /\ UNCHANGED <<size, slot, dropped, vms, pool, lockVars, mode, netVars, rootfs>>

(* The PUTs that configure and start the guest. *)
Configure(v) ==
  /\ Goes(v, "configure", "upgrade")
  /\ UNCHANGED <<size, slot, dropped, vms, pool, lockVars, mode, hostVars>>

(* Any of these calls may fail; the Instance is dropped with its future. *)
SetupFails(v) ==
  /\ Goes(v, "setup", "error") \/ Goes(v, "configure", "error")
  /\ procs' = procs \ {v}
  /\ UNCHANGED <<size, slot, dropped, vms, pool, lockVars, mode, netVars, rootfs>>

(* Mutant: the error path returns without taking the placeholder out. *)
CreateErrorForgetsEntry(v) ==
  /\ holder = "none"
  /\ Goes(v, "error", "done")
  /\ UNCHANGED <<size, slot, dropped, vms, pool, lockVars, mode, hostVars>>

CreateError(v) ==
  /\ IF vms[v] = "absent"
       THEN holder = "none" /\ Goes(v, "error", "done") /\ UNCHANGED <<lockVars, vms>>
       ELSE /\ Goes(v, "error", "cleaning")
            /\ vms' = [vms EXCEPT ![v] = "absent"]
            /\ Lock("error", v, "tap")
  /\ UNCHANGED <<size, slot, dropped, pool, mode, hostVars>>

(* Mutant: `insert` without looking at what `remove` returned. *)
IsUpgradableAlways(v) == TRUE

(* Only a placeholder becomes Running. *)
IsUpgradable(v) == vms[v] = "creating"

(* Mutant: a machine that is not entered keeps its Instance. *)
UpgradeKeepsProcess(v) ==
  /\ holder = "none"
  /\ Goes(v, "upgrade", "done")
  /\ vms' = [vms EXCEPT ![v] = IF IsUpgradable(v) THEN "running" ELSE "absent"]
  /\ UNCHANGED <<size, slot, dropped, pool, lockVars, mode, netVars, rootfs, procs>>

(* An Instance that is not entered is dropped, and its process ends. *)
Upgrade(v) ==
  /\ holder = "none"
  /\ Goes(v, "upgrade", "done")
  /\ IF IsUpgradable(v)
       THEN vms' = [vms EXCEPT ![v] = "running"] /\ UNCHANGED procs
       ELSE vms' = [vms EXCEPT ![v] = "absent"] /\ procs' = procs \ {v}
  /\ UNCHANGED <<size, slot, dropped, pool, lockVars, mode, netVars, rootfs>>

-----------------------------------------------------------------------------
(* Tearing a machine down with the lock of `vms` held: the rollback of a   *)
(* rejected create, the error path of a create, DELETE and shutdown.       *)

(* Mutants: the rollback forgets the tap; the removal of the rules is      *)
(* retried for ever; the copy of the rootfs is forgotten.                  *)
AfterNatSkipTap    == "release"
AfterNatRetry      == "nat"
AfterReleaseFinish == "none"

(* The rollback of a rejected create removes the rules first and keeps the *)
(* rootfs copy.                                                            *)
AfterTap     == IF holder = "reject" THEN "release" ELSE "nat"
AfterNat     == IF holder = "reject" THEN "tap" ELSE "release"
AfterRelease == IF holder = "reject" THEN "none" ELSE "rootfs"

(* After the last step the lock is released and the handler returns; at    *)
(* shutdown the lock is kept for the next machine.                         *)
Finish ==
  /\ stage' = "none" /\ victim' = NoVm
  /\ holder' = IF holder = "shutdown" THEN "shutdown" ELSE "none"
  /\ pc' = IF holder \in {"reject", "error"} THEN [pc EXCEPT ![victim] = "done"] ELSE pc

Advance(next) ==
  IF next = "none" THEN Finish ELSE stage' = next /\ UNCHANGED <<victim, holder, pc>>

(* Whatever `stop` answers, dropping the Instance ends the process. *)
StopInstance ==
  /\ stage = "stop"
  /\ procs' = procs \ {victim}
  /\ Advance("tap")
  /\ UNCHANGED <<size, slot, dropped, vms, pool, mode, netVars, rootfs>>

TeardownTap ==
  /\ stage = "tap"
  /\ taps' \in Without(taps, {slot[victim]})
  /\ Advance(AfterTap)
  /\ UNCHANGED <<size, slot, dropped, vms, pool, mode, rules, rootfs, procs>>

TeardownNat ==
  /\ stage = "nat"
  /\ rules' \in Without(rules, RulesOf(victim))
  /\ Advance(AfterNat)
  /\ UNCHANGED <<size, slot, dropped, vms, pool, mode, taps, rootfs, procs>>

TeardownRelease ==
  /\ stage = "release"
  /\ pool' = Release(pool, slot[victim])
  /\ Advance(AfterRelease)
  /\ UNCHANGED <<size, slot, dropped, vms, mode, hostVars>>

TeardownRootfs ==
  /\ stage = "rootfs"
  /\ rootfs' \in Without(rootfs, {victim})
  /\ Advance("none")
  /\ UNCHANGED <<size, slot, dropped, vms, pool, mode, netVars, procs>>

(* Mutant: DELETE takes placeholders too. *)
IsDeletableAny(v) == vms[v] # "absent"

(* A placeholder is put back and answered 409. *)
IsDeletable(v) == vms[v] = "running"

DeleteBegin(v) ==
  /\ mode \in {"serving", "draining", "aborting", "exiting"}
  /\ IsDeletable(v)
  /\ vms' = [vms EXCEPT ![v] = "absent"]
  /\ Lock("delete", v, "stop")
  /\ UNCHANGED <<handlerVars, pool, mode, hostVars>>

(* GET /vm and GET /vm/{id} hold the lock while Firecracker answers. *)
ReadLock ==
  /\ mode \in {"serving", "draining", "aborting"}
  /\ "running" \in {vms[v] : v \in Vm}
  /\ Lock("reader", NoVm, "none")
  /\ UNCHANGED <<handlerVars, vms, pool, mode, hostVars>>

ReadUnlock ==
  /\ holder = "reader"
  /\ Unlock
  /\ UNCHANGED <<handlerVars, vms, pool, mode, hostVars>>

-----------------------------------------------------------------------------
(* Handlers that are dropped: by a client that hangs up, by a panic, and   *)
(* by the runtime once main() has returned.                                *)

MayDrop == "cancel" \in Faults \/ mode = "exiting"

(* A blocking job goes on without its handler. *)
CancelJob(v) ==
  /\ MayDrop
  /\ pc[v] \in {"copy", "tap", "nat"}
  /\ v \notin dropped
  /\ dropped' = dropped \cup {v}
  /\ UNCHANGED <<pc, size, slot, vms, pool, lockVars, mode, hostVars>>

(* Before the guard exists nothing is undone. *)
CancelUnguarded(v) ==
  /\ MayDrop
  /\ pc[v] \in {"alloc", "netfail", "reserve"}
  /\ GoTo(v, "done")
  /\ UNCHANGED <<size, slot, dropped, vms, pool, lockVars, mode, hostVars>>

(* The Instance is dropped before the guard, declared earlier. *)
CancelGuarded(v) ==
  /\ MayDrop
  /\ pc[v] \in {"setup", "configure", "upgrade", "error"}
  /\ GoTo(v, "guard")
  /\ procs' = procs \ {v}
  /\ UNCHANGED <<size, slot, dropped, vms, pool, lockVars, mode, netVars, rootfs>>

(* The awaits of a teardown: `stop`, and the lock of the pool.  The rest   *)
(* of the teardown does not happen.                                        *)
CancelTeardown ==
  /\ MayDrop
  /\ holder # "shutdown"
  /\ stage \in {"stop", "release"}
  /\ pc' = IF holder = "reject" THEN [pc EXCEPT ![victim] = "done"]
           ELSE IF holder = "error" THEN [pc EXCEPT ![victim] = "guard"] ELSE pc
  /\ procs' = procs \ {victim}
  /\ Unlock
  /\ UNCHANGED <<size, slot, dropped, vms, pool, mode, netVars, rootfs>>

(* The lock of the pool is only held while a slot is taken or given back.  *)
PoolContended(v) == \E w \in Vm \ {v} : pc[w] \in {"alloc", "netfail"}

(* CreateGuard::drop with the lock of `vms`: it undoes what it can. *)
GuardDrop(v) ==
  /\ holder = "none"
  /\ Goes(v, "guard", "done")
  /\ vms' = [vms EXCEPT ![v] = "absent"]
  /\ IF vms[v] = "creating"
       THEN /\ taps' \in Without(taps, {slot[v]})
            /\ rules' \in Without(rules, RulesOf(v))
            /\ rootfs' \in Without(rootfs, {v})
            /\ \/ pool' = Release(pool, slot[v])
               \/ PoolContended(v) /\ UNCHANGED pool
       ELSE UNCHANGED <<taps, rules, rootfs, pool>>
  /\ UNCHANGED <<size, slot, dropped, lockVars, mode, procs>>

(* `try_lock` fails: any request that looks at the map may hold its lock. *)
GuardLeaks(v) ==
  /\ Goes(v, "guard", "done")
  /\ UNCHANGED <<size, slot, dropped, vms, pool, lockVars, mode, hostVars>>

-----------------------------------------------------------------------------
(* main(): the end of the servers, the shutdown, the exit and a restart.   *)

(* SIGTERM or Ctrl+C: no new request is accepted. *)
Signal ==
  /\ mode = "serving"
  /\ mode' = "draining"
  /\ UNCHANGED <<handlerVars, vms, pool, lockVars, hostVars>>

(* Mutants: creates in flight are not waited for; or ones that never come. *)
NoneInFlightUnlocked == holder = "none"
NoneInFlightAllDone  == holder = "none" /\ \A v \in Vm \ dropped : pc[v] = "done"

(* The graceful shutdown waits for the requests in flight. *)
NoneInFlight == holder = "none" /\ \A v \in Vm \ dropped : pc[v] \in {"idle", "done"}

Drained ==
  /\ mode = "draining"
  /\ NoneInFlight
  /\ mode' = "closing"
  /\ UNCHANGED <<handlerVars, vms, pool, lockVars, hostVars>>

(* `select!` ends with the SSH server, and the connections of the HTTP     *)
(* server stay open: with Ok main goes on to the shutdown,                 *)
SshStopped ==
  /\ "ssh" \in Faults
  /\ mode \in {"serving", "draining"}
  /\ mode' = "aborting"
  /\ UNCHANGED <<handlerVars, vms, pool, lockVars, hostVars>>

(* with an error - it could not bind - `?` leaves main; that is before any *)
(* create has got anywhere.                                                *)
SshFailed ==
  /\ "ssh" \in Faults
  /\ mode = "serving"
  /\ Entries = {} /\ holder = "none" /\ \A v \in Vm : pc[v] \in {"idle", "done"}
  /\ mode' = "exiting"
  /\ UNCHANGED <<handlerVars, vms, pool, lockVars, hostVars>>

ShutdownLock ==
  /\ mode \in {"closing", "aborting"}
  /\ Lock("shutdown", NoVm, "none")
  /\ UNCHANGED <<handlerVars, vms, pool, mode, hostVars>>

(* The next entry of `vms.drain()`. *)
ShutdownNext(v) ==
  /\ holder = "shutdown" /\ stage = "none"
  /\ vms[v] # "absent"
  /\ vms' = [vms EXCEPT ![v] = "absent"]
  /\ victim' = v
  /\ stage' = IF vms[v] = "running" THEN "stop" ELSE "tap"
  /\ UNCHANGED <<handlerVars, pool, holder, mode, hostVars>>

ShutdownDone ==
  /\ holder = "shutdown" /\ stage = "none"
  /\ Entries = {}
  /\ mode' = "exiting"
  /\ Unlock
  /\ UNCHANGED <<handlerVars, vms, pool, hostVars>>

(* The runtime has dropped every handler and waited for the blocking jobs; *)
(* the Instances still in the map are dropped with AppState.               *)
Exit ==
  /\ mode = "exiting"
  /\ holder = "none"
  /\ \A v \in Vm : pc[v] \in {"idle", "done"}
  /\ mode' = "exited"
  /\ procs' = {v \in procs : vms[v] # "running"}
  /\ vms' = [v \in Vm |-> "absent"]
  /\ UNCHANGED <<handlerVars, pool, lockVars, netVars, rootfs>>

(* SIGKILL or the OOM killer: nothing on the host is undone. *)
Crash ==
  /\ "crash" \in Faults
  /\ mode # "exited"
  /\ mode' = "exited"
  /\ pc' = [v \in Vm |-> IF pc[v] = "idle" THEN "idle" ELSE "done"]
  /\ dropped' = {}
  /\ vms' = [v \in Vm |-> "absent"]
  /\ holder' = "none" /\ victim' = NoVm /\ stage' = "none"
  /\ UNCHANGED <<size, slot, pool, hostVars>>

(* Mutant: the copies in the vm-images directory are not swept. *)
KeptRootfs == {rootfs}

(* The sweep of a new process.  pkill takes every process or none, and so  *)
(* does `nft flush`; files and devices are removed one by one.             *)
SweptProcs  == IF "cmd" \in Faults THEN {{}, procs} ELSE {{}}
SweptRules  == IF "cmd" \in Faults THEN {{}, rules} ELSE {{}}
SweptRootfs == Without(rootfs, rootfs)
SweptTaps   == Without(taps, taps)

(* It starts with an empty map and a fresh pool, and sweeps before either  *)
(* server listens.                                                         *)
Boot ==
  /\ mode = "exited"
  /\ mode' = "serving"
  /\ pool' = FreshPool
  /\ slot' = [v \in Vm |-> NoSlot]
  /\ procs' \in SweptProcs /\ rootfs' \in SweptRootfs
  /\ taps' \in SweptTaps /\ rules' \in SweptRules
  /\ UNCHANGED <<pc, size, dropped, vms, lockVars>>

(* A Firecracker process ends by itself; nothing in Warlock notices. *)
VmmExits(v) ==
  /\ "exit" \in Faults
  /\ v \in procs
  /\ procs' = procs \ {v}
  /\ UNCHANGED <<handlerVars, vms, pool, lockVars, mode, netVars, rootfs>>

-----------------------------------------------------------------------------
(* The steps of a create that wait for no lock of `vms`, ...               *)
FreeStep(v) ==
  \/ CopyRootfs(v) \/ CopyRootfsFails(v) \/ AllocateSubnet(v) \/ CreateTap(v)
  \/ CreateTapFails(v) \/ AddNatRules(v) \/ AddNatRulesFails(v)
  \/ ReleaseFailedSubnet(v) \/ StartVmm(v) \/ Configure(v) \/ SetupFails(v)
  \/ GuardDrop(v) \/ GuardLeaks(v)

(* ... and the ones that do.                                               *)
LockingStep(v) == Reserve(v) \/ Reject(v) \/ CreateError(v) \/ Upgrade(v)

Cancel(v) == CancelJob(v) \/ CancelUnguarded(v) \/ CancelGuarded(v)

Teardown ==
  StopInstance \/ TeardownTap \/ TeardownNat \/ TeardownRelease \/ TeardownRootfs

Main ==
  \/ Signal \/ Drained \/ SshStopped \/ SshFailed \/ ShutdownLock \/ ShutdownDone
  \/ Exit \/ Crash \/ Boot

Next ==
  \/ \E v \in Vm : \/ CreateBegin(v) \/ FreeStep(v) \/ LockingStep(v) \/ Cancel(v)
                   \/ DeleteBegin(v) \/ ShutdownNext(v) \/ VmmExits(v)
  \/ Teardown \/ CancelTeardown \/ ReadLock \/ ReadUnlock \/ Main

Spec == Init /\ [][Next]_vars

(* Every step of a handler, of a teardown, of the shutdown and of a boot   *)
(* is taken once it can be: the runtime polls woken tasks and commands and *)
(* Firecracker answer.  The lock of `vms` is a tokio Mutex, which is FIFO: *)
(* whoever waits gets it although others take it again and again.  Reads   *)
(* that are in flight when SIGTERM arrives are finitely many, which is why *)
(* the drain is strongly fair.                                             *)
Fairness ==
  /\ \A v \in Vm : WF_vars(FreeStep(v)) /\ SF_vars(LockingStep(v))
  /\ WF_vars(Teardown \/ ReadUnlock)
  /\ SF_vars(Drained \/ ShutdownLock)
  /\ WF_vars(ShutdownDone \/ Exit \/ \E v \in Vm : ShutdownNext(v))

FairSpec == Spec /\ Fairness

-----------------------------------------------------------------------------
(* Safety. *)

(* The machines whose tap device, addresses and rules use their subnet: a  *)
(* create between `allocate` and the placeholder, an entry of the map, and *)
(* a teardown that has not given the subnet back.                          *)
OwnsSubnet(v) ==
  \/ pc[v] \in {"tap", "nat", "netfail", "reserve"}
  \/ vms[v] # "absent"
  \/ victim = v /\ stage # "rootfs"

(* No two machines share a subnet, and the bitmap knows each one in use:   *)
(* a slot is neither handed out twice nor given back under its owner, by   *)
(* whatever mix of creates, rollbacks, deletes and drops.                  *)
SubnetExclusive ==
  /\ \A v \in Vm : OwnsSubnet(v) => slot[v] \in Index /\ pool[slot[v]]
  /\ \A v, w \in Vm : OwnsSubnet(v) /\ OwnsSubnet(w) /\ slot[v] = slot[w] => v = w

(* What SubnetExclusive rests on: the one teardown that the lock of `vms`  *)
(* admits is of a machine that is in no map and before no placeholder, and *)
(* an entry only exists for a create that has passed its reservation.      *)
LockConsistent ==
  /\ (victim = NoVm) = (stage = "none")
  /\ holder \in {"none", "reader"} => stage = "none"
  /\ victim # NoVm =>
       /\ vms[victim] = "absent"
       /\ pc[victim] \in {"rejecting", "setup", "configure", "upgrade", "error",
                         "cleaning", "guard", "done"}
  /\ \A v \in Vm :
       /\ pc[v] = "rejecting" => holder = "reject" /\ victim = v
       /\ pc[v] = "cleaning" => holder = "error" /\ victim = v
       /\ vms[v] # "absent" =>
            pc[v] \in {"setup", "configure", "upgrade", "error", "guard", "done"}

(* A restart forgets every slot: once the process has exited nothing that  *)
(* owned one is left, neither a handler nor a teardown nor an entry.       *)
QuietAfterExit ==
  mode = "exited" =>
    /\ holder = "none" /\ stage = "none"
    /\ \A v \in Vm : pc[v] \in {"idle", "done"} /\ vms[v] = "absent"

(* The inductive invariant of the proofs. *)
IInv == TypeOK /\ LockConsistent /\ QuietAfterExit /\ SubnetExclusive

(* The life of a subnet implements the ledger: a machine owns it from      *)
(* `allocate` to `release`, and a bit that is set for nobody is a leak.    *)
Owner == [i \in Index |-> {v \in Vm : OwnsSubnet(v) /\ slot[v] = i}]

Ledger == INSTANCE SubnetLedger WITH
  Slot <- Index, Client <- Vm,
  owner <- Owner, lost <- {i \in Index : pool[i] /\ Owner[i] = {}}

(* No slot ever goes from one machine to another without being released,   *)
(* and one that a dropped handler leaks stays out of use until a restart.  *)
SubnetsLent == Ledger!LedgerSpec

(* The life of a machine as the SSH console sees it.                       *)
BeforeEntry == {"idle", "copy", "alloc", "tap", "nat", "netfail", "reserve"}

Life == [v \in Vm |->
  IF vms[v] # "absent" THEN vms[v] ELSE IF pc[v] \in BeforeEntry THEN "new" ELSE "gone"]

Proc == [v \in Vm |->
  IF v \in procs THEN "up" ELSE IF pc[v] \in BeforeEntry \cup {"setup"} THEN "none" ELSE "ended"]

(* What the refinement needs: a process only exists past the setup, an     *)
(* entry is only upgraded by a create that then ends, and a create whose   *)
(* rollback holds the lock waits for it.                                   *)
EntryConsistent ==
  /\ \A v \in procs : pc[v] \notin BeforeEntry \cup {"setup"}
  /\ \A v \in Vm : vms[v] = "running" => pc[v] = "done"
  /\ holder \in {"reject", "error"} =>
       victim \in Vm /\ pc[victim] \in {"rejecting", "cleaning"}

Map == INSTANCE VmMap WITH life <- Life, locked <- holder # "none", proc <- Proc

(* Whatever handlers, guards, the shutdown and restarts do, a Uuid enters  *)
(* the map once and leaves it once, its process starts once, and entries   *)
(* are made and upgraded only while nobody holds the lock.                 *)
MachinesLiveOnce == Map!MapSpec

(* What is on the host of machines.                                        *)
Left ==
  ({"tap"} \X taps) \cup ({"rule"} \X rules) \cup ({"rootfs"} \X rootfs)
    \cup ({"process"} \X procs)

Slate == INSTANCE CleanSlate WITH alive <- mode # "exited", left <- Left

(* A restart after any exit or crash begins with nothing on the host, and  *)
(* nothing appears on it between two processes: no handler, guard or       *)
(* blocking job of the old process is still at work.                       *)
BootsClean == Slate!SlateSpec

(* Concurrent creates never promise more vCPUs or memory than the host     *)
(* has: the unwrapped sums over creating and running machines fit, however *)
(* the numbers of the host are narrowed.                                   *)
CapacityNeverExceeded ==
  /\ AllocatedVcpus <= HostCores
  /\ AllocatedMemory <= AllocatableMemory(HostMemory)

(* `Warlock prevents overcommitting host resources`: what the cgroups of   *)
(* the machines grant is there, as long as the reserve of the host pays    *)
(* for the overhead of every Firecracker, which the capacity check does    *)
(* not count.  From the sixth machine on it may not.                       *)
Granted(amount) == Cardinality(Units(Entries, amount))

CgroupsFit ==
  LET limits == [v \in Vm |-> BuildCgroupConfig(size[v])]
  IN  Cardinality(Entries) * OVERHEAD_MB <= HOST_RESERVED_MEMORY_MB =>
        /\ Granted([v \in Vm |-> limits[v].cpu_quota \div limits[v].cpu_period]) <= HostCores
        /\ Granted([v \in Vm |-> limits[v].memory_max]) <= HostMemory

(* A machine that is listed as running has its process (unless it ended by *)
(* itself), its tap device, both its rules and its disk: no rollback or    *)
(* teardown of another machine, or of its own create, took them away.      *)
RunningIntact ==
  \A v \in Vm : vms[v] = "running" =>
    /\ v \in procs \/ "exit" \in Faults
    /\ slot[v] \in taps
    /\ RulesOf(v) \subseteq rules
    /\ v \in rootfs

(* A free slot has no tap device left: `allocate` always takes the lowest  *)
(* one, and `ip tuntap add` would refuse it in every create from then on.  *)
FreeSlotHasNoTap == \A i \in taps : pool[i]

(* While nothing goes wrong, every slot in use, tap device and rule        *)
(* belongs to a create that is under way, an entry or a teardown: nothing  *)
(* is leaked by any interleaving, 409s and failed setups included.         *)
NetworkOwned ==
  mode # "exited" =>
    /\ \A i \in Index : pool[i] => \E v \in Vm : OwnsSubnet(v) /\ slot[v] = i
    /\ \A i \in taps : \E v \in Vm : OwnsSubnet(v) /\ slot[v] = i
    /\ \A r \in rules : OwnsSubnet(r[1])

(* `shouldn't happen - delete rejects Creating VMs`: while a create sets a *)
(* machine up without the lock, its placeholder stays, and with it its     *)
(* capacity and its subnet.                                                *)
PlaceholderStays ==
  \A v \in Vm : pc[v] \in {"setup", "configure", "upgrade", "error"} => vms[v] = "creating"

(* The same until an SSH server that stopped by itself or an exit cuts in. *)
PlaceholderStaysWhileServing ==
  mode \in {"serving", "draining", "closing"} => PlaceholderStays

(* Once the process has exited, no tap, rule or process of it is left.     *)
CleanExit == mode = "exited" => taps = {} /\ rules = {} /\ procs = {}

(* `Additional disk usage: one copy per running VM`: every rootfs copy     *)
(* belongs to a create that is under way, to an entry or to a teardown.    *)
RootfsOwned ==
  mode # "exited" =>
    \A v \in rootfs : pc[v] \notin {"idle", "done"} \/ vms[v] # "absent" \/ victim = v

(* `Cleanup is deterministic`: a DELETE that lets go of the lock has given *)
(* everything back; what is in use of its subnet is its next owner's.      *)
DeleteReleasesEverything ==
  [][ \A v \in Vm : holder = "delete" /\ victim = v /\ victim' # v =>
        /\ v \notin procs' \cup rootfs'
        /\ RulesOf(v) \cap rules' = {}
        /\ slot[v] \in taps' \/ pool'[slot[v]] =>
             \E w \in Vm \ {v} : OwnsSubnet(w)' /\ slot'[w] = slot[v] ]_vars

-----------------------------------------------------------------------------
(* Liveness. *)

(* Every create is answered: it never waits for a lock for ever.           *)
CreateAnswered == \A v \in Vm : pc[v] # "idle" ~> pc[v] = "done"

(* A placeholder is resolved: it becomes running or disappears.            *)
PlaceholderResolved == \A v \in Vm : vms[v] = "creating" ~> vms[v] # "creating"

(* What the console relies on: whoever holds the lock lets go of it, ...   *)
LockReleased == holder # "none" ~> holder = "none"

(* ... and the process of a machine that has left the map ends, even if    *)
(* the entry was gone before the process started.                          *)
RemovedProcessEnds == \A v \in Vm : Life[v] = "gone" ~> Proc[v] = "ended"

(* Whatever the requests in flight, a SIGTERM ends the process.            *)
ShutdownCompletes == mode = "draining" ~> mode = "exited"
=============================================================================
