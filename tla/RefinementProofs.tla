--------------------------- MODULE RefinementProofs -------------------------
(***************************************************************************)
(* VmLifecycle implements its abstractions, for any number of machines and *)
(* subnets and any host.                                                   *)
(*                                                                         *)
(* CleanSlate: while a process serves every step is one of it; what        *)
(* matters is that between two processes only Firecracker processes that   *)
(* end by themselves and the next boot move, which QuietAfterExit gives.   *)
(*                                                                         *)
(* VmMap, what the console and whoever else reads the map may rely on: an  *)
(* action of a handler is at most one thing to the map, most are none.     *)
(* That an upgrade is of a process that has been started, and that a       *)
(* rollback that ends leaves nothing to be started, is EntryConsistent.    *)
(*                                                                         *)
(* SubnetLedger, what the pool promises: a step gives one subnet up, lends *)
(* one that SubnetExclusive knows to be nobody's, or leaves them alone.    *)
(***************************************************************************)
EXTENDS VmLifecycleProofs

-----------------------------------------------------------------------------
(* CleanSlate. *)

(* Between two processes no handler has a step.                            *)
LEMMA NoHandlerStep ==
  ASSUME IInv, mode = "exited", NEW v \in Vm
  PROVE  ~FreeStep(v) /\ ~LockingStep(v) /\ ~CancelJob(v) /\ ~CancelUnguarded(v)
         /\ ~CancelGuarded(v) /\ ~CreateBegin(v) /\ ~DeleteBegin(v) /\ ~ShutdownNext(v)
<1> USE DEF Goes, JobEnds
<1>1. pc[v] \in {"idle", "done"} /\ vms[v] = "absent" /\ holder = "none"
  BY DEF IInv, QuietAfterExit
<1>2. ~FreeStep(v)
  BY <1>1 DEF FreeStep, CopyRootfs, CopyRootfsFails, AllocateSubnet, CreateTap,
    CreateTapFails, AddNatRules, AddNatRulesFails, ReleaseFailedSubnet, StartVmm,
    Configure, SetupFails, GuardDrop, GuardLeaks
<1>3. ~LockingStep(v)
  BY <1>1 DEF LockingStep, Reserve, Reject, CreateError, Upgrade
<1>4. ~CancelJob(v) /\ ~CancelUnguarded(v) /\ ~CancelGuarded(v)
  BY <1>1 DEF CancelJob, CancelUnguarded, CancelGuarded
<1>5. ~CreateBegin(v) /\ ~DeleteBegin(v) /\ ~ShutdownNext(v)
  BY <1>1 DEF CreateBegin, DeleteBegin, ShutdownNext
<1> QED
  BY <1>2, <1>3, <1>4, <1>5

(* Nor has a teardown, a read or the shutdown.                             *)
LEMMA NoLockStep ==
  ASSUME IInv, mode = "exited"
  PROVE  /\ ~Teardown /\ ~CancelTeardown /\ ~ReadLock /\ ~ReadUnlock
         /\ ~Signal /\ ~Drained /\ ~SshStopped /\ ~SshFailed /\ ~ShutdownLock
         /\ ~ShutdownDone /\ ~Exit /\ ~Crash
<1>1. holder = "none" /\ stage = "none"
  BY DEF IInv, QuietAfterExit
<1>2. ~Teardown /\ ~CancelTeardown
  BY <1>1 DEF Teardown, StopInstance, TeardownTap, TeardownNat, TeardownRelease,
    TeardownRootfs, CancelTeardown
<1>3. ~ReadLock /\ ~ReadUnlock
  BY <1>1 DEF ReadLock, ReadUnlock
<1>4. /\ ~Signal /\ ~Drained /\ ~SshStopped /\ ~SshFailed /\ ~ShutdownLock
      /\ ~ShutdownDone /\ ~Exit /\ ~Crash
  BY <1>1 DEF Signal, Drained, SshStopped, SshFailed, ShutdownLock, ShutdownDone, Exit, Crash
<1> QED
  BY <1>2, <1>3, <1>4

(* A sweep whose commands succeed leaves nothing.                          *)
LEMMA BootSweeps ==
  ASSUME Boot, "cmd" \notin Faults
  PROVE  Left' = {}
<1>1. procs' = {} /\ rules' = {}
  BY DEF Boot, SweptProcs, SweptRules
<1>2. rootfs' = {} /\ taps' = {}
  BY DEF Boot, SweptRootfs, SweptTaps, Without
<1> QED
  BY <1>1, <1>2 DEF Left

(* Every step is a step of CleanSlate or leaves what it sees alone.        *)
LEMMA SlateStep ==
  ASSUME IInv, [Next]_vars, "cmd" \notin Faults
  PROVE  [Slate!SlateNext]_<<mode # "exited", Left>>
<1>1. CASE mode # "exited"
  BY <1>1 DEF Slate!SlateNext, Slate!Serve
<1>2. CASE mode = "exited"
  <2>1. CASE Boot
    <3>1. mode' # "exited" /\ Left' = {}
      BY <2>1, BootSweeps DEF Boot
    <3> QED
      BY <1>2, <3>1 DEF Slate!SlateNext, Slate!Boot
  <2>2. ASSUME NEW v \in Vm, VmmExits(v) PROVE Slate!SlateNext
    <3>1. mode' = "exited" /\ Left' \subseteq Left
      BY <1>2, <2>2 DEF VmmExits, Left, netVars
    <3> QED
      BY <1>2, <3>1 DEF Slate!SlateNext, Slate!Shrink
  <2>3. CASE UNCHANGED vars
    BY <2>3 DEF vars, Left
  <2> QED
    BY <1>2, <2>1, <2>2, <2>3, NoHandlerStep, NoLockStep DEF Next, Main, Cancel
<1> QED
  BY <1>1, <1>2

(* `A clean sweep on startup`: every restart, after an exit or a crash at  *)
(* any point, begins with no tap, rule, disk or process on the host, and   *)
(* nothing appears there before it.                                        *)
THEOREM RestartsClean ==
  ASSUME "cmd" \notin Faults
  PROVE  Spec => BootsClean
<1>1. Init => Slate!SlateInit
  BY DEF Init, Left, Slate!SlateInit
<1>2. IInv /\ [Next]_vars => [Slate!SlateNext]_<<mode # "exited", Left>>
  BY SlateStep
<1> QED
  BY <1>1, <1>2, Invariant, PTL DEF Spec, BootsClean, Slate!SlateSpec

-----------------------------------------------------------------------------
(* VmMap. *)

USE DEF BeforeEntry

(* What a step does to the map, by what it does to one create.             *)

(* A step that changes no entry and no process, and takes no create past   *)
(* its reservation or its setup, changes neither lives nor processes.      *)
LEMMA Unseen ==
  ASSUME UNCHANGED <<vms, procs>>,
         \A v \in Vm : /\ pc'[v] \in BeforeEntry <=> pc[v] \in BeforeEntry
                       /\ pc'[v] = "setup" <=> pc[v] = "setup"
  PROVE  Life' = Life /\ Proc' = Proc
<1>1. Life' = Life
  BY DEF Life
<1>2. Proc' = Proc
  BY DEF Proc
<1> QED
  BY <1>1, <1>2

(* A create that ends before its reservation is forgotten.                 *)
LEMMA Forgotten ==
  ASSUME MapInv, NEW v \in Vm, pc[v] \in BeforeEntry, NEW to \in {"done", "rejecting"},
         pc' = [pc EXCEPT ![v] = to], UNCHANGED <<vms, procs>>,
         holder' = holder \/ holder' # "none"
  PROVE  Map!Forget(v)
<1> USE DEF TypeOK
<1>1. vms[v] = "absent" /\ v \notin procs
  BY DEF MapInv, IInv, LockConsistent, EntryConsistent
<1>2. pc \in [Vm -> PC]
  BY DEF MapInv, IInv
<1>3. Life[v] = "new" /\ Life' = [Life EXCEPT ![v] = "gone"]
  BY <1>1, <1>2 DEF Life
<1>4. Proc' = [Proc EXCEPT ![v] = "ended"]
  BY <1>1, <1>2 DEF Proc
<1> QED
  BY <1>3, <1>4 DEF Map!Forget

(* The process of a create that has left its setup, or never gets into it, *)
(* ends, while no entry changes.                                           *)
LEMMA Ended ==
  ASSUME MapInv, NEW v \in Vm, procs' = procs \ {v}, vms' = vms,
         holder' = holder \/ holder' = "none",
         \A w \in Vm : pc'[w] \in BeforeEntry <=> pc[w] \in BeforeEntry,
         \A w \in Vm \ {v} : pc'[w] = "setup" <=> pc[w] = "setup",
         pc'[v] \notin BeforeEntry \cup {"setup"}
  PROVE  Map!End
<1>1. Life' = Life
  BY DEF Life
<1>2. Proc' = [w \in Vm |-> IF w \in {v} THEN "ended" ELSE Proc[w]]
  BY DEF Proc
<1>3. {v} \in (SUBSET Vm) \ {{}}
  OBVIOUS
<1> QED
  BY <1>1, <1>2, <1>3 DEF Map!End

(* An entry is taken out, and no process changes.                          *)
LEMMA Removed ==
  ASSUME MapInv, NEW v \in Vm, vms[v] # "absent", vms' = [vms EXCEPT ![v] = "absent"],
         procs' = procs, holder' = holder \/ holder' # "none",
         \A w \in Vm : /\ pc'[w] \in BeforeEntry <=> pc[w] \in BeforeEntry
                       /\ pc'[w] = "setup" <=> pc[w] = "setup"
  PROVE  Map!Remove(v)
<1>1. pc[v] \notin BeforeEntry /\ vms \in [Vm -> {"absent", "creating", "running"}]
  BY DEF MapInv, IInv, LockConsistent, TypeOK
<1>2. Life[v] \in {"creating", "running"} /\ Life' = [Life EXCEPT ![v] = "gone"]
  BY <1>1 DEF Life
<1>3. Proc' = Proc
  BY DEF Proc
<1> QED
  BY <1>2, <1>3 DEF Map!Remove

(* The actions of a create, ...                                            *)
LEMMA CreateMaps ==
  ASSUME MapInv, NEW v \in Vm, CreateBegin(v) \/ FreeStep(v) \/ LockingStep(v)
  PROVE  [Map!MapNext]_(Map!mapVars)
<1> USE DEF GoTo, Goes, JobEnds, lockVars, hostVars, netVars, handlerVars, Map!MapNext, Map!MapStep,
      Map!mapVars
<1> DEFINE Goal == [Map!MapNext]_(Map!mapVars)
<1>0. pc \in [Vm -> PC] /\ vms \in [Vm -> {"absent", "creating", "running"}] /\ procs \subseteq Vm
  BY DEF MapInv, IInv, TypeOK
<1>a. ASSUME NEW to \in BeforeEntry, pc[v] \in BeforeEntry, pc' = [pc EXCEPT ![v] = to],
             UNCHANGED <<vms, procs, holder>>
      PROVE  Goal
  BY <1>0, <1>a, Unseen
<1>b. ASSUME pc[v] \in BeforeEntry, pc' = [pc EXCEPT ![v] = "done"],
             UNCHANGED <<vms, procs, holder>>
      PROVE  Goal
  BY <1>b, Forgotten
<1>c. ASSUME NEW to \in BeforeEntry, pc[v] \in BeforeEntry,
             pc' = [pc EXCEPT ![v] = IF v \in dropped THEN "done" ELSE to],
             UNCHANGED <<vms, procs, holder>>
      PROVE  Goal
  BY <1>a, <1>b, <1>c
<1>1. CASE CreateBegin(v)
  BY <1>1, <1>a, <1>b DEF CreateBegin
<1>2. CASE CopyRootfs(v)
  BY <1>2, <1>c DEF CopyRootfs
<1>3. CASE CopyRootfsFails(v)
  BY <1>3, <1>b DEF CopyRootfsFails
<1>4. CASE AllocateSubnet(v)
  BY <1>4, <1>a, <1>b DEF AllocateSubnet
<1>5. CASE CreateTap(v)
  BY <1>5, <1>a DEF CreateTap
<1>6. CASE CreateTapFails(v)
  BY <1>6, <1>c DEF CreateTapFails
<1>7. CASE AddNatRules(v)
  BY <1>7, <1>c DEF AddNatRules
<1>8. CASE AddNatRulesFails(v)
  BY <1>8, <1>c DEF AddNatRulesFails
<1>9. CASE ReleaseFailedSubnet(v)
  BY <1>9, <1>b DEF ReleaseFailedSubnet
<1>10. CASE StartVmm(v)
  <2>1. vms[v] \in {"absent", "creating"} /\ v \notin procs
    BY <1>10, <1>0 DEF StartVmm, MapInv, EntryConsistent
  <2>2. Life[v] \in {"creating", "gone"} /\ Life' = Life
    BY <1>10, <1>0, <2>1 DEF StartVmm, Life
  <2>3. Proc[v] = "none" /\ Proc' = [Proc EXCEPT ![v] = "up"]
    BY <1>10, <1>0, <2>1 DEF StartVmm, Proc
  <2>4. Map!Start(v)
    BY <1>10, <2>2, <2>3 DEF StartVmm, Map!Start
  <2> QED
    BY <2>4
<1>11. CASE Configure(v)
  <2>1. Life' = Life /\ Proc' = Proc
    BY <1>11, <1>0, Unseen DEF Configure
  <2> QED
    BY <1>11, <2>1 DEF Configure
<1>12. CASE SetupFails(v)
  <2>1. Map!End
    BY <1>12, <1>0, Ended DEF SetupFails
  <2> QED
    BY <2>1
<1>13. CASE GuardDrop(v)
  <2>1. CASE vms[v] = "absent"
    <3>1. vms' = vms /\ procs' = procs /\ holder' = holder
      BY <1>13, <1>0, <2>1 DEF GuardDrop
    <3>2. Life' = Life /\ Proc' = Proc
      BY <1>13, <1>0, <3>1, Unseen DEF GuardDrop
    <3> QED
      BY <3>1, <3>2
  <2>2. CASE vms[v] # "absent"
    <3>1. Map!Remove(v)
      BY <1>13, <1>0, <2>2, Removed DEF GuardDrop
    <3> QED
      BY <3>1
  <2> QED
    BY <2>1, <2>2
<1>14. CASE GuardLeaks(v)
  <2>1. Life' = Life /\ Proc' = Proc
    BY <1>14, <1>0, Unseen DEF GuardLeaks
  <2> QED
    BY <1>14, <2>1 DEF GuardLeaks
<1>15. CASE Reserve(v)
  <2>1. vms[v] = "absent" /\ v \notin procs
    BY <1>15, <1>0 DEF Reserve, MapInv, IInv, LockConsistent, EntryConsistent
  <2>2. Life[v] = "new" /\ Life' = [Life EXCEPT ![v] = "creating"]
    BY <1>15, <1>0, <2>1 DEF Reserve, Life
  <2>3. Proc' = Proc
    BY <1>15, <1>0, <2>1 DEF Reserve, Proc
  <2>4. Map!Enter(v)
    BY <1>15, <2>2, <2>3 DEF Reserve, Map!Enter
  <2> QED
    BY <2>4
<1>16. CASE Reject(v)
  <2>1. Map!Forget(v)
    BY <1>16, <1>0, Forgotten DEF Reject, Lock
  <2> QED
    BY <2>1
<1>17. CASE CreateError(v)
  <2>1. CASE vms[v] = "absent"
    <3>1. Life' = Life /\ Proc' = Proc
      BY <1>17, <1>0, <2>1, Unseen DEF CreateError
    <3> QED
      BY <1>17, <2>1, <3>1 DEF CreateError
  <2>2. CASE vms[v] # "absent"
    <3>1. Map!Remove(v)
      BY <1>17, <1>0, <2>2, Removed DEF CreateError, Lock
    <3> QED
      BY <3>1
  <2> QED
    BY <2>1, <2>2
<1>18. CASE Upgrade(v)
  <2>1. CASE vms[v] = "creating"
    <3>1. vms' = [vms EXCEPT ![v] = "running"] /\ procs' = procs
      BY <1>18, <2>1 DEF Upgrade, IsUpgradable
    <3>2. Life[v] = "creating" /\ Life' = [Life EXCEPT ![v] = "running"]
      BY <1>18, <1>0, <2>1, <3>1 DEF Upgrade, Life
    <3>3. Proc[v] # "none" /\ Proc' = Proc
      BY <1>18, <1>0, <3>1 DEF Upgrade, Proc
    <3>4. Map!Run(v)
      BY <1>18, <3>2, <3>3 DEF Upgrade, Map!Run
    <3> QED
      BY <3>4
  <2>2. CASE vms[v] # "creating"
    <3>1. vms[v] = "absent"
      BY <1>18, <1>0, <2>2 DEF Upgrade, MapInv, EntryConsistent
    <3>2. vms' = vms /\ procs' = procs \ {v}
      BY <1>18, <1>0, <2>2, <3>1 DEF Upgrade, IsUpgradable
    <3>3. Map!End
      BY <1>18, <1>0, <3>2, Ended DEF Upgrade
    <3> QED
      BY <3>3
  <2> QED
    BY <2>1, <2>2
<1> QED
  BY <1>1, <1>2, <1>3, <1>4, <1>5, <1>6, <1>7, <1>8, <1>9, <1>10, <1>11, <1>12, <1>13, <1>14, <1>15, <1>16, <1>17, <1>18 DEF FreeStep, LockingStep

(* ... of dropped handlers, and of those that take an entry out.           *)
LEMMA HandlerMaps ==
  ASSUME MapInv, NEW v \in Vm, Cancel(v) \/ DeleteBegin(v) \/ ShutdownNext(v) \/ VmmExits(v)
  PROVE  [Map!MapNext]_(Map!mapVars)
<1> USE DEF GoTo, Goes, lockVars, hostVars, netVars, handlerVars, Map!MapNext, Map!MapStep,
      Map!mapVars
<1>0. pc \in [Vm -> PC] /\ vms \in [Vm -> {"absent", "creating", "running"}] /\ procs \subseteq Vm
  BY DEF MapInv, IInv, TypeOK
<1>1. CASE CancelJob(v)
  <2>1. Life' = Life /\ Proc' = Proc
    BY <1>0, <1>1, Unseen DEF CancelJob
  <2> QED
    BY <1>1, <2>1 DEF CancelJob
<1>2. CASE CancelUnguarded(v)
  <2>1. Map!Forget(v)
    BY <1>0, <1>2, Forgotten DEF CancelUnguarded
  <2> QED
    BY <2>1
<1>3. CASE CancelGuarded(v)
  <2>1. Map!End
    BY <1>0, <1>3, Ended DEF CancelGuarded
  <2> QED
    BY <2>1
<1>4. CASE DeleteBegin(v)
  <2>1. Map!Remove(v)
    BY <1>0, <1>4, Removed DEF DeleteBegin, IsDeletable, Lock
  <2> QED
    BY <2>1
<1>5. CASE ShutdownNext(v)
  <2>1. Map!Remove(v)
    BY <1>0, <1>5, Removed DEF ShutdownNext
  <2> QED
    BY <2>1
<1>6. CASE VmmExits(v)
  <2>1. pc[v] \notin BeforeEntry \cup {"setup"}
    BY <1>6 DEF VmmExits, MapInv, EntryConsistent
  <2>2. Map!End
    BY <1>0, <1>6, <2>1, Ended DEF VmmExits
  <2> QED
    BY <2>2
<1> QED
  BY <1>1, <1>2, <1>3, <1>4, <1>5, <1>6 DEF Cancel

(* The end of a critical section.                                          *)
LEMMA Unlocks ==
  ASSUME holder # "none", holder' = "none", Life' = Life, Proc' = Proc
  PROVE  [Map!MapNext]_(Map!mapVars)
  BY DEF Map!MapNext, Map!MapStep, Map!Unlock

(* A teardown ends one process, if that, and lets go of the lock.          *)
LEMMA TeardownMaps ==
  ASSUME MapInv, Teardown \/ CancelTeardown
  PROVE  [Map!MapNext]_(Map!mapVars)
<1> USE ConstantsAssumption DEF Advance, handlerVars, lockVars, hostVars, netVars, Map!mapVars
<1>0. /\ pc \in [Vm -> PC] /\ vms \in [Vm -> {"absent", "creating", "running"}]
      /\ procs \subseteq Vm /\ LockConsistent /\ EntryConsistent /\ victim \in Vm \cup {NoVm}
  BY DEF MapInv, IInv, TypeOK
<1>1. CASE StopInstance
  <2>1. /\ victim \in Vm /\ procs' = procs \ {victim} /\ vms' = vms
        /\ holder' = holder /\ pc' = pc
    BY <1>0, <1>1 DEF StopInstance, LockConsistent
  <2>2. CASE victim \in procs
    <3>1. Map!End
      BY <1>0, <2>1, <2>2, Ended DEF EntryConsistent
    <3> QED
      BY <3>1 DEF Map!MapNext, Map!MapStep
  <2>3. CASE victim \notin procs
    <3>1. Life' = Life /\ Proc' = Proc
      BY <2>1, <2>3, Unseen
    <3> QED
      BY <2>1, <3>1
  <2> QED
    BY <2>2, <2>3
<1>2. CASE TeardownTap \/ TeardownNat
  <2>1. UNCHANGED <<pc, vms, procs, holder>>
    BY <1>2 DEF TeardownTap, TeardownNat, AfterTap, AfterNat
  <2>2. Life' = Life /\ Proc' = Proc
    BY <2>1, Unseen
  <2> QED
    BY <2>1, <2>2
<1>3. CASE TeardownRelease \/ TeardownRootfs
  <2>1. UNCHANGED <<vms, procs>> /\ holder # "none"
    BY <1>0, <1>3 DEF TeardownRelease, TeardownRootfs, LockConsistent
  <2>2. \/ UNCHANGED <<pc, holder>>
        \/ holder' = "none" /\ pc' = pc
        \/ /\ holder' = "none" /\ holder \in {"reject", "error"}
           /\ pc' = [pc EXCEPT ![victim] = "done"]
    BY <1>3, <2>1 DEF TeardownRelease, TeardownRootfs, AfterRelease, Finish
  <2>3. Life' = Life /\ Proc' = Proc
    BY <1>0, <2>1, <2>2, Unseen DEF EntryConsistent
  <2> QED
    BY <2>1, <2>2, <2>3, Unlocks
<1>4. CASE CancelTeardown
  <2>1. /\ victim \in Vm /\ procs' = procs \ {victim} /\ vms' = vms
        /\ holder # "none" /\ holder' = "none"
    BY <1>0, <1>4 DEF CancelTeardown, Unlock, LockConsistent
  <2>2. \/ pc' = pc
        \/ \E to \in {"done", "guard"} :
             holder \in {"reject", "error"} /\ pc' = [pc EXCEPT ![victim] = to]
    BY <1>4 DEF CancelTeardown
  <2>3. \A w \in Vm : /\ pc'[w] \in BeforeEntry <=> pc[w] \in BeforeEntry
                      /\ pc'[w] = "setup" <=> pc[w] = "setup"
    BY <1>0, <2>2 DEF EntryConsistent
  <2>4. CASE victim \in procs
    <3>1. Map!End
      BY <1>0, <2>1, <2>3, <2>4, Ended DEF EntryConsistent
    <3> QED
      BY <3>1 DEF Map!MapNext, Map!MapStep
  <2>5. CASE victim \notin procs
    <3>1. Life' = Life /\ Proc' = Proc
      BY <2>1, <2>3, <2>5, Unseen
    <3> QED
      BY <2>1, <3>1, Unlocks
  <2> QED
    BY <2>4, <2>5
<1> QED
  BY <1>1, <1>2, <1>3, <1>4 DEF Teardown

(* The process exits, dies or starts: the map is forgotten.                *)
LEMMA ExitMaps ==
  ASSUME MapInv, Exit \/ Crash \/ Boot
  PROVE  Map!Exit
<1> USE DEF handlerVars, lockVars, hostVars, netVars
<1>0. /\ pc \in [Vm -> PC] /\ vms \in [Vm -> {"absent", "creating", "running"}]
      /\ procs \subseteq Vm /\ LockConsistent /\ EntryConsistent /\ QuietAfterExit
  BY DEF MapInv, IInv, TypeOK
<1>1. /\ vms' = [v \in Vm |-> "absent"] /\ holder' = "none" /\ procs' \subseteq procs
      /\ \A v \in Vm : pc'[v] \in {"idle", "done"} /\ (pc'[v] = "idle" <=> pc[v] = "idle")
      /\ \A v \in Vm : pc[v] = "idle" => vms[v] = "absent" /\ v \notin procs
  <2>1. \A v \in Vm : pc[v] = "idle" => vms[v] = "absent" /\ v \notin procs
    BY <1>0 DEF LockConsistent, EntryConsistent
  <2>2. CASE Exit
    BY <1>0, <2>1, <2>2 DEF Exit
  <2>3. CASE Crash
    BY <1>0, <2>1, <2>3 DEF Crash
  <2>4. CASE Boot
    <3>1. holder' = "none" /\ pc' = pc /\ vms' = vms /\ \A v \in Vm : pc[v] \in {"idle", "done"}
      BY <1>0, <2>4 DEF Boot, QuietAfterExit
    <3>2. vms = [v \in Vm |-> "absent"]
      BY <1>0, <2>4 DEF Boot, QuietAfterExit
    <3>3. procs' \subseteq procs
      BY <2>4 DEF Boot, SweptProcs
    <3> QED
      BY <2>1, <3>1, <3>2, <3>3
  <2> QED
    BY <2>2, <2>3, <2>4
<1>2. Life' \in [Vm -> {"new", "gone"}] /\ \A v \in Vm : Life'[v] = "new" => Life[v] = "new"
  BY <1>1 DEF Life
<1> DEFINE E == {v \in Vm : v \notin procs' /\ pc'[v] = "done"}
<1>3. Proc' = [v \in Vm |-> IF v \in E THEN "ended" ELSE Proc[v]]
  BY <1>0, <1>1 DEF Proc
<1>4. E \in SUBSET Vm
  OBVIOUS
<1> HIDE DEF E
<1> QED
  BY <1>1, <1>2, <1>3, <1>4 DEF Map!Exit

(* Reads, and the other steps of main().                                   *)
LEMMA MainMaps ==
  ASSUME MapInv, ReadLock \/ ReadUnlock \/ Main
  PROVE  [Map!MapNext]_(Map!mapVars)
<1> USE DEF handlerVars, lockVars, hostVars, netVars, Map!mapVars
<1>1. CASE ReadLock \/ ShutdownLock
  <2>1. UNCHANGED <<pc, vms, procs>> /\ holder = "none" /\ holder' # "none"
    BY <1>1 DEF ReadLock, ShutdownLock, Lock
  <2>2. Life' = Life /\ Proc' = Proc
    BY <2>1, Unseen
  <2> QED
    BY <2>1, <2>2 DEF Map!MapNext, Map!MapStep, Map!Acquire
<1>2. CASE ReadUnlock \/ ShutdownDone
  <2>1. UNCHANGED <<pc, vms, procs>> /\ holder # "none" /\ holder' = "none"
    BY <1>2 DEF ReadUnlock, ShutdownDone, Unlock
  <2>2. Life' = Life /\ Proc' = Proc
    BY <2>1, Unseen
  <2> QED
    BY <2>1, <2>2, Unlocks
<1>3. CASE Signal \/ Drained \/ SshStopped \/ SshFailed
  <2>1. UNCHANGED <<pc, vms, procs, holder>>
    BY <1>3 DEF Signal, Drained, SshStopped, SshFailed
  <2>2. Life' = Life /\ Proc' = Proc
    BY <2>1, Unseen
  <2> QED
    BY <2>1, <2>2
<1>4. CASE Exit \/ Crash \/ Boot
  BY <1>4, ExitMaps DEF Map!MapNext
<1> QED
  BY <1>1, <1>2, <1>3, <1>4 DEF Main

(* `VmEntry`: whatever requests, rollbacks, guards, the shutdown and       *)
(* restarts do in whatever order, a Uuid enters the map once and leaves it *)
(* once, its process starts once, and entries are made and upgraded only   *)
(* while nobody holds the lock.                                            *)
THEOREM MapImplemented == Spec => MachinesLiveOnce
<1>1. Init => Map!MapInit
  BY DEF Init, Map!MapInit, Life, Proc
<1>2. MapInv /\ [Next]_vars => [Map!MapNext]_(Map!mapVars)
  <2>1. ASSUME MapInv, UNCHANGED vars PROVE UNCHANGED Map!mapVars
    <3>1. UNCHANGED <<pc, vms, procs, holder>>
      BY <2>1 DEF vars
    <3> QED
      BY <3>1, Unseen DEF Map!mapVars
  <2> QED
    BY <2>1, CreateMaps, HandlerMaps, TeardownMaps, MainMaps DEF Next
<1> QED
  BY <1>1, <1>2, MapInvariant, PTL DEF Spec, MachinesLiveOnce, Map!MapSpec
-----------------------------------------------------------------------------
(* SubnetLedger. *)

Lost == {i \in Index : pool[i] /\ Owner[i] = {}}

LentStep == [Ledger!LedgerNext]_(Ledger!ledgerVars)

(* What a step does to the subnets: nothing, or one machine gives its own  *)
(* up, with or without its bit.                                            *)
Kept ==
  /\ pool' = pool
  /\ \A w \in Vm : /\ OwnsSubnet(w)' <=> OwnsSubnet(w)
                   /\ OwnsSubnet(w) => slot'[w] = slot[w]

GivenUp(v) ==
  /\ OwnsSubnet(v) /\ ~OwnsSubnet(v)'
  /\ \A w \in Vm \ {v} : OwnsSubnet(w)' <=> OwnsSubnet(w)
  /\ slot' = slot
  /\ pool' = pool \/ pool' = Release(pool, slot[v])

LEMMA KeptIsStutter ==
  ASSUME Kept
  PROVE  LentStep
<1>1. ASSUME NEW i \in Index
      PROVE  Owner'[i] = Owner[i]
  BY DEF Kept, Owner
<1>2. Owner' = Owner
  BY <1>1 DEF Owner
<1>3. Lost' = Lost
  BY <1>2 DEF Kept, Lost
<1> QED
  BY <1>2, <1>3 DEF LentStep, Ledger!ledgerVars, Lost

(* Nobody else has the subnet, and its bit was set.                        *)
LEMMA GivenUpIsReturned ==
  ASSUME IInv, NEW v \in Vm, GivenUp(v)
  PROVE  LentStep
<1> DEFINE s == slot[v]
<1>1. s \in Index /\ pool[s] /\ pool \in Pool
  BY DEF IInv, SubnetExclusive, GivenUp, TypeOK
<1>2. Owner[s] # {} /\ Owner'[s] = {}
  <2>1. v \in Owner[s]
    BY <1>1 DEF GivenUp, Owner
  <2>2. \A w \in Vm \ {v} : ~(OwnsSubnet(w) /\ slot[w] = s)
    BY DEF IInv, SubnetExclusive, GivenUp
  <2>3. \A w \in Vm : ~(OwnsSubnet(w)' /\ slot'[w] = s)
    BY <2>2 DEF GivenUp
  <2>4. Owner'[s] = {}
    BY <1>1, <2>3 DEF Owner
  <2> QED
    BY <2>1, <2>4
<1>3. ASSUME NEW i \in Index, i # s
      PROVE  Owner'[i] = Owner[i]
  BY <1>3 DEF GivenUp, Owner
<1>4. Owner' = [Owner EXCEPT ![s] = {}]
  BY <1>1, <1>2, <1>3 DEF Owner
<1>5. CASE pool' = pool
  <2>1. Lost' = Lost \cup {s}
    BY <1>1, <1>2, <1>3, <1>5 DEF Lost
  <2> QED
    BY <1>1, <1>2, <1>4, <2>1 DEF LentStep, Ledger!LedgerNext, Ledger!Lose, Lost
<1>6. CASE pool' = Release(pool, s)
  <2>1. Lost' = Lost
    BY <1>1, <1>2, <1>3, <1>6 DEF Lost, Release, Pool
  <2> QED
    BY <1>1, <1>2, <1>4, <2>1 DEF LentStep, Ledger!LedgerNext, Ledger!Return, Lost
<1> QED
  BY <1>5, <1>6 DEF GivenUp

(* A slot that is free is nobody's, and a create asks for one only once.   *)
LEMMA AllocateLends ==
  ASSUME IInv, NEW v \in Vm, AllocateSubnet(v), ~Kept
  PROVE  LentStep
<1> USE ConstantsAssumption DEF TypeOK, PC, GoTo, Goes, lockVars, hostVars
<1>0. TypeOK /\ SubnetExclusive /\ LockConsistent
  BY DEF IInv
<1>1. PICK i \in Index : /\ ~pool[i] /\ pc[v] = "alloc" /\ pc' = [pc EXCEPT ![v] = "tap"]
                         /\ pool' = [pool EXCEPT ![i] = TRUE]
                         /\ slot' = [slot EXCEPT ![v] = i]
                         /\ UNCHANGED <<vms, victim, stage>>
  BY <1>0 DEF AllocateSubnet, IsFirstFree, IsFree, Kept, OwnsSubnet
<1>2. ~OwnsSubnet(v)
  BY <1>0, <1>1 DEF OwnsSubnet, LockConsistent
<1>3. OwnsSubnet(v)' /\ slot'[v] = i
  BY <1>0, <1>1 DEF OwnsSubnet
<1>4. \A w \in Vm \ {v} : (OwnsSubnet(w)' <=> OwnsSubnet(w)) /\ slot'[w] = slot[w]
  BY <1>0, <1>1 DEF OwnsSubnet
<1>5. \A w \in Vm : OwnsSubnet(w) => slot[w] # i
  BY <1>0, <1>1 DEF SubnetExclusive
<1>6. Owner[i] = {} /\ \A j \in Index : v \notin Owner[j]
  BY <1>2, <1>5 DEF Owner
<1>7. Owner' = [Owner EXCEPT ![i] = {v}]
  <2>1. ASSUME NEW j \in Index
        PROVE  Owner'[j] = IF j = i THEN {v} ELSE Owner[j]
    BY <1>2, <1>3, <1>4, <1>5 DEF Owner
  <2> QED
    BY <2>1 DEF Owner
<1>8. i \notin Lost /\ Lost' = Lost
  <2>1. \A j \in Index \ {i} : Owner'[j] = Owner[j] /\ (pool'[j] <=> pool[j])
    BY <1>0, <1>1, <1>7 DEF Owner, Pool
  <2>2. Owner'[i] # {} /\ ~pool[i]
    BY <1>1, <1>7 DEF Owner
  <2> QED
    BY <2>1, <2>2 DEF Lost
<1>9. Ledger!Lend(i, v)
  BY <1>6, <1>7, <1>8 DEF Ledger!Lend, Lost
<1> QED
  BY <1>9 DEF LentStep, Ledger!LedgerNext

(* When the process ends all that was lent is lost; the next one has       *)
(* nothing lent and a fresh pool.                                          *)
LEMMA ProcessEndsLedger ==
  ASSUME MapInv, Exit \/ Crash \/ Boot
  PROVE  LentStep
<1> USE DEF TypeOK, handlerVars, lockVars, netVars, hostVars
<1>0. TypeOK /\ LockConsistent /\ QuietAfterExit /\ SubnetExclusive
  BY DEF MapInv, IInv
<1>1. \A w \in Vm : ~OwnsSubnet(w)'
  <2>1. /\ \A w \in Vm : pc'[w] \in {"idle", "done"} /\ vms'[w] = "absent"
        /\ victim' = NoVm
    BY <1>0 DEF Exit, Crash, Boot, QuietAfterExit, LockConsistent
  <2> QED
    BY <2>1, ConstantsAssumption DEF OwnsSubnet
<1>2. Owner' = Ledger!Nobody
  BY <1>1 DEF Owner, Ledger!Nobody
<1>3. CASE Exit \/ Crash
  <2>1. pool' = pool
    BY <1>3 DEF Exit, Crash
  <2>2. \A i \in Index : Owner[i] # {} => pool[i]
    BY <1>0 DEF Owner, SubnetExclusive
  <2>3. Lost' = Lost \cup {i \in Index : Owner[i] # {}}
    BY <1>2, <2>1, <2>2 DEF Lost, Ledger!Nobody
  <2> QED
    BY <1>2, <2>3 DEF LentStep, Ledger!LedgerNext, Ledger!Die, Lost
<1>4. CASE Boot
  <2>1. \A w \in Vm : ~OwnsSubnet(w)
    BY <1>0, <1>4, ConstantsAssumption DEF Boot, QuietAfterExit, LockConsistent, OwnsSubnet
  <2>2. Owner = Ledger!Nobody
    BY <2>1 DEF Owner, Ledger!Nobody
  <2>3. Lost' = {}
    BY <1>4 DEF Boot, Lost, FreshPool
  <2> QED
    BY <1>2, <2>2, <2>3 DEF LentStep, Ledger!LedgerNext, Ledger!Restart, Lost
<1> QED
  BY <1>3, <1>4

(* Every other step leaves the subnets alone or gives one up.              *)
LEMMA LentOrKept ==
  ASSUME MapInv, [Next]_vars, ~Exit, ~Crash, ~Boot
  PROVE  Kept \/ (\E v \in Vm : GivenUp(v) \/ AllocateSubnet(v))
<1> USE ConstantsAssumption DEF TypeOK, PC, Stage, GoTo, Goes, JobEnds, lockVars, hostVars, netVars,
      handlerVars, OwnsSubnet, LockConsistent, EntryConsistent, Kept, GivenUp
<1> TypeOK /\ LockConsistent /\ EntryConsistent
  BY DEF MapInv, IInv
<1> DEFINE Goal == Kept \/ (\E v \in Vm : GivenUp(v) \/ AllocateSubnet(v))
<1>1. ASSUME NEW v \in Vm, CreateBegin(v) PROVE Goal
  BY <1>1 DEF CreateBegin
<1>2. ASSUME NEW v \in Vm, FreeStep(v) PROVE Goal
  <2>1. CASE CopyRootfs(v)
    BY <2>1 DEF CopyRootfs, JobEnds
  <2>2. CASE CopyRootfsFails(v)
    BY <2>2 DEF CopyRootfsFails, JobEnds
  <2>3. CASE AllocateSubnet(v)
    BY <2>3 DEF AllocateSubnet
  <2>4. CASE CreateTap(v)
    BY <2>4 DEF CreateTap
  <2>5. CASE CreateTapFails(v)
    BY <2>5 DEF CreateTapFails, JobEnds
  <2>6. CASE AddNatRules(v)
    BY <2>6 DEF AddNatRules, JobEnds
  <2>7. CASE AddNatRulesFails(v)
    BY <2>7 DEF AddNatRulesFails, JobEnds
  <2>8. CASE ReleaseFailedSubnet(v)
    <3>1. pc[v] = "netfail" /\ pc' = [pc EXCEPT ![v] = "done"]
          /\ pool' = Release(pool, slot[v]) /\ UNCHANGED <<slot, vms, holder, victim, stage>>
      BY <2>8 DEF ReleaseFailedSubnet
    <3>2. OwnsSubnet(v) /\ ~OwnsSubnet(v)'
      BY <3>1
    <3>3. \A w \in Vm \ {v} : OwnsSubnet(w)' <=> OwnsSubnet(w)
      BY <3>1
    <3>4. GivenUp(v)
      BY <3>1, <3>2, <3>3
    <3> QED
      BY <3>4
  <2>9. CASE StartVmm(v)
    BY <2>9 DEF StartVmm
  <2>10. CASE Configure(v)
    BY <2>10 DEF Configure
  <2>11. CASE SetupFails(v)
    BY <2>11 DEF SetupFails
  <2>12. CASE GuardDrop(v)
    BY <2>12 DEF GuardDrop, Release
  <2>13. CASE GuardLeaks(v)
    BY <2>13 DEF GuardLeaks
  <2> QED
    BY <1>2, <2>1, <2>2, <2>3, <2>4, <2>5, <2>6, <2>7, <2>8, <2>9, <2>10, <2>11, <2>12, <2>13 DEF FreeStep
<1>3. ASSUME NEW v \in Vm, LockingStep(v) PROVE Goal
  <2>1. CASE Reserve(v)
    BY <2>1 DEF Reserve
  <2>2. CASE Reject(v)
    BY <2>2 DEF Reject, Lock
  <2>3. CASE CreateError(v)
    BY <2>3 DEF CreateError, Lock
  <2>4. CASE Upgrade(v)
    BY <2>4 DEF Upgrade, IsUpgradable
  <2> QED
    BY <1>3, <2>1, <2>2, <2>3, <2>4 DEF LockingStep
<1>4. ASSUME NEW v \in Vm, Cancel(v) PROVE Goal
  <2>1. CASE CancelJob(v)
    BY <2>1 DEF CancelJob
  <2>2. CASE CancelUnguarded(v)
    BY <2>2 DEF CancelUnguarded
  <2>3. CASE CancelGuarded(v)
    BY <2>3 DEF CancelGuarded
  <2> QED
    BY <1>4, <2>1, <2>2, <2>3 DEF Cancel
<1>5. ASSUME NEW v \in Vm, DeleteBegin(v) PROVE Goal
  BY <1>5 DEF DeleteBegin, Lock, IsDeletable
<1>6. ASSUME NEW v \in Vm, ShutdownNext(v) PROVE Goal
  BY <1>6 DEF ShutdownNext
<1>7. ASSUME NEW v \in Vm, VmmExits(v) PROVE Goal
  BY <1>7 DEF VmmExits
<1>8. CASE Teardown
  <2>1. CASE StopInstance
    BY <2>1 DEF StopInstance, Advance, Finish
  <2>2. CASE TeardownTap
    BY <2>2 DEF TeardownTap, Advance, Finish, AfterTap
  <2>3. CASE TeardownNat
    BY <2>3 DEF TeardownNat, Advance, Finish, AfterNat
  <2>4. CASE TeardownRelease
    <3>1. victim \in Vm /\ stage = "release" /\ vms[victim] = "absent" /\ victim # NoVm
          /\ pc[victim] \notin {"tap", "nat", "netfail", "reserve"} /\ pc \in [Vm -> PC]
      BY <2>4 DEF TeardownRelease
    <3>2. /\ pool' = Release(pool, slot[victim]) /\ UNCHANGED <<slot, vms>>
          /\ \/ stage' = "rootfs" /\ victim' = victim /\ pc' = pc
             \/ /\ victim' = NoVm /\ stage' = "none"
                /\ pc' = pc \/ pc' = [pc EXCEPT ![victim] = "done"]
      BY <2>4, <3>1 DEF TeardownRelease, Advance, Finish, AfterRelease
    <3> HIDE DEF Kept, GivenUp, LockConsistent, EntryConsistent, TypeOK, PC, Stage
    <3>3. PICK v \in Vm : v = victim
      BY <3>1
    <3>4. OwnsSubnet(v) /\ ~OwnsSubnet(v)'
      BY <3>1, <3>2, <3>3
    <3>5. \A w \in Vm \ {v} : OwnsSubnet(w)' <=> OwnsSubnet(w)
      BY <3>1, <3>2, <3>3
    <3> HIDE DEF OwnsSubnet
    <3>6. GivenUp(v)
      BY <3>2, <3>3, <3>4, <3>5 DEF GivenUp
    <3> QED
      BY <3>6
  <2>5. CASE TeardownRootfs
    BY <2>5 DEF TeardownRootfs, Advance, Finish
  <2> QED
    BY <1>8, <2>1, <2>2, <2>3, <2>4, <2>5 DEF Teardown
<1>9. CASE CancelTeardown
  BY <1>9 DEF CancelTeardown, Unlock
<1>10. CASE ReadLock
  BY <1>10 DEF ReadLock, Lock
<1>11. CASE ReadUnlock
  BY <1>11 DEF ReadUnlock, Unlock
<1>12. CASE Main
  <2>1. CASE Signal
    BY <2>1 DEF Signal
  <2>2. CASE Drained
    BY <2>2 DEF Drained, NoneInFlight
  <2>3. CASE SshStopped
    BY <2>3 DEF SshStopped
  <2>4. CASE SshFailed
    BY <2>4 DEF SshFailed
  <2>5. CASE ShutdownLock
    BY <2>5 DEF ShutdownLock, Lock
  <2>6. CASE ShutdownDone
    BY <2>6 DEF ShutdownDone, Unlock
  <2>7. CASE Exit
    BY <2>7 DEF Exit
  <2>8. CASE Crash
    BY <2>8 DEF Crash
  <2>9. CASE Boot
    BY <2>9 DEF Boot, FreshPool, SweptProcs, SweptRules, SweptRootfs, SweptTaps
  <2> QED
    BY <1>12, <2>1, <2>2, <2>3, <2>4, <2>5, <2>6, <2>7, <2>8, <2>9 DEF Main
<1>13. CASE UNCHANGED vars
  BY <1>13 DEF vars
<1> QED
  BY <1>1, <1>2, <1>3, <1>4, <1>5, <1>6, <1>7, <1>8, <1>9, <1>10, <1>11, <1>12, <1>13 DEF Next

(* A subnet is lent to one machine at a time, never goes from one to       *)
(* another except through the pool, and stays out of use once lost, for    *)
(* every set of faults.                                                    *)
THEOREM SubnetsAreLent == Spec => SubnetsLent
<1>1. Init => Ledger!LedgerInit
  <2> SUFFICES ASSUME Init PROVE Ledger!LedgerInit
    OBVIOUS
  <2>1. \A w \in Vm : ~OwnsSubnet(w)
    BY ConstantsAssumption DEF Init, OwnsSubnet
  <2>2. Owner = Ledger!Nobody
    BY <2>1 DEF Owner, Ledger!Nobody
  <2>3. Lost = {}
    BY DEF Init, FreshPool, Lost
  <2> QED
    BY <2>2, <2>3 DEF Ledger!LedgerInit, Lost
<1>2. MapInv /\ [Next]_vars => LentStep
  <2> SUFFICES ASSUME MapInv, [Next]_vars PROVE LentStep
    OBVIOUS
  <2>1. IInv
    BY DEF MapInv
  <2>2. ASSUME NEW v \in Vm, AllocateSubnet(v) PROVE LentStep
    BY <2>1, <2>2, AllocateLends, KeptIsStutter
  <2> QED
    BY <2>1, <2>2, LentOrKept, KeptIsStutter, GivenUpIsReturned, ProcessEndsLedger
<1>3. MapInv /\ [Next]_vars => [Ledger!LedgerNext]_(Ledger!ledgerVars)
  BY <1>2 DEF LentStep
<1> QED
  BY <1>1, <1>3, MapInvariant, PTL DEF Spec, SubnetsLent, Ledger!LedgerSpec
=============================================================================
