---------------------------- MODULE ResourceProofs ---------------------------
(***************************************************************************)
(* What a machine has on the host stays while it has an entry, and nothing *)
(* of it is left behind, for any number of machines and subnets and any    *)
(* host.  How much may go wrong differs between the theorems: what a       *)
(* running machine has stays with it whatever fails, but a handler that is *)
(* dropped leaks.                                                          *)
(***************************************************************************)
EXTENDS VmLifecycleProofs

-----------------------------------------------------------------------------
(* A placeholder stays while its machine is set up.                        *)
(*                                                                         *)
(* A placeholder is taken out by its own create, by a guard, and by the    *)
(* shutdown.  The shutdown only runs after a drain, which leaves no create *)
(* but the ones whose handler is gone; those are in blocking jobs before   *)
(* the placeholder.  This is what PlaceholderInv adds.                     *)

(* A dropped handler leaves a blocking job, which comes to its end.        *)
DroppedInJobs == \A v \in dropped : pc[v] \in {"copy", "tap", "nat"}

(* The shutdown has the lock only after the servers have stopped, and a    *)
(* drain leaves no create behind.                                          *)
ShutdownAfterDrain ==
  /\ holder = "shutdown" => mode \in {"closing", "aborting"}
  /\ mode = "closing" =>
       /\ holder \in {"none", "shutdown"}
       /\ \A v \in Vm : pc[v] \in {"idle", "done"} \/ v \in dropped

PlaceholderInv == DroppedInJobs /\ ShutdownAfterDrain /\ PlaceholderStaysWhileServing

(* Every step keeps it.                                                    *)
LEMMA PlaceholderStep ==
  ASSUME IInv, PlaceholderInv, [Next]_vars
  PROVE  PlaceholderInv'
<1> USE DEF PlaceholderInv, DroppedInJobs, ShutdownAfterDrain, PlaceholderStaysWhileServing,
            PlaceholderStays, TypeOK, PC, GoTo, Goes, lockVars, hostVars, netVars, handlerVars,
            LockConsistent, QuietAfterExit
<1> TypeOK /\ LockConsistent /\ QuietAfterExit
  BY DEF IInv
<1>1. ASSUME NEW v \in Vm, CreateBegin(v) PROVE PlaceholderInv'
  BY <1>1 DEF CreateBegin
<1>2. ASSUME NEW v \in Vm, FreeStep(v) PROVE PlaceholderInv'
  <2>1. CASE CopyRootfs(v)
    BY <2>1 DEF CopyRootfs, JobEnds
  <2>2. CASE CopyRootfsFails(v)
    BY <2>2 DEF CopyRootfsFails, JobEnds
  <2>3. CASE AllocateSubnet(v)
    BY <2>3 DEF AllocateSubnet
  <2>4. CASE CreateTap(v)
    BY <2>4 DEF CreateTap
  <2>5. CASE CreateTapFails(v)
    BY <2>5 DEF CreateTapFails, JobEnds
  <2>6. CASE AddNatRules(v)
    BY <2>6 DEF AddNatRules, JobEnds
  <2>7. CASE AddNatRulesFails(v)
    BY <2>7 DEF AddNatRulesFails, JobEnds
  <2>8. CASE ReleaseFailedSubnet(v)
    BY <2>8 DEF ReleaseFailedSubnet
  <2>9. CASE StartVmm(v)
    BY <2>9 DEF StartVmm
  <2>10. CASE Configure(v)
    BY <2>10 DEF Configure
  <2>11. CASE SetupFails(v)
    BY <2>11 DEF SetupFails
  <2>12. CASE GuardDrop(v)
    BY <2>12 DEF GuardDrop
  <2>13. CASE GuardLeaks(v)
    BY <2>13 DEF GuardLeaks
  <2> QED
    BY <1>2, <2>1, <2>2, <2>3, <2>4, <2>5, <2>6, <2>7, <2>8, <2>9, <2>10, <2>11, <2>12, <2>13 DEF FreeStep
<1>3. ASSUME NEW v \in Vm, LockingStep(v) PROVE PlaceholderInv'
  <2>1. CASE Reserve(v)
    BY <2>1 DEF Reserve
  <2>2. CASE Reject(v)
    BY <2>2 DEF Reject, Lock
  <2>3. CASE CreateError(v)
    BY <2>3 DEF CreateError, Lock
  <2>4. CASE Upgrade(v)
    BY <2>4 DEF Upgrade, IsUpgradable
  <2> QED
    BY <1>3, <2>1, <2>2, <2>3, <2>4 DEF LockingStep
<1>4. ASSUME NEW v \in Vm, Cancel(v) PROVE PlaceholderInv'
  <2>1. CASE CancelJob(v)
    BY <2>1 DEF CancelJob
  <2>2. CASE CancelUnguarded(v)
    BY <2>2 DEF CancelUnguarded
  <2>3. CASE CancelGuarded(v)
    BY <2>3 DEF CancelGuarded
  <2> QED
    BY <1>4, <2>1, <2>2, <2>3 DEF Cancel
<1>5. ASSUME NEW v \in Vm, DeleteBegin(v) PROVE PlaceholderInv'
  BY <1>5 DEF DeleteBegin, IsDeletable, Lock
<1>6. ASSUME NEW v \in Vm, ShutdownNext(v) PROVE PlaceholderInv'
  BY <1>6 DEF ShutdownNext
<1>7. ASSUME NEW v \in Vm, VmmExits(v) PROVE PlaceholderInv'
  BY <1>7 DEF VmmExits
<1>8. CASE Teardown
  <2>1. CASE StopInstance
    BY <2>1 DEF StopInstance, Advance, Finish
  <2>2. CASE TeardownTap
    BY <2>2 DEF TeardownTap, Advance, Finish, AfterTap
  <2>3. CASE TeardownNat
    BY <2>3 DEF TeardownNat, Advance, Finish, AfterNat
  <2>4. CASE TeardownRelease
    BY <2>4 DEF TeardownRelease, Advance, Finish, AfterRelease
  <2>5. CASE TeardownRootfs
    BY <2>5 DEF TeardownRootfs, Advance, Finish
  <2> QED
    BY <1>8, <2>1, <2>2, <2>3, <2>4, <2>5 DEF Teardown
<1>9. CASE CancelTeardown
  BY <1>9 DEF CancelTeardown, Unlock
<1>10. CASE ReadLock
  BY <1>10 DEF ReadLock, Lock
<1>11. CASE ReadUnlock
  BY <1>11 DEF ReadUnlock, Unlock
<1>12. CASE Main
  <2>1. CASE Signal
    BY <2>1 DEF Signal
  <2>2. CASE Drained
    BY <2>2 DEF Drained, NoneInFlight
  <2>3. CASE SshStopped
    BY <2>3 DEF SshStopped
  <2>4. CASE SshFailed
    BY <2>4 DEF SshFailed
  <2>5. CASE ShutdownLock
    BY <2>5 DEF ShutdownLock, Lock
  <2>6. CASE ShutdownDone
    BY <2>6 DEF ShutdownDone, Unlock
  <2>7. CASE Exit
    BY <2>7 DEF Exit
  <2>8. CASE Crash
    BY <2>8 DEF Crash
  <2>9. CASE Boot
    BY <2>9 DEF Boot
  <2> QED
    BY <1>12, <2>1, <2>2, <2>3, <2>4, <2>5, <2>6, <2>7, <2>8, <2>9 DEF Main
<1>13. CASE UNCHANGED vars
  BY <1>13 DEF vars
<1> QED
  BY <1>1, <1>2, <1>3, <1>4, <1>5, <1>6, <1>7, <1>8, <1>9, <1>10, <1>11, <1>12, <1>13 DEF Next

(* It holds in every reachable state.                                      *)
LEMMA PlaceholderInvariant == Spec => []PlaceholderInv
<1>1. Init => PlaceholderInv
  BY DEF Init, PlaceholderInv, DroppedInJobs, ShutdownAfterDrain,
         PlaceholderStaysWhileServing, PlaceholderStays
<1>2. IInv /\ PlaceholderInv /\ [Next]_vars => PlaceholderInv'
  BY PlaceholderStep
<1> QED
  BY <1>1, <1>2, Invariant, PTL DEF Spec

(* No DELETE, rollback, other create or graceful shutdown ever takes the   *)
(* placeholder of a create whose setup is running.                         *)
THEOREM PlaceholderKept == Spec => []PlaceholderStaysWhileServing
<1>1. PlaceholderInv => PlaceholderStaysWhileServing
  BY DEF PlaceholderInv
<1> QED
  BY <1>1, PlaceholderInvariant, PTL
-----------------------------------------------------------------------------
(* A running machine keeps what it has. *)

(* What a create has made by the time it gets somewhere is there, and is   *)
(* there for as long as its entry.                                         *)
MadeInOrder ==
  \A v \in Vm :
    /\ pc[v] \in {"alloc", "tap", "nat", "reserve"} \/ vms[v] # "absent" => v \in rootfs
    /\ pc[v] \in {"nat", "reserve"} \/ vms[v] # "absent" => slot[v] \in taps
    /\ pc[v] = "reserve" \/ vms[v] # "absent" => RulesOf(v) \subseteq rules
    /\ vms[v] = "running" \/ (vms[v] = "creating" /\ pc[v] \in {"configure", "upgrade"}) =>
         v \in procs \/ "exit" \in Faults

(* Every step keeps it: a removal is of the things of one machine, which   *)
(* is out of the map by then and shares its subnet with nobody.            *)
LEMMA MadeStep ==
  ASSUME MapInv, MadeInOrder, [Next]_vars
  PROVE  MadeInOrder'
<1> USE ConstantsAssumption DEF TypeOK, PC, Stage, GoTo, Goes, JobEnds, lockVars, hostVars, netVars,
      handlerVars, LockConsistent, QuietAfterExit, EntryConsistent, BeforeEntry, MadeInOrder
<1> TypeOK /\ LockConsistent /\ QuietAfterExit /\ EntryConsistent /\ SubnetExclusive
  BY DEF MapInv, IInv
<1>1. ASSUME NEW v \in Vm, CreateBegin(v) PROVE MadeInOrder'
  BY <1>1 DEF CreateBegin
<1>2. ASSUME NEW v \in Vm, FreeStep(v) PROVE MadeInOrder'
  <2>1. CASE CopyRootfs(v)
    BY <2>1 DEF CopyRootfs, JobEnds
  <2>2. CASE CopyRootfsFails(v)
    BY <2>2 DEF CopyRootfsFails, JobEnds
  <2>3. CASE AllocateSubnet(v)
    BY <2>3 DEF AllocateSubnet
  <2>4. CASE CreateTap(v)
    BY <2>4 DEF CreateTap
  <2>5. CASE CreateTapFails(v)
    BY <2>5 DEF CreateTapFails, JobEnds
  <2>6. CASE AddNatRules(v)
    BY <2>6 DEF AddNatRules, JobEnds
  <2>7. CASE AddNatRulesFails(v)
    <3>1. \A w \in Vm \ {v} : slot[w] = slot[v] => ~OwnsSubnet(w)
      BY <2>7 DEF AddNatRulesFails, SubnetExclusive, OwnsSubnet
    <3>2. taps \ {slot[v]} \subseteq taps'
      BY <2>7, WithoutKeeps DEF AddNatRulesFails
    <3> QED
      BY <2>7, <3>1, <3>2 DEF AddNatRulesFails, OwnsSubnet
  <2>8. CASE ReleaseFailedSubnet(v)
    BY <2>8 DEF ReleaseFailedSubnet, Release
  <2>9. CASE StartVmm(v)
    BY <2>9 DEF StartVmm
  <2>10. CASE Configure(v)
    BY <2>10 DEF Configure
  <2>11. CASE SetupFails(v)
    BY <2>11 DEF SetupFails
  <2>12. CASE GuardDrop(v)
    <3>1. CASE vms[v] = "creating"
      <4>1. \A w \in Vm \ {v} : slot[w] = slot[v] => ~OwnsSubnet(w)
        BY <3>1 DEF SubnetExclusive, OwnsSubnet
      <4>2. /\ taps \ {slot[v]} \subseteq taps'
            /\ rules \ RulesOf(v) \subseteq rules'
            /\ rootfs \ {v} \subseteq rootfs'
        BY <2>12, <3>1, WithoutKeeps DEF GuardDrop
      <4>3. \A w \in Vm \ {v} : RulesOf(w) \cap RulesOf(v) = {}
        BY DEF RulesOf
      <4> QED
        BY <2>12, <4>1, <4>2, <4>3 DEF GuardDrop, OwnsSubnet
    <3>2. CASE vms[v] # "creating"
      BY <2>12, <3>2 DEF GuardDrop
    <3> QED
      BY <3>1, <3>2
  <2>13. CASE GuardLeaks(v)
    BY <2>13 DEF GuardLeaks
  <2> QED
    BY <1>2, <2>1, <2>2, <2>3, <2>4, <2>5, <2>6, <2>7, <2>8, <2>9, <2>10, <2>11, <2>12, <2>13 DEF FreeStep
<1>3. ASSUME NEW v \in Vm, LockingStep(v) PROVE MadeInOrder'
  <2>1. CASE Reserve(v)
    BY <2>1 DEF Reserve
  <2>2. CASE Reject(v)
    BY <2>2 DEF Reject, Lock
  <2>3. CASE CreateError(v)
    BY <2>3 DEF CreateError, Lock
  <2>4. CASE Upgrade(v)
    BY <2>4 DEF Upgrade, IsUpgradable
  <2> QED
    BY <1>3, <2>1, <2>2, <2>3, <2>4 DEF LockingStep
<1>4. ASSUME NEW v \in Vm, Cancel(v) PROVE MadeInOrder'
  <2>1. CASE CancelJob(v)
    BY <2>1 DEF CancelJob
  <2>2. CASE CancelUnguarded(v)
    BY <2>2 DEF CancelUnguarded
  <2>3. CASE CancelGuarded(v)
    BY <2>3 DEF CancelGuarded
  <2> QED
    BY <1>4, <2>1, <2>2, <2>3 DEF Cancel
<1>5. ASSUME NEW v \in Vm, DeleteBegin(v) PROVE MadeInOrder'
  BY <1>5 DEF DeleteBegin, Lock, IsDeletable
<1>6. ASSUME NEW v \in Vm, ShutdownNext(v) PROVE MadeInOrder'
  BY <1>6 DEF ShutdownNext
<1>7. ASSUME NEW v \in Vm, VmmExits(v) PROVE MadeInOrder'
  BY <1>7 DEF VmmExits
<1>8. CASE Teardown
  <2>1. CASE StopInstance
    BY <2>1 DEF StopInstance, Advance, Finish
  <2>2. CASE TeardownTap
    <3>1. \A w \in Vm \ {victim} : slot[w] = slot[victim] => ~OwnsSubnet(w)
      BY <2>2 DEF TeardownTap, SubnetExclusive, OwnsSubnet
    <3>2. taps \ {slot[victim]} \subseteq taps'
      BY <2>2, WithoutKeeps DEF TeardownTap
    <3> QED
      BY <2>2, <3>1, <3>2 DEF TeardownTap, Advance, Finish, AfterTap, OwnsSubnet
  <2>3. CASE TeardownNat
    <3>1. rules \ RulesOf(victim) \subseteq rules'
      BY <2>3, WithoutKeeps DEF TeardownNat
    <3>2. \A w \in Vm \ {victim} : RulesOf(w) \cap RulesOf(victim) = {}
      BY DEF RulesOf
    <3> QED
      BY <2>3, <3>1, <3>2 DEF TeardownNat, Advance, Finish, AfterNat
  <2>4. CASE TeardownRelease
    BY <2>4 DEF TeardownRelease, Advance, Finish, AfterRelease, Release
  <2>5. CASE TeardownRootfs
    <3>1. rootfs \ {victim} \subseteq rootfs'
      BY <2>5, WithoutKeeps DEF TeardownRootfs
    <3> QED
      BY <2>5, <3>1 DEF TeardownRootfs, Advance, Finish
  <2> QED
    BY <1>8, <2>1, <2>2, <2>3, <2>4, <2>5 DEF Teardown
<1>9. CASE CancelTeardown
  BY <1>9 DEF CancelTeardown, Unlock
<1>10. CASE ReadLock
  BY <1>10 DEF ReadLock, Lock
<1>11. CASE ReadUnlock
  BY <1>11 DEF ReadUnlock, Unlock
<1>12. CASE Main
  <2>1. CASE Signal
    BY <2>1 DEF Signal
  <2>2. CASE Drained
    BY <2>2 DEF Drained, NoneInFlight
  <2>3. CASE SshStopped
    BY <2>3 DEF SshStopped
  <2>4. CASE SshFailed
    BY <2>4 DEF SshFailed
  <2>5. CASE ShutdownLock
    BY <2>5 DEF ShutdownLock, Lock
  <2>6. CASE ShutdownDone
    BY <2>6 DEF ShutdownDone, Unlock
  <2>7. CASE Exit
    BY <2>7 DEF Exit
  <2>8. CASE Crash
    BY <2>8 DEF Crash
  <2>9. CASE Boot
    BY <2>9 DEF Boot, FreshPool, SweptProcs, SweptRules, SweptRootfs, SweptTaps
  <2> QED
    BY <1>12, <2>1, <2>2, <2>3, <2>4, <2>5, <2>6, <2>7, <2>8, <2>9 DEF Main
<1>13. CASE UNCHANGED vars
  BY <1>13 DEF vars
<1> QED
  BY <1>1, <1>2, <1>3, <1>4, <1>5, <1>6, <1>7, <1>8, <1>9, <1>10, <1>11, <1>12, <1>13 DEF Next

(* `Running(VmEntry)`: no rollback, teardown, guard or failure of another  *)
(* machine, nor of its own create, takes the process, the tap device, a    *)
(* rule or the disk of a machine that is listed as running.                *)
THEOREM RunningStaysIntact == Spec => []RunningIntact
<1>1. Init => MadeInOrder
  BY DEF Init, MadeInOrder
<1>2. MapInv /\ MadeInOrder /\ [Next]_vars => MadeInOrder'
  BY MadeStep
<1>3. MadeInOrder => RunningIntact
  BY DEF MadeInOrder, RunningIntact
<1> QED
  BY <1>1, <1>2, <1>3, MapInvariant, PTL DEF Spec

-----------------------------------------------------------------------------
(* A free slot is clean. *)

(* While no command fails, a tap device is only there for a slot that is   *)
(* in use, a create finds none, and a teardown that gives a slot back has  *)
(* removed it.                                                             *)
TapsAllocated ==
  /\ FreeSlotHasNoTap
  /\ \A v \in Vm : pc[v] # "netfail" /\ (pc[v] = "tap" => slot[v] \notin taps)
  /\ stage = "release" \/ (stage = "nat" /\ holder # "reject") => slot[victim] \notin taps

(* Every step keeps it.                                                    *)
LEMMA TapsStep ==
  ASSUME MapInv, TapsAllocated, [Next]_vars, "cmd" \notin Faults
  PROVE  TapsAllocated'
<1> USE ConstantsAssumption DEF TypeOK, PC, Stage, GoTo, Goes, JobEnds, lockVars, hostVars, netVars,
      handlerVars, LockConsistent, QuietAfterExit, EntryConsistent, BeforeEntry, TapsAllocated, FreeSlotHasNoTap
<1> TypeOK /\ LockConsistent /\ QuietAfterExit /\ EntryConsistent /\ SubnetExclusive
  BY DEF MapInv, IInv
<1>1. ASSUME NEW v \in Vm, CreateBegin(v) PROVE TapsAllocated'
  BY <1>1 DEF CreateBegin
<1>2. ASSUME NEW v \in Vm, FreeStep(v) PROVE TapsAllocated'
  <2>1. CASE CopyRootfs(v)
    BY <2>1 DEF CopyRootfs, JobEnds
  <2>2. CASE CopyRootfsFails(v)
    BY <2>2 DEF CopyRootfsFails, JobEnds
  <2>3. CASE AllocateSubnet(v)
    <3>1. ASSUME NEW i \in Index, IsFirstFree(pool, i), Goes(v, "alloc", "tap"),
                  pool' = [pool EXCEPT ![i] = TRUE], slot' = [slot EXCEPT ![v] = i]
          PROVE  TapsAllocated'
      <4>1. i \notin taps
        BY <3>1 DEF IsFirstFree, IsFree
      <4> QED
        BY <2>3, <3>1, <4>1 DEF AllocateSubnet
    <3>2. CASE Goes(v, "alloc", "done") /\ UNCHANGED <<pool, slot>>
      BY <2>3, <3>2 DEF AllocateSubnet
    <3> QED
      BY <2>3, <3>1, <3>2 DEF AllocateSubnet
  <2>4. CASE CreateTap(v)
    <3>1. slot[v] \in Index /\ pool[slot[v]]
      BY <2>4 DEF CreateTap, SubnetExclusive, OwnsSubnet
    <3>2. \A w \in Vm \ {v} : OwnsSubnet(w) => slot[w] # slot[v]
      BY <2>4 DEF CreateTap, SubnetExclusive, OwnsSubnet
    <3>3. stage \in {"nat", "release"} => victim \in Vm \ {v} /\ OwnsSubnet(victim)
      BY <2>4 DEF CreateTap, OwnsSubnet
    <3>4. \A w \in Vm \ {v} : pc'[w] = "tap" => OwnsSubnet(w)
      BY <2>4 DEF CreateTap, OwnsSubnet
    <3> QED
      BY <2>4, <3>1, <3>2, <3>3, <3>4 DEF CreateTap
  <2>5. CASE CreateTapFails(v)
    BY <2>5 DEF CreateTapFails, JobEnds
  <2>6. CASE AddNatRules(v)
    BY <2>6 DEF AddNatRules, JobEnds
  <2>7. CASE AddNatRulesFails(v)
    BY <2>7 DEF AddNatRulesFails, JobEnds
  <2>8. CASE ReleaseFailedSubnet(v)
    BY <2>8 DEF ReleaseFailedSubnet, Release
  <2>9. CASE StartVmm(v)
    BY <2>9 DEF StartVmm
  <2>10. CASE Configure(v)
    BY <2>10 DEF Configure
  <2>11. CASE SetupFails(v)
    BY <2>11 DEF SetupFails
  <2>12. CASE GuardDrop(v)
    <3>1. taps' \subseteq taps
      BY <2>12, WithoutSubset DEF GuardDrop
    <3>2. CASE vms[v] = "creating"
      <4>1. slot[v] \notin taps'
        BY <2>12, <3>2, WithoutTakes DEF GuardDrop
      <4>2. \A i \in Index \ {slot[v]} : pool[i] => pool'[i]
        <5>1. pool' = Release(pool, slot[v]) \/ pool' = pool
          BY <2>12, <3>2 DEF GuardDrop
        <5> QED
          BY <5>1 DEF Release, Pool
      <4> QED
        BY <2>12, <3>1, <4>1, <4>2 DEF GuardDrop
    <3>3. CASE vms[v] # "creating"
      BY <2>12, <3>3 DEF GuardDrop
    <3> QED
      BY <3>2, <3>3
  <2>13. CASE GuardLeaks(v)
    BY <2>13 DEF GuardLeaks
  <2> QED
    BY <1>2, <2>1, <2>2, <2>3, <2>4, <2>5, <2>6, <2>7, <2>8, <2>9, <2>10, <2>11, <2>12, <2>13 DEF FreeStep
<1>3. ASSUME NEW v \in Vm, LockingStep(v) PROVE TapsAllocated'
  <2>1. CASE Reserve(v)
    BY <2>1 DEF Reserve
  <2>2. CASE Reject(v)
    BY <2>2 DEF Reject, Lock
  <2>3. CASE CreateError(v)
    BY <2>3 DEF CreateError, Lock
  <2>4. CASE Upgrade(v)
    BY <2>4 DEF Upgrade, IsUpgradable
  <2> QED
    BY <1>3, <2>1, <2>2, <2>3, <2>4 DEF LockingStep
<1>4. ASSUME NEW v \in Vm, Cancel(v) PROVE TapsAllocated'
  <2>1. CASE CancelJob(v)
    BY <2>1 DEF CancelJob
  <2>2. CASE CancelUnguarded(v)
    BY <2>2 DEF CancelUnguarded
  <2>3. CASE CancelGuarded(v)
    BY <2>3 DEF CancelGuarded
  <2> QED
    BY <1>4, <2>1, <2>2, <2>3 DEF Cancel
<1>5. ASSUME NEW v \in Vm, DeleteBegin(v) PROVE TapsAllocated'
  BY <1>5 DEF DeleteBegin, Lock, IsDeletable
<1>6. ASSUME NEW v \in Vm, ShutdownNext(v) PROVE TapsAllocated'
  BY <1>6 DEF ShutdownNext
<1>7. ASSUME NEW v \in Vm, VmmExits(v) PROVE TapsAllocated'
  BY <1>7 DEF VmmExits
<1>8. CASE Teardown
  <2>1. CASE StopInstance
    BY <2>1 DEF StopInstance, Advance, Finish
  <2>2. CASE TeardownTap
    <3>1. taps' = taps \ {slot[victim]}
      BY <2>2, WithoutTakes DEF TeardownTap
    <3> QED
      BY <2>2, <3>1 DEF TeardownTap, Advance, Finish, AfterTap
  <2>3. CASE TeardownNat
    BY <2>3 DEF TeardownNat, Advance, Finish, AfterNat
  <2>4. CASE TeardownRelease
    BY <2>4 DEF TeardownRelease, Advance, Finish, AfterRelease, Release
  <2>5. CASE TeardownRootfs
    BY <2>5 DEF TeardownRootfs, Advance, Finish
  <2> QED
    BY <1>8, <2>1, <2>2, <2>3, <2>4, <2>5 DEF Teardown
<1>9. CASE CancelTeardown
  BY <1>9 DEF CancelTeardown, Unlock
<1>10. CASE ReadLock
  BY <1>10 DEF ReadLock, Lock
<1>11. CASE ReadUnlock
  BY <1>11 DEF ReadUnlock, Unlock
<1>12. CASE Main
  <2>1. CASE Signal
    BY <2>1 DEF Signal
  <2>2. CASE Drained
    BY <2>2 DEF Drained, NoneInFlight
  <2>3. CASE SshStopped
    BY <2>3 DEF SshStopped
  <2>4. CASE SshFailed
    BY <2>4 DEF SshFailed
  <2>5. CASE ShutdownLock
    BY <2>5 DEF ShutdownLock, Lock
  <2>6. CASE ShutdownDone
    BY <2>6 DEF ShutdownDone, Unlock
  <2>7. CASE Exit
    BY <2>7 DEF Exit
  <2>8. CASE Crash
    BY <2>8 DEF Crash
  <2>9. CASE Boot
    <3>1. taps' = {}
      BY <2>9, WithoutTakes DEF Boot, SweptTaps
    <3> QED
      BY <2>9, <3>1 DEF Boot
  <2> QED
    BY <1>12, <2>1, <2>2, <2>3, <2>4, <2>5, <2>6, <2>7, <2>8, <2>9 DEF Main
<1>13. CASE UNCHANGED vars
  BY <1>13 DEF vars
<1> QED
  BY <1>1, <1>2, <1>3, <1>4, <1>5, <1>6, <1>7, <1>8, <1>9, <1>10, <1>11, <1>12, <1>13 DEF Next

(* It holds in every reachable state.                                      *)
LEMMA TapsInvariant ==
  ASSUME "cmd" \notin Faults
  PROVE  Spec => []TapsAllocated
<1>1. Init => TapsAllocated
  BY DEF Init, TapsAllocated, FreeSlotHasNoTap
<1>2. MapInv /\ TapsAllocated /\ [Next]_vars => TapsAllocated'
  BY TapsStep
<1> QED
  BY <1>1, <1>2, MapInvariant, PTL DEF Spec

(* `release` is called after `delete_tap` on every path: whatever handlers *)
(* are dropped and however often the process dies, the lowest free slot    *)
(* never has a tap device, so no create fails for a device that exists.    *)
THEOREM FreeSlotsClean ==
  ASSUME "cmd" \notin Faults
  PROVE  Spec => []FreeSlotHasNoTap
<1>1. TapsAllocated => FreeSlotHasNoTap
  BY DEF TapsAllocated
<1> QED
  BY <1>1, TapsInvariant, PTL

-----------------------------------------------------------------------------
(* Nothing leaks. *)

(* While only guests power off and processes die, no handler is dropped:   *)
(* the shutdown comes after the drain, which leaves no request, and leaves *)
(* no entry itself.                                                        *)
Calm ==
  /\ dropped = {}
  /\ \A v \in Vm :
       /\ pc[v] # "guard"
       /\ vms[v] = "creating" => pc[v] \in {"setup", "configure", "upgrade", "error"}
  /\ mode # "aborting"
  /\ mode \in {"closing", "exiting"} => \A v \in Vm : pc[v] \in {"idle", "done"}
  /\ mode = "closing" => holder \in {"none", "shutdown"}
  /\ holder = "shutdown" => mode = "closing"
  /\ mode = "exiting" => stage = "none" /\ \A v \in Vm : vms[v] = "absent"

(* Every step keeps it.                                                    *)
LEMMA CalmStep ==
  ASSUME MapInv, Calm, [Next]_vars, Faults \subseteq {"exit", "crash"}
  PROVE  Calm'
<1> USE ConstantsAssumption DEF TypeOK, PC, Stage, GoTo, Goes, JobEnds, lockVars, hostVars, netVars,
      handlerVars, LockConsistent, QuietAfterExit, EntryConsistent, BeforeEntry, Calm
<1> TypeOK /\ LockConsistent /\ QuietAfterExit /\ EntryConsistent /\ SubnetExclusive
  BY DEF MapInv, IInv
<1>1. ASSUME NEW v \in Vm, CreateBegin(v) PROVE Calm'
  BY <1>1 DEF CreateBegin
<1>2. ASSUME NEW v \in Vm, FreeStep(v) PROVE Calm'
  <2>1. CASE CopyRootfs(v)
    BY <2>1 DEF CopyRootfs, JobEnds
  <2>2. CASE CopyRootfsFails(v)
    BY <2>2 DEF CopyRootfsFails, JobEnds
  <2>3. CASE AllocateSubnet(v)
    BY <2>3 DEF AllocateSubnet
  <2>4. CASE CreateTap(v)
    BY <2>4 DEF CreateTap
  <2>5. CASE CreateTapFails(v)
    BY <2>5 DEF CreateTapFails, JobEnds
  <2>6. CASE AddNatRules(v)
    BY <2>6 DEF AddNatRules, JobEnds
  <2>7. CASE AddNatRulesFails(v)
    BY <2>7 DEF AddNatRulesFails, JobEnds
  <2>8. CASE ReleaseFailedSubnet(v)
    BY <2>8 DEF ReleaseFailedSubnet, Release
  <2>9. CASE StartVmm(v)
    BY <2>9 DEF StartVmm
  <2>10. CASE Configure(v)
    BY <2>10 DEF Configure
  <2>11. CASE SetupFails(v)
    BY <2>11 DEF SetupFails
  <2>12. CASE GuardDrop(v)
    BY <2>12 DEF GuardDrop, Release
  <2>13. CASE GuardLeaks(v)
    BY <2>13 DEF GuardLeaks
  <2> QED
    BY <1>2, <2>1, <2>2, <2>3, <2>4, <2>5, <2>6, <2>7, <2>8, <2>9, <2>10, <2>11, <2>12, <2>13 DEF FreeStep
<1>3. ASSUME NEW v \in Vm, LockingStep(v) PROVE Calm'
  <2>1. CASE Reserve(v)
    BY <2>1 DEF Reserve
  <2>2. CASE Reject(v)
    BY <2>2 DEF Reject, Lock
  <2>3. CASE CreateError(v)
    BY <2>3 DEF CreateError, Lock
  <2>4. CASE Upgrade(v)
    BY <2>4 DEF Upgrade, IsUpgradable
  <2> QED
    BY <1>3, <2>1, <2>2, <2>3, <2>4 DEF LockingStep
<1>4. ASSUME NEW v \in Vm, Cancel(v) PROVE Calm'
  <2>1. CASE CancelJob(v)
    BY <2>1 DEF CancelJob, MayDrop
  <2>2. CASE CancelUnguarded(v)
    BY <2>2 DEF CancelUnguarded
  <2>3. CASE CancelGuarded(v)
    BY <2>3 DEF CancelGuarded, MayDrop
  <2> QED
    BY <1>4, <2>1, <2>2, <2>3 DEF Cancel
<1>5. ASSUME NEW v \in Vm, DeleteBegin(v) PROVE Calm'
  BY <1>5 DEF DeleteBegin, Lock, IsDeletable
<1>6. ASSUME NEW v \in Vm, ShutdownNext(v) PROVE Calm'
  BY <1>6 DEF ShutdownNext
<1>7. ASSUME NEW v \in Vm, VmmExits(v) PROVE Calm'
  BY <1>7 DEF VmmExits
<1>8. CASE Teardown
  <2>1. CASE StopInstance
    BY <2>1 DEF StopInstance, Advance, Finish
  <2>2. CASE TeardownTap
    BY <2>2 DEF TeardownTap, Advance, Finish, AfterTap
  <2>3. CASE TeardownNat
    BY <2>3 DEF TeardownNat, Advance, Finish, AfterNat
  <2>4. CASE TeardownRelease
    BY <2>4 DEF TeardownRelease, Advance, Finish, AfterRelease, Release
  <2>5. CASE TeardownRootfs
    BY <2>5 DEF TeardownRootfs, Advance, Finish
  <2> QED
    BY <1>8, <2>1, <2>2, <2>3, <2>4, <2>5 DEF Teardown
<1>9. CASE CancelTeardown
  BY <1>9 DEF CancelTeardown, MayDrop
<1>10. CASE ReadLock
  BY <1>10 DEF ReadLock, Lock
<1>11. CASE ReadUnlock
  BY <1>11 DEF ReadUnlock, Unlock
<1>12. CASE Main
  <2>1. CASE Signal
    BY <2>1 DEF Signal
  <2>2. CASE Drained
    BY <2>2 DEF Drained, NoneInFlight
  <2>3. CASE SshStopped
    BY <2>3 DEF SshStopped
  <2>4. CASE SshFailed
    BY <2>4 DEF SshFailed
  <2>5. CASE ShutdownLock
    BY <2>5 DEF ShutdownLock, Lock
  <2>6. CASE ShutdownDone
    BY <2>6 DEF ShutdownDone, Unlock, Entries
  <2>7. CASE Exit
    BY <2>7 DEF Exit
  <2>8. CASE Crash
    BY <2>8 DEF Crash
  <2>9. CASE Boot
    BY <2>9 DEF Boot, FreshPool, SweptProcs, SweptRules, SweptRootfs, SweptTaps
  <2> QED
    BY <1>12, <2>1, <2>2, <2>3, <2>4, <2>5, <2>6, <2>7, <2>8, <2>9 DEF Main
<1>13. CASE UNCHANGED vars
  BY <1>13 DEF vars
<1> QED
  BY <1>1, <1>2, <1>3, <1>4, <1>5, <1>6, <1>7, <1>8, <1>9, <1>10, <1>11, <1>12, <1>13 DEF Next

(* What is on the host belongs to a machine that owns its subnet: where a  *)
(* create has no rules yet, where a teardown has removed them, and whose   *)
(* process may run.                                                        *)
Owned ==
  /\ NetworkOwned
  /\ \A v \in Vm : pc[v] \in {"tap", "nat"} => RulesOf(v) \cap rules = {}
  /\ stage = "release" \/ (stage = "tap" /\ holder = "reject") =>
       RulesOf(victim) \cap rules = {}
  /\ stage = "stop" => holder \in {"delete", "shutdown"}
  /\ mode # "exited" =>
       \A v \in procs : vms[v] # "absent" \/ (victim = v /\ stage = "stop")
  /\ \A v \in Vm : pc[v] = "error" => v \notin procs
  /\ victim # NoVm => slot[victim] \in Index
  /\ "crash" \notin Faults => CleanExit

(* What was owned stays so when owners stay, or leave nothing.             *)
LEMMA StillOwned ==
  ASSUME TypeOK, NetworkOwned, mode # "exited",
         \A i \in Index : pool'[i] => pool[i],
         taps' \subseteq taps, rules' \subseteq rules,
         \A w \in Vm : OwnsSubnet(w) =>
           \/ OwnsSubnet(w)' /\ slot'[w] = slot[w]
           \/ ~pool'[slot[w]] /\ slot[w] \notin taps' /\ RulesOf(w) \cap rules' = {}
  PROVE  NetworkOwned'
<1>1. \A i \in Index : pool'[i] => \E w \in Vm : OwnsSubnet(w)' /\ slot'[w] = i
  BY DEF NetworkOwned
<1>2. \A i \in taps' : \E w \in Vm : OwnsSubnet(w)' /\ slot'[w] = i
  BY DEF NetworkOwned
<1>3. ASSUME NEW r \in rules'
      PROVE  OwnsSubnet(r[1])'
  <2>1. r \in rules /\ r[1] \in Vm /\ r \in RulesOf(r[1])
    BY DEF TypeOK, RulesOf
  <2> QED
    BY <2>1 DEF NetworkOwned
<1> QED
  BY <1>1, <1>2, <1>3 DEF NetworkOwned

(* Every step keeps it.                                                    *)
LEMMA OwnedStep ==
  ASSUME MapInv, PlaceholderInv, TapsAllocated, Calm, Owned, [Next]_vars,
         Faults \subseteq {"exit", "crash"}
  PROVE  Owned'
<1> USE ConstantsAssumption DEF TypeOK, PC, Stage, GoTo, Goes, JobEnds, lockVars, hostVars, netVars,
      handlerVars, LockConsistent, QuietAfterExit, EntryConsistent, BeforeEntry, Calm, Owned,
      NetworkOwned, CleanExit, OwnsSubnet, RulesOf
<1> /\ TypeOK /\ LockConsistent /\ QuietAfterExit /\ EntryConsistent /\ SubnetExclusive
    /\ mode # "exited" => PlaceholderStays
  BY DEF MapInv, IInv, PlaceholderInv, PlaceholderStaysWhileServing, PlaceholderStays
<1>1. ASSUME NEW v \in Vm, CreateBegin(v) PROVE Owned'
  BY <1>1 DEF CreateBegin
<1>2. ASSUME NEW v \in Vm, FreeStep(v) PROVE Owned'
  <2>1. CASE CopyRootfs(v)
    BY <2>1 DEF CopyRootfs, JobEnds
  <2>2. CASE CopyRootfsFails(v)
    BY <2>2 DEF CopyRootfsFails, JobEnds
  <2>3. CASE AllocateSubnet(v)
    <3>1. ASSUME NEW i \in Index, IsFirstFree(pool, i), Goes(v, "alloc", "tap"),
                  pool' = [pool EXCEPT ![i] = TRUE], slot' = [slot EXCEPT ![v] = i]
          PROVE  Owned'
      <4>1. ~OwnsSubnet(v)
        BY <3>1
      <4>2. OwnsSubnet(v)' /\ slot'[v] = i
        BY <2>3, <3>1 DEF AllocateSubnet
      <4>3. \A w \in Vm \ {v} : OwnsSubnet(w) => OwnsSubnet(w)' /\ slot'[w] = slot[w]
        BY <2>3, <3>1 DEF AllocateSubnet
      <4>4. mode # "exited" /\ UNCHANGED <<taps, rules>>
        BY <2>3, <3>1 DEF AllocateSubnet
      <4>5. \A j \in Index \ {i} : pool'[j] = pool[j]
        BY <3>1
      <4>6. NetworkOwned' /\ RulesOf(v) \cap rules = {}
        <5>1. \A w \in Vm : OwnsSubnet(w) => OwnsSubnet(w)' /\ slot'[w] = slot[w]
          BY <4>1, <4>3
        <5>2. \A r \in rules : r[1] \in Vm
          OBVIOUS
        <5> HIDE DEF OwnsSubnet
        <5> QED
          BY <4>1, <4>2, <4>4, <4>5, <5>1, <5>2
      <4> HIDE DEF NetworkOwned
      <4> QED
        BY <2>3, <3>1, <4>6 DEF AllocateSubnet
    <3>2. CASE Goes(v, "alloc", "done") /\ UNCHANGED <<pool, slot>>
      BY <2>3, <3>2 DEF AllocateSubnet
    <3> QED
      BY <2>3, <3>1, <3>2 DEF AllocateSubnet
  <2>4. CASE CreateTap(v)
    BY <2>4 DEF CreateTap
  <2>5. CASE CreateTapFails(v)
    BY <2>5 DEF CreateTapFails, JobEnds
  <2>6. CASE AddNatRules(v)
    BY <2>6 DEF AddNatRules, JobEnds
  <2>7. CASE AddNatRulesFails(v)
    BY <2>7 DEF AddNatRulesFails, JobEnds
  <2>8. CASE ReleaseFailedSubnet(v)
    BY <2>8 DEF ReleaseFailedSubnet, TapsAllocated
  <2>9. CASE StartVmm(v)
    BY <2>9 DEF StartVmm, PlaceholderStays
  <2>10. CASE Configure(v)
    BY <2>10 DEF Configure
  <2>11. CASE SetupFails(v)
    BY <2>11 DEF SetupFails
  <2>12. CASE GuardDrop(v)
    BY <2>12 DEF GuardDrop, Release
  <2>13. CASE GuardLeaks(v)
    BY <2>13 DEF GuardLeaks
  <2> QED
    BY <1>2, <2>1, <2>2, <2>3, <2>4, <2>5, <2>6, <2>7, <2>8, <2>9, <2>10, <2>11, <2>12, <2>13 DEF FreeStep
<1>3. ASSUME NEW v \in Vm, LockingStep(v) PROVE Owned'
  <2>1. CASE Reserve(v)
    BY <2>1 DEF Reserve
  <2>2. CASE Reject(v)
    <3>1. NetworkOwned'
      <4>1. mode # "exited" /\ \A w \in Vm : OwnsSubnet(w) => OwnsSubnet(w)' /\ slot'[w] = slot[w]
        BY <2>2 DEF Reject, Lock
      <4>2. UNCHANGED pool /\ taps' \subseteq taps /\ rules' \subseteq rules
        BY <2>2 DEF Reject, Lock
      <4> HIDE DEF NetworkOwned, OwnsSubnet, RulesOf
      <4> QED
        BY <4>1, <4>2, StillOwned
    <3>2. OwnsSubnet(v) => slot[v] \in Index
      BY DEF SubnetExclusive
    <3> HIDE DEF NetworkOwned
    <3> QED
      BY <2>2, <3>1, <3>2 DEF Reject, Lock
  <2>3. CASE CreateError(v)
    <3>1. NetworkOwned'
      <4>1. mode # "exited" /\ \A w \in Vm : OwnsSubnet(w) => OwnsSubnet(w)' /\ slot'[w] = slot[w]
        BY <2>3 DEF CreateError, Lock, PlaceholderStays
      <4>2. UNCHANGED pool /\ taps' \subseteq taps /\ rules' \subseteq rules
        BY <2>3 DEF CreateError, Lock, PlaceholderStays
      <4> HIDE DEF NetworkOwned, OwnsSubnet, RulesOf
      <4> QED
        BY <4>1, <4>2, StillOwned
    <3>2. OwnsSubnet(v) => slot[v] \in Index
      BY DEF SubnetExclusive
    <3> HIDE DEF NetworkOwned
    <3> QED
      BY <2>3, <3>1, <3>2 DEF CreateError, Lock, PlaceholderStays
  <2>4. CASE Upgrade(v)
    BY <2>4 DEF Upgrade, IsUpgradable
  <2> QED
    BY <1>3, <2>1, <2>2, <2>3, <2>4 DEF LockingStep
<1>4. ASSUME NEW v \in Vm, Cancel(v) PROVE Owned'
  <2>1. CASE CancelJob(v)
    BY <2>1 DEF CancelJob
  <2>2. CASE CancelUnguarded(v)
    BY <2>2 DEF CancelUnguarded, MayDrop
  <2>3. CASE CancelGuarded(v)
    BY <2>3 DEF CancelGuarded
  <2> QED
    BY <1>4, <2>1, <2>2, <2>3 DEF Cancel
<1>5. ASSUME NEW v \in Vm, DeleteBegin(v) PROVE Owned'
  <3>1. NetworkOwned'
    <4>1. mode # "exited" /\ \A w \in Vm : OwnsSubnet(w) => OwnsSubnet(w)' /\ slot'[w] = slot[w]
      BY <1>5 DEF DeleteBegin, Lock, IsDeletable
    <4>2. UNCHANGED pool /\ taps' \subseteq taps /\ rules' \subseteq rules
      BY <1>5 DEF DeleteBegin, Lock, IsDeletable
    <4> HIDE DEF NetworkOwned, OwnsSubnet, RulesOf
    <4> QED
      BY <4>1, <4>2, StillOwned
  <3>2. OwnsSubnet(v) => slot[v] \in Index
    BY DEF SubnetExclusive
  <3> HIDE DEF NetworkOwned
  <3> QED
    BY <1>5, <3>1, <3>2 DEF DeleteBegin, Lock, IsDeletable
<1>6. ASSUME NEW v \in Vm, ShutdownNext(v) PROVE Owned'
  <3>1. NetworkOwned'
    <4>1. mode # "exited" /\ \A w \in Vm : OwnsSubnet(w) => OwnsSubnet(w)' /\ slot'[w] = slot[w]
      BY <1>6 DEF ShutdownNext
    <4>2. UNCHANGED pool /\ taps' \subseteq taps /\ rules' \subseteq rules
      BY <1>6 DEF ShutdownNext
    <4> HIDE DEF NetworkOwned, OwnsSubnet, RulesOf
    <4> QED
      BY <4>1, <4>2, StillOwned
  <3>2. OwnsSubnet(v) => slot[v] \in Index
    BY DEF SubnetExclusive
  <3> HIDE DEF NetworkOwned
  <3> QED
    BY <1>6, <3>1, <3>2 DEF ShutdownNext
<1>7. ASSUME NEW v \in Vm, VmmExits(v) PROVE Owned'
  BY <1>7 DEF VmmExits
<1>8. CASE Teardown
  <2>1. CASE StopInstance
    <3>1. NetworkOwned'
      <4>1. mode # "exited" /\ \A w \in Vm : OwnsSubnet(w) => OwnsSubnet(w)' /\ slot'[w] = slot[w]
        BY <2>1 DEF StopInstance, Advance
      <4>2. UNCHANGED pool /\ taps' \subseteq taps /\ rules' \subseteq rules
        BY <2>1 DEF StopInstance, Advance
      <4> HIDE DEF NetworkOwned, OwnsSubnet, RulesOf
      <4> QED
        BY <4>1, <4>2, StillOwned
    <3> HIDE DEF NetworkOwned
    <3> QED
      BY <2>1, <3>1 DEF StopInstance, Advance
  <2>2. CASE TeardownTap
    <3>1. NetworkOwned'
      <4>1. mode # "exited" /\ \A w \in Vm : OwnsSubnet(w) => OwnsSubnet(w)' /\ slot'[w] = slot[w]
        BY <2>2 DEF TeardownTap, Advance, AfterTap
      <4>2. UNCHANGED pool /\ taps' \subseteq taps /\ rules' \subseteq rules
        BY <2>2, WithoutSubset DEF TeardownTap, Advance, AfterTap
      <4> HIDE DEF NetworkOwned, OwnsSubnet, RulesOf
      <4> QED
        BY <4>1, <4>2, StillOwned
    <3> HIDE DEF NetworkOwned
    <3> QED
      BY <2>2, <3>1, WithoutTakes DEF TeardownTap, Advance, AfterTap
  <2>3. CASE TeardownNat
    <3>1. NetworkOwned'
      <4>1. mode # "exited" /\ \A w \in Vm : OwnsSubnet(w) => OwnsSubnet(w)' /\ slot'[w] = slot[w]
        BY <2>3 DEF TeardownNat, Advance, AfterNat
      <4>2. UNCHANGED pool /\ taps' \subseteq taps /\ rules' \subseteq rules
        BY <2>3, WithoutSubset DEF TeardownNat, Advance, AfterNat
      <4> HIDE DEF NetworkOwned, OwnsSubnet, RulesOf
      <4> QED
        BY <4>1, <4>2, StillOwned
    <3> HIDE DEF NetworkOwned
    <3> QED
      BY <2>3, <3>1, WithoutTakes DEF TeardownNat, Advance, AfterNat
  <2>4. CASE TeardownRelease
    <3>1. NetworkOwned'
      <4>1. mode # "exited" /\ \A w \in Vm \ {victim} : OwnsSubnet(w) => OwnsSubnet(w)'
        BY <2>4 DEF TeardownRelease, Advance, Finish, AfterRelease
      <4>2. slot' = slot /\ ~pool'[slot[victim]] /\ slot[victim] \notin taps' /\ RulesOf(victim) \cap rules' = {}
        BY <2>4 DEF TeardownRelease, Release, TapsAllocated, Pool
      <4>3. /\ taps' \subseteq taps /\ rules' \subseteq rules
            /\ \A i \in Index : pool'[i] => pool[i]
        BY <2>4 DEF TeardownRelease, Release
      <4> HIDE DEF NetworkOwned, OwnsSubnet, RulesOf
      <4> QED
        BY <4>1, <4>2, <4>3, StillOwned
    <3> HIDE DEF NetworkOwned
    <3> QED
      BY <2>4, <3>1 DEF TeardownRelease, Advance, Finish, AfterRelease
  <2>5. CASE TeardownRootfs
    BY <2>5 DEF TeardownRootfs, Advance, Finish
  <2> QED
    BY <1>8, <2>1, <2>2, <2>3, <2>4, <2>5 DEF Teardown
<1>9. CASE CancelTeardown
  BY <1>9 DEF CancelTeardown, MayDrop
<1>10. CASE ReadLock
  BY <1>10 DEF ReadLock, Lock
<1>11. CASE ReadUnlock
  BY <1>11 DEF ReadUnlock, Unlock
<1>12. CASE Main
  <2>1. CASE Signal
    BY <2>1 DEF Signal
  <2>2. CASE Drained
    BY <2>2 DEF Drained, NoneInFlight
  <2>3. CASE SshStopped
    BY <2>3 DEF SshStopped
  <2>4. CASE SshFailed
    BY <2>4 DEF SshFailed
  <2>5. CASE ShutdownLock
    BY <2>5 DEF ShutdownLock, Lock
  <2>6. CASE ShutdownDone
    BY <2>6 DEF ShutdownDone, Unlock
  <2>7. CASE Exit
    BY <2>7 DEF Exit
  <2>8. CASE Crash
    BY <2>8 DEF Crash
  <2>9. CASE Boot
    <3>1. taps' = {} /\ rules' = {} /\ procs' = {}
      BY <2>9, WithoutTakes DEF Boot, SweptTaps, SweptRules, SweptProcs
    <3> QED
      BY <2>9, <3>1 DEF Boot, FreshPool
  <2> QED
    BY <1>12, <2>1, <2>2, <2>3, <2>4, <2>5, <2>6, <2>7, <2>8, <2>9 DEF Main
<1>13. CASE UNCHANGED vars
  BY <1>13 DEF vars
<1> QED
  BY <1>1, <1>2, <1>3, <1>4, <1>5, <1>6, <1>7, <1>8, <1>9, <1>10, <1>11, <1>12, <1>13 DEF Next

(* All of it holds in every reachable state.                               *)
LEMMA OwnedInvariant ==
  ASSUME Faults \subseteq {"exit", "crash"}
  PROVE  Spec => [](MapInv /\ Calm /\ Owned)
<1>1. Init => Calm /\ Owned
  <2> SUFFICES ASSUME Init PROVE Calm /\ Owned
    OBVIOUS
  <2>1. Calm
    BY DEF Init, Calm
  <2>2. NetworkOwned
    BY DEF Init, NetworkOwned, FreshPool
  <2> QED
    BY <2>1, <2>2 DEF Init, Owned, CleanExit, FreshPool
<1>2. MapInv /\ Calm /\ [Next]_vars => Calm'
  BY CalmStep
<1>3. MapInv /\ PlaceholderInv /\ TapsAllocated /\ Calm /\ Owned /\ [Next]_vars => Owned'
  BY OwnedStep
<1>4. Spec => []TapsAllocated
  BY TapsInvariant
<1> QED
  BY <1>1, <1>2, <1>3, <1>4, MapInvariant, PlaceholderInvariant, PTL DEF Spec

(* `Cleanup is deterministic`: while guests power off and processes die,   *)
(* but nothing fails and nobody hangs up, every bit, tap and rule belongs  *)
(* to a create, an entry or a teardown that will give it back: 409s,       *)
(* failed setups, deletes and the shutdown leak nothing in any order.      *)
THEOREM NothingLeaks ==
  ASSUME Faults \subseteq {"exit", "crash"}
  PROVE  Spec => []NetworkOwned
<1>1. Owned => NetworkOwned
  BY DEF Owned
<1> QED
  BY <1>1, OwnedInvariant, PTL

(* A shutdown leaves no tap, rule or process behind: the drain has waited  *)
(* for every create, and the teardown has been through every entry.        *)
THEOREM ExitIsClean ==
  ASSUME Faults \subseteq {"exit"}
  PROVE  Spec => []CleanExit
<1>1. Faults \subseteq {"exit", "crash"}
  OBVIOUS
<1>2. Owned => CleanExit
  BY DEF Owned
<1>3. Spec => [](MapInv /\ Calm /\ Owned)
  BY <1>1, OwnedInvariant
<1> QED
  BY <1>2, <1>3, PTL

(* When a delete lets go of the lock its machine owns nothing any more.    *)
LEMMA DeleteEnds ==
  ASSUME MapInv, Calm, Owned, Owned', [Next]_vars, Faults \subseteq {"exit"},
         NEW v \in Vm, holder = "delete", victim = v, victim' # v
  PROVE  /\ v \notin procs' \cup rootfs'
         /\ RulesOf(v) \cap rules' = {}
         /\ slot[v] \in taps' \/ pool'[slot[v]] =>
              \E w \in Vm \ {v} : OwnsSubnet(w)' /\ slot'[w] = slot[v]
<1> USE DEF GoTo, Goes, JobEnds, lockVars, hostVars, netVars, handlerVars
<1>0. TypeOK /\ LockConsistent /\ QuietAfterExit /\ EntryConsistent
  BY DEF MapInv, IInv
<1>1. TeardownRootfs
  <2>1. stage # "none" /\ mode # "exited"
    BY <1>0, ConstantsAssumption DEF LockConsistent, QuietAfterExit
  <2>2. ASSUME NEW w \in Vm, CreateBegin(w) \/ FreeStep(w) \/ Cancel(w) \/ VmmExits(w)
        PROVE  victim' = victim
    BY <2>2 DEF CreateBegin, FreeStep, CopyRootfs, CopyRootfsFails, AllocateSubnet, CreateTap,
      CreateTapFails, AddNatRules, AddNatRulesFails, ReleaseFailedSubnet, StartVmm, Configure,
      SetupFails, GuardDrop, GuardLeaks, Cancel, CancelJob, CancelUnguarded, CancelGuarded, VmmExits
  <2>3. ASSUME NEW w \in Vm, LockingStep(w) \/ DeleteBegin(w) \/ ShutdownNext(w)
        PROVE  FALSE
    BY <2>3 DEF LockingStep, Reserve, Reject, CreateError, Upgrade, DeleteBegin, ShutdownNext, Lock
  <2>4. ~ReadLock /\ ~ReadUnlock /\ ~CancelTeardown
    BY <2>1 DEF ReadLock, ReadUnlock, CancelTeardown, MayDrop, Lock, Calm
  <2>5. CASE Main
    BY <2>1, <2>5 DEF Main, Signal, Drained, SshStopped, SshFailed, ShutdownLock, ShutdownDone,
      Exit, Crash, Boot, Lock
  <2>6. CASE StopInstance \/ TeardownTap \/ TeardownNat \/ TeardownRelease
    BY <2>6 DEF StopInstance, TeardownTap, TeardownNat, TeardownRelease, Advance, AfterTap,
      AfterNat, AfterRelease
  <2> QED
    BY <2>2, <2>3, <2>4, <2>5, <2>6 DEF Next, Teardown, vars
<1>2. ~OwnsSubnet(v) /\ slot[v] \in Index /\ mode # "exited" /\ vms[v] = "absent" /\ v \in Vm
  BY <1>0, <1>1 DEF TeardownRootfs, OwnsSubnet, LockConsistent, QuietAfterExit, Owned, TypeOK
<1>3. UNCHANGED <<slot, pool, taps, rules, procs, mode, vms>> /\ rootfs' = rootfs \ {v}
  BY <1>1, WithoutTakes DEF TeardownRootfs
<1>4. ~OwnsSubnet(v)'
  <2>1. pc' = pc /\ victim' = NoVm
    BY <1>1 DEF TeardownRootfs, Advance, Finish
  <2> QED
    BY <1>2, <1>3, <2>1, ConstantsAssumption DEF OwnsSubnet
<1>5. v \notin procs' \cup rootfs'
  BY <1>1, <1>2, <1>3 DEF Owned, TeardownRootfs
<1>6. RulesOf(v) \cap rules' = {}
  BY <1>2, <1>3 DEF Owned, NetworkOwned, RulesOf
<1>7. slot[v] \in taps' \/ pool'[slot[v]] =>
        \E w \in Vm : OwnsSubnet(w)' /\ slot'[w] = slot[v]
  BY <1>2, <1>3 DEF Owned, NetworkOwned
<1> QED
  BY <1>4, <1>5, <1>6, <1>7

(* `Cleanup is deterministic`, of a delete: when it lets go of the lock    *)
(* the process, both rules and the disk are gone, and so are the tap and   *)
(* the bit of its subnet unless another create has them already.           *)
THEOREM DeleteReleases ==
  ASSUME Faults \subseteq {"exit"}
  PROVE  Spec => DeleteReleasesEverything
<1> DEFINE Released ==
      \A v \in Vm : holder = "delete" /\ victim = v /\ victim' # v =>
        /\ v \notin procs' \cup rootfs'
        /\ RulesOf(v) \cap rules' = {}
        /\ slot[v] \in taps' \/ pool'[slot[v]] =>
             \E w \in Vm \ {v} : OwnsSubnet(w)' /\ slot'[w] = slot[v]
<1>1. MapInv /\ Calm /\ Owned /\ Owned' /\ [Next]_vars => [Released]_vars
  BY DeleteEnds
<1>2. Spec => [][Released]_vars
  <2> HIDE DEF Released
  <2>1. Spec => [](MapInv /\ Calm /\ Owned)
    BY OwnedInvariant
  <2> QED
    BY <1>1, <2>1, PTL DEF Spec
<1> QED
  BY <1>2 DEF DeleteReleasesEverything
=============================================================================
