------------------------- MODULE VmLifecycleProofs --------------------------
(***************************************************************************)
(* The inductive invariant of VmLifecycle, for any number of machines and  *)
(* subnets, any host and any set of faults.                                *)
(*                                                                         *)
(* SubnetExclusive alone is not inductive: a teardown releases the slot of *)
(* its victim, and a slot is safe to release only if the victim is in no   *)
(* map and no second teardown or create is about to use it.  That is what  *)
(* the lock of `vms` gives (LockConsistent), and a restart, which forgets  *)
(* every slot, needs that nothing has outlived the exit (QuietAfterExit).  *)
(* Each conjunct has a lemma of its own with one step for every action.    *)
(***************************************************************************)
EXTENDS VmLifecycle, TLAPS

-----------------------------------------------------------------------------
(* The addresses of the pool, for every size the code admits. *)

Octet == 0 .. 255

(* An address of the pool keeps the whole offset in its last two octets:   *)
(* the casts to u8 lose nothing, up to the last subnet of 172.16.0.0/16.   *)
LEMMA OffsetKept ==
  ASSUME NEW i \in Index, NEW n \in 0 .. 3
  PROVE  /\ Address(n, i) \in Octet \X Octet \X Octet \X Octet
         /\ Address(n, i)[3] * 256 + Address(n, i)[4] = 4 * i + n
<1> DEFINE x == 4 * i + n
<1>1. x \in Nat /\ x <= 65535
  <2>1. MaxSubnets \in Nat /\ MaxSubnets <= 16384
    BY MaxSubnetsAssumption
  <2>2. i \in Nat /\ i < MaxSubnets
    BY <2>1 DEF Index
  <2>3. i <= 16383
    BY <2>1, <2>2
  <2>4. n \in Nat /\ n <= 3
    OBVIOUS
  <2>5. x \in Nat
    BY <2>2, <2>4
  <2>6. x <= 65535
    BY <2>2, <2>3, <2>4
  <2> QED
    BY <2>5, <2>6
<1> HIDE DEF x
<1>2. /\ x \div 256 \in Octet /\ x % 256 \in Octet
      /\ (x \div 256) * 256 + (x % 256) = x
  <2>1. x \div 256 \in Int /\ x % 256 \in 0 .. 255
    BY <1>1
  <2>2. (x \div 256) * 256 + (x % 256) = x
    BY <1>1
  <2>3. x \div 256 >= 0 /\ x \div 256 <= 255
    BY <1>1, <2>1, <2>2
  <2> QED
    BY <2>1, <2>2, <2>3 DEF Octet
<1>3. (x \div 256) % 256 = x \div 256 /\ (x % 256) % 256 = x % 256
  BY <1>2 DEF Octet
<1>4. Address(n, i) = <<172, 16, x \div 256, x % 256>>
  BY <1>3 DEF Address, x
<1>5. x = 4 * i + n
  BY DEF x
<1> QED
  BY <1>2, <1>4, <1>5 DEF Octet

(* Every slot has a tap and a guest address of its own: both lie in the    *)
(* slot's /30, differ from each other, and from those of any other slot.   *)
THEOREM AddressesDisjoint ==
  ASSUME NEW i \in Index
  PROVE  /\ Net30(TapIp(i)) = i /\ Net30(GuestIp(i)) = i
         /\ TapIp(i) # GuestIp(i)
         /\ \A j \in Index \ {i} : {TapIp(i), GuestIp(i)} \cap {TapIp(j), GuestIp(j)} = {}
<1>1. ASSUME NEW k \in Index
      PROVE  Net30(TapIp(k)) = k /\ Net30(GuestIp(k)) = k /\ TapIp(k) # GuestIp(k)
  <2>1. k \in Nat
    BY MaxSubnetsAssumption DEF Index
  <2>2. /\ TapIp(k)[3] * 256 + TapIp(k)[4] = 4 * k + 1
        /\ GuestIp(k)[3] * 256 + GuestIp(k)[4] = 4 * k + 2
    BY OffsetKept DEF TapIp, GuestIp
  <2>3. (4 * k + 1) \div 4 = k /\ (4 * k + 2) \div 4 = k /\ 4 * k + 1 # 4 * k + 2
    BY <2>1
  <2> QED
    BY <2>2, <2>3 DEF Net30
<1> QED
  BY <1>1

-----------------------------------------------------------------------------
(* The inductive invariant. *)

USE DEF Index, Pool

(* Whatever best-effort removal leaves was there before.                   *)
LEMMA WithoutSubset ==
  \A S, T : \A R \in Without(S, T) : R \subseteq S
  BY DEF Without

(* It only ever takes what it was asked to remove, ...                     *)
LEMMA WithoutKeeps ==
  \A S, T : \A R \in Without(S, T) : S \ T \subseteq R
  BY DEF Without

(* ... and unless a command fails it takes all of that.                    *)
LEMMA WithoutTakes ==
  ASSUME "cmd" \notin Faults
  PROVE  \A S, T : Without(S, T) = {S \ T}
  BY DEF Without

(* The size a body resolves to has the widths of the code: a u8 and a u32. *)
LEMMA ValidSize ==
  ASSUME NEW req \in Requests
  PROVE  Resolve(req) \in Size
<1> USE ConstantsAssumption
<1>1. req \in Request
  OBVIOUS
<1>2. ASSUME NEW T, NEW opt \in Option(T), NEW d \in T
      PROVE  UnwrapOr(opt, d) \in T
  BY <1>2 DEF Option, UnwrapOr
<1>3. req.vcpus \in Option(U8) /\ req.memory_mb \in Option(U32)
  BY <1>1 DEF Request
<1>4. UnwrapOr(req.vcpus, DEFAULT_VCPUS) \in U8
  BY <1>2, <1>3 DEF U8, DEFAULT_VCPUS
<1>5. UnwrapOr(req.memory_mb, DEFAULT_MEMORY_MB) \in U32
  BY <1>2, <1>3 DEF U32, DEFAULT_MEMORY_MB
<1> QED
  BY <1>4, <1>5 DEF Resolve, Size

(* A machine that owns its subnet has an index that the pool marks in use; *)
(* this is what makes the tap of a create the tap of an allocated slot.    *)
LEMMA OwnerHasIndex ==
  ASSUME IInv, NEW v \in Vm, OwnsSubnet(v)
  PROVE  slot[v] \in Index /\ pool[slot[v]]
  BY DEF IInv, SubnetExclusive

(* Every step keeps the types.                                             *)
LEMMA TypeStep ==
  ASSUME IInv, [Next]_vars
  PROVE  TypeOK'
<1> USE ConstantsAssumption DEF TypeOK, PC, Stage, GoTo, Goes, lockVars, hostVars, netVars, handlerVars
<1> TypeOK
  BY DEF IInv
<1>1. ASSUME NEW v \in Vm, CreateBegin(v) PROVE TypeOK'
  BY <1>1, ValidSize DEF CreateBegin
<1>2. ASSUME NEW v \in Vm, FreeStep(v) PROVE TypeOK'
  <2>1. CASE CopyRootfs(v)
    BY <2>1 DEF CopyRootfs, JobEnds
  <2>2. CASE CopyRootfsFails(v)
    BY <2>2 DEF CopyRootfsFails, JobEnds
  <2>3. CASE AllocateSubnet(v)
    <3>1. ASSUME NEW i \in Index, Goes(v, "alloc", "tap"),
                  pool' = [pool EXCEPT ![i] = TRUE], slot' = [slot EXCEPT ![v] = i]
           PROVE  pc' \in [Vm -> PC] /\ pool' \in Pool /\ slot' \in [Vm -> Index \cup {NoSlot}]
      BY <3>1
    <3>2. pc' \in [Vm -> PC] /\ pool' \in Pool /\ slot' \in [Vm -> Index \cup {NoSlot}]
      BY <2>3, <3>1 DEF AllocateSubnet
    <3> QED
      BY <2>3, <3>2 DEF AllocateSubnet
  <2>4. CASE CreateTap(v)
    <3>1. slot[v] \in Index
      BY <2>4, OwnerHasIndex DEF OwnsSubnet, CreateTap
    <3> QED
      BY <2>4, <3>1 DEF CreateTap
  <2>5. CASE CreateTapFails(v)
    <3>1. slot[v] \in Index
      BY <2>5, OwnerHasIndex DEF OwnsSubnet, JobEnds, CreateTapFails
    <3> QED
      BY <2>5, <3>1 DEF JobEnds, CreateTapFails
  <2>6. CASE AddNatRules(v)
    BY <2>6 DEF AddNatRules, JobEnds, RulesOf, Chains
  <2>7. CASE AddNatRulesFails(v)
    BY <2>7, WithoutSubset DEF AddNatRulesFails, JobEnds, Chains
  <2>8. CASE ReleaseFailedSubnet(v)
    BY <2>8 DEF ReleaseFailedSubnet, Release
  <2>9. CASE StartVmm(v)
    BY <2>9 DEF StartVmm
  <2>10. CASE Configure(v)
    BY <2>10 DEF Configure
  <2>11. CASE SetupFails(v)
    BY <2>11 DEF SetupFails
  <2>12. CASE GuardDrop(v)
    BY <2>12, WithoutSubset DEF GuardDrop, Release
  <2>13. CASE GuardLeaks(v)
    BY <2>13 DEF GuardLeaks
  <2> QED
    BY <1>2, <2>1, <2>2, <2>3, <2>4, <2>5, <2>6, <2>7, <2>8, <2>9, <2>10, <2>11, <2>12, <2>13 DEF FreeStep
<1>3. ASSUME NEW v \in Vm, LockingStep(v) PROVE TypeOK'
  <2>1. CASE Reserve(v)
    BY <2>1 DEF Reserve
  <2>2. CASE Reject(v)
    BY <2>2 DEF Reject, Lock
  <2>3. CASE CreateError(v)
    BY <2>3 DEF CreateError, Lock
  <2>4. CASE Upgrade(v)
    BY <2>4 DEF Upgrade, IsUpgradable
  <2> QED
    BY <1>3, <2>1, <2>2, <2>3, <2>4 DEF LockingStep
<1>4. ASSUME NEW v \in Vm, Cancel(v) PROVE TypeOK'
  <2>1. CASE CancelJob(v)
    BY <2>1 DEF CancelJob
  <2>2. CASE CancelUnguarded(v)
    BY <2>2 DEF CancelUnguarded
  <2>3. CASE CancelGuarded(v)
    BY <2>3 DEF CancelGuarded
  <2> QED
    BY <1>4, <2>1, <2>2, <2>3 DEF Cancel
<1>5. ASSUME NEW v \in Vm, DeleteBegin(v) PROVE TypeOK'
  BY <1>5 DEF DeleteBegin, Lock, IsDeletable
<1>6. ASSUME NEW v \in Vm, ShutdownNext(v) PROVE TypeOK'
  BY <1>6 DEF ShutdownNext
<1>7. ASSUME NEW v \in Vm, VmmExits(v) PROVE TypeOK'
  BY <1>7 DEF VmmExits
<1>8. CASE Teardown
  <2>1. CASE StopInstance
    BY <2>1 DEF StopInstance, Advance, Finish
  <2>2. CASE TeardownTap
    BY <2>2, WithoutSubset DEF TeardownTap, Advance, Finish, AfterTap
  <2>3. CASE TeardownNat
    BY <2>3, WithoutSubset DEF TeardownNat, Advance, Finish, AfterNat
  <2>4. CASE TeardownRelease
    BY <2>4 DEF TeardownRelease, Advance, Finish, AfterRelease, Release
  <2>5. CASE TeardownRootfs
    BY <2>5, WithoutSubset DEF TeardownRootfs, Advance, Finish
  <2> QED
    BY <1>8, <2>1, <2>2, <2>3, <2>4, <2>5 DEF Teardown
<1>9. CASE CancelTeardown
  BY <1>9 DEF CancelTeardown, Unlock
<1>10. CASE ReadLock
  BY <1>10 DEF ReadLock, Lock
<1>11. CASE ReadUnlock
  BY <1>11 DEF ReadUnlock, Unlock
<1>12. CASE Main
  <2>1. CASE Signal
    BY <2>1 DEF Signal
  <2>2. CASE Drained
    BY <2>2 DEF Drained
  <2>3. CASE SshStopped
    BY <2>3 DEF SshStopped
  <2>4. CASE SshFailed
    BY <2>4 DEF SshFailed
  <2>5. CASE ShutdownLock
    BY <2>5 DEF ShutdownLock, Lock
  <2>6. CASE ShutdownDone
    BY <2>6 DEF ShutdownDone, Unlock
  <2>7. CASE Exit
    BY <2>7 DEF Exit
  <2>8. CASE Crash
    BY <2>8 DEF Crash
  <2>9. CASE Boot
    BY <2>9, WithoutSubset DEF Boot, FreshPool, SweptProcs, SweptRules, SweptRootfs, SweptTaps
  <2> QED
    BY <1>12, <2>1, <2>2, <2>3, <2>4, <2>5, <2>6, <2>7, <2>8, <2>9 DEF Main
<1>13. CASE UNCHANGED vars
  BY <1>13 DEF vars
<1> QED
  BY <1>1, <1>2, <1>3, <1>4, <1>5, <1>6, <1>7, <1>8, <1>9, <1>10, <1>11, <1>12, <1>13 DEF Next

(* Every step keeps what the lock of `vms` guarantees: a teardown is of a  *)
(* machine that is in no map, there is one at a time, and only creates     *)
(* past their reservation have entries.                                    *)
LEMMA LockStep ==
  ASSUME IInv, [Next]_vars
  PROVE  LockConsistent'
<1> USE ConstantsAssumption DEF TypeOK, PC, Stage, GoTo, Goes, lockVars, hostVars, netVars, handlerVars, LockConsistent
<1> TypeOK /\ LockConsistent
  BY DEF IInv
<1>1. ASSUME NEW v \in Vm, CreateBegin(v) PROVE LockConsistent'
  BY <1>1 DEF CreateBegin
<1>2. ASSUME NEW v \in Vm, FreeStep(v) PROVE LockConsistent'
  <2>1. CASE CopyRootfs(v)
    BY <2>1 DEF CopyRootfs, JobEnds
  <2>2. CASE CopyRootfsFails(v)
    BY <2>2 DEF CopyRootfsFails, JobEnds
  <2>3. CASE AllocateSubnet(v)
    BY <2>3 DEF AllocateSubnet
  <2>4. CASE CreateTap(v)
    BY <2>4 DEF CreateTap
  <2>5. CASE CreateTapFails(v)
    BY <2>5 DEF CreateTapFails, JobEnds
  <2>6. CASE AddNatRules(v)
    BY <2>6 DEF AddNatRules, JobEnds
  <2>7. CASE AddNatRulesFails(v)
    BY <2>7 DEF AddNatRulesFails, JobEnds
  <2>8. CASE ReleaseFailedSubnet(v)
    BY <2>8 DEF ReleaseFailedSubnet, Release
  <2>9. CASE StartVmm(v)
    BY <2>9 DEF StartVmm
  <2>10. CASE Configure(v)
    BY <2>10 DEF Configure
  <2>11. CASE SetupFails(v)
    BY <2>11 DEF SetupFails
  <2>12. CASE GuardDrop(v)
    BY <2>12 DEF GuardDrop, Release
  <2>13. CASE GuardLeaks(v)
    BY <2>13 DEF GuardLeaks
  <2> QED
    BY <1>2, <2>1, <2>2, <2>3, <2>4, <2>5, <2>6, <2>7, <2>8, <2>9, <2>10, <2>11, <2>12, <2>13 DEF FreeStep
<1>3. ASSUME NEW v \in Vm, LockingStep(v) PROVE LockConsistent'
  <2>1. CASE Reserve(v)
    BY <2>1 DEF Reserve
  <2>2. CASE Reject(v)
    BY <2>2 DEF Reject, Lock
  <2>3. CASE CreateError(v)
    BY <2>3 DEF CreateError, Lock
  <2>4. CASE Upgrade(v)
    BY <2>4 DEF Upgrade, IsUpgradable
  <2> QED
    BY <1>3, <2>1, <2>2, <2>3, <2>4 DEF LockingStep
<1>4. ASSUME NEW v \in Vm, Cancel(v) PROVE LockConsistent'
  <2>1. CASE CancelJob(v)
    BY <2>1 DEF CancelJob
  <2>2. CASE CancelUnguarded(v)
    BY <2>2 DEF CancelUnguarded
  <2>3. CASE CancelGuarded(v)
    BY <2>3 DEF CancelGuarded
  <2> QED
    BY <1>4, <2>1, <2>2, <2>3 DEF Cancel
<1>5. ASSUME NEW v \in Vm, DeleteBegin(v) PROVE LockConsistent'
  BY <1>5 DEF DeleteBegin, Lock, IsDeletable
<1>6. ASSUME NEW v \in Vm, ShutdownNext(v) PROVE LockConsistent'
  BY <1>6 DEF ShutdownNext
<1>7. ASSUME NEW v \in Vm, VmmExits(v) PROVE LockConsistent'
  BY <1>7 DEF VmmExits
<1>8. CASE Teardown
  <2>1. CASE StopInstance
    BY <2>1 DEF StopInstance, Advance, Finish
  <2>2. CASE TeardownTap
    BY <2>2 DEF TeardownTap, Advance, Finish, AfterTap
  <2>3. CASE TeardownNat
    BY <2>3 DEF TeardownNat, Advance, Finish, AfterNat
  <2>4. CASE TeardownRelease
    BY <2>4 DEF TeardownRelease, Advance, Finish, AfterRelease, Release
  <2>5. CASE TeardownRootfs
    BY <2>5 DEF TeardownRootfs, Advance, Finish
  <2> QED
    BY <1>8, <2>1, <2>2, <2>3, <2>4, <2>5 DEF Teardown
<1>9. CASE CancelTeardown
  BY <1>9 DEF CancelTeardown, Unlock
<1>10. CASE ReadLock
  BY <1>10 DEF ReadLock, Lock
<1>11. CASE ReadUnlock
  BY <1>11 DEF ReadUnlock, Unlock
<1>12. CASE Main
  <2>1. CASE Signal
    BY <2>1 DEF Signal
  <2>2. CASE Drained
    BY <2>2 DEF Drained
  <2>3. CASE SshStopped
    BY <2>3 DEF SshStopped
  <2>4. CASE SshFailed
    BY <2>4 DEF SshFailed
  <2>5. CASE ShutdownLock
    BY <2>5 DEF ShutdownLock, Lock
  <2>6. CASE ShutdownDone
    BY <2>6 DEF ShutdownDone, Unlock
  <2>7. CASE Exit
    BY <2>7 DEF Exit
  <2>8. CASE Crash
    BY <2>8 DEF Crash
  <2>9. CASE Boot
    BY <2>9 DEF Boot, FreshPool, SweptProcs, SweptRules, SweptRootfs, SweptTaps
  <2> QED
    BY <1>12, <2>1, <2>2, <2>3, <2>4, <2>5, <2>6, <2>7, <2>8, <2>9 DEF Main
<1>13. CASE UNCHANGED vars
  BY <1>13 DEF vars
<1> QED
  BY <1>1, <1>2, <1>3, <1>4, <1>5, <1>6, <1>7, <1>8, <1>9, <1>10, <1>11, <1>12, <1>13 DEF Next

(* Every step keeps the process quiet once it has exited: no handler, no   *)
(* teardown and no entry is left for the sweep of the next start to pull   *)
(* the rug from.                                                           *)
LEMMA QuietStep ==
  ASSUME IInv, [Next]_vars
  PROVE  QuietAfterExit'
<1> USE ConstantsAssumption DEF TypeOK, PC, Stage, GoTo, Goes, lockVars, hostVars, netVars, handlerVars, LockConsistent, QuietAfterExit
<1> TypeOK /\ LockConsistent /\ QuietAfterExit
  BY DEF IInv
<1>1. ASSUME NEW v \in Vm, CreateBegin(v) PROVE QuietAfterExit'
  BY <1>1 DEF CreateBegin
<1>2. ASSUME NEW v \in Vm, FreeStep(v) PROVE QuietAfterExit'
  <2>1. CASE CopyRootfs(v)
    BY <2>1 DEF CopyRootfs, JobEnds
  <2>2. CASE CopyRootfsFails(v)
    BY <2>2 DEF CopyRootfsFails, JobEnds
  <2>3. CASE AllocateSubnet(v)
    BY <2>3 DEF AllocateSubnet
  <2>4. CASE CreateTap(v)
    BY <2>4 DEF CreateTap
  <2>5. CASE CreateTapFails(v)
    BY <2>5 DEF CreateTapFails, JobEnds
  <2>6. CASE AddNatRules(v)
    BY <2>6 DEF AddNatRules, JobEnds
  <2>7. CASE AddNatRulesFails(v)
    BY <2>7 DEF AddNatRulesFails, JobEnds
  <2>8. CASE ReleaseFailedSubnet(v)
    BY <2>8 DEF ReleaseFailedSubnet, Release
  <2>9. CASE StartVmm(v)
    BY <2>9 DEF StartVmm
  <2>10. CASE Configure(v)
    BY <2>10 DEF Configure
  <2>11. CASE SetupFails(v)
    BY <2>11 DEF SetupFails
  <2>12. CASE GuardDrop(v)
    BY <2>12 DEF GuardDrop, Release
  <2>13. CASE GuardLeaks(v)
    BY <2>13 DEF GuardLeaks
  <2> QED
    BY <1>2, <2>1, <2>2, <2>3, <2>4, <2>5, <2>6, <2>7, <2>8, <2>9, <2>10, <2>11, <2>12, <2>13 DEF FreeStep
<1>3. ASSUME NEW v \in Vm, LockingStep(v) PROVE QuietAfterExit'
  <2>1. CASE Reserve(v)
    BY <2>1 DEF Reserve
  <2>2. CASE Reject(v)
    BY <2>2 DEF Reject, Lock
  <2>3. CASE CreateError(v)
    BY <2>3 DEF CreateError, Lock
  <2>4. CASE Upgrade(v)
    BY <2>4 DEF Upgrade, IsUpgradable
  <2> QED
    BY <1>3, <2>1, <2>2, <2>3, <2>4 DEF LockingStep
<1>4. ASSUME NEW v \in Vm, Cancel(v) PROVE QuietAfterExit'
  <2>1. CASE CancelJob(v)
    BY <2>1 DEF CancelJob
  <2>2. CASE CancelUnguarded(v)
    BY <2>2 DEF CancelUnguarded
  <2>3. CASE CancelGuarded(v)
    BY <2>3 DEF CancelGuarded
  <2> QED
    BY <1>4, <2>1, <2>2, <2>3 DEF Cancel
<1>5. ASSUME NEW v \in Vm, DeleteBegin(v) PROVE QuietAfterExit'
  BY <1>5 DEF DeleteBegin, Lock, IsDeletable
<1>6. ASSUME NEW v \in Vm, ShutdownNext(v) PROVE QuietAfterExit'
  BY <1>6 DEF ShutdownNext
<1>7. ASSUME NEW v \in Vm, VmmExits(v) PROVE QuietAfterExit'
  BY <1>7 DEF VmmExits
<1>8. CASE Teardown
  <2>1. CASE StopInstance
    BY <2>1 DEF StopInstance, Advance, Finish
  <2>2. CASE TeardownTap
    BY <2>2 DEF TeardownTap, Advance, Finish, AfterTap
  <2>3. CASE TeardownNat
    BY <2>3 DEF TeardownNat, Advance, Finish, AfterNat
  <2>4. CASE TeardownRelease
    BY <2>4 DEF TeardownRelease, Advance, Finish, AfterRelease, Release
  <2>5. CASE TeardownRootfs
    BY <2>5 DEF TeardownRootfs, Advance, Finish
  <2> QED
    BY <1>8, <2>1, <2>2, <2>3, <2>4, <2>5 DEF Teardown
<1>9. CASE CancelTeardown
  BY <1>9 DEF CancelTeardown, Unlock
<1>10. CASE ReadLock
  BY <1>10 DEF ReadLock, Lock
<1>11. CASE ReadUnlock
  BY <1>11 DEF ReadUnlock, Unlock
<1>12. CASE Main
  <2>1. CASE Signal
    BY <2>1 DEF Signal
  <2>2. CASE Drained
    BY <2>2 DEF Drained
  <2>3. CASE SshStopped
    BY <2>3 DEF SshStopped
  <2>4. CASE SshFailed
    BY <2>4 DEF SshFailed
  <2>5. CASE ShutdownLock
    BY <2>5 DEF ShutdownLock, Lock
  <2>6. CASE ShutdownDone
    BY <2>6 DEF ShutdownDone, Unlock
  <2>7. CASE Exit
    BY <2>7 DEF Exit
  <2>8. CASE Crash
    BY <2>8 DEF Crash
  <2>9. CASE Boot
    BY <2>9 DEF Boot, FreshPool, SweptProcs, SweptRules, SweptRootfs, SweptTaps
  <2> QED
    BY <1>12, <2>1, <2>2, <2>3, <2>4, <2>5, <2>6, <2>7, <2>8, <2>9 DEF Main
<1>13. CASE UNCHANGED vars
  BY <1>13 DEF vars
<1> QED
  BY <1>1, <1>2, <1>3, <1>4, <1>5, <1>6, <1>7, <1>8, <1>9, <1>10, <1>11, <1>12, <1>13 DEF Next

(* Every step keeps the subnets exclusive.  AllocateSubnet takes a slot    *)
(* that is free, so nobody owns it; the steps that release one end the     *)
(* ownership of the only machine that has it.                              *)
LEMMA ExclusiveStep ==
  ASSUME IInv, [Next]_vars
  PROVE  SubnetExclusive'
<1> USE ConstantsAssumption DEF TypeOK, PC, Stage, GoTo, Goes, lockVars, hostVars, netVars, handlerVars, LockConsistent, QuietAfterExit, SubnetExclusive, OwnsSubnet
<1> TypeOK /\ LockConsistent /\ QuietAfterExit /\ SubnetExclusive
  BY DEF IInv
<1>1. ASSUME NEW v \in Vm, CreateBegin(v) PROVE SubnetExclusive'
  BY <1>1 DEF CreateBegin
<1>2. ASSUME NEW v \in Vm, FreeStep(v) PROVE SubnetExclusive'
  <2>1. CASE CopyRootfs(v)
    BY <2>1 DEF CopyRootfs, JobEnds
  <2>2. CASE CopyRootfsFails(v)
    BY <2>2 DEF CopyRootfsFails, JobEnds
  <2>3. CASE AllocateSubnet(v)
    <3>1. ASSUME NEW i \in Index, IsFirstFree(pool, i), Goes(v, "alloc", "tap"),
                  pool' = [pool EXCEPT ![i] = TRUE], slot' = [slot EXCEPT ![v] = i],
                  UNCHANGED <<vms, victim, stage>>
           PROVE  SubnetExclusive'
      <4>1. ~pool[i]
        BY <3>1 DEF IsFirstFree, IsFree
      <4>2. \A w \in Vm : OwnsSubnet(w) => slot[w] # i
        BY <4>1
      <4>3. \A w \in Vm \ {v} : OwnsSubnet(w)' => OwnsSubnet(w) /\ slot'[w] = slot[w] /\ pool'[slot[w]]
        BY <3>1
      <4>4. slot'[v] = i /\ pool'[i]
        BY <3>1
      <4> QED
        BY <4>2, <4>3, <4>4
    <3>2. CASE IsExhausted(pool) /\ Goes(v, "alloc", "done") /\ UNCHANGED <<pool, slot, vms, victim, stage>>
      BY <3>2
    <3> QED
      BY <2>3, <3>1, <3>2 DEF AllocateSubnet
  <2>4. CASE CreateTap(v)
    BY <2>4 DEF CreateTap
  <2>5. CASE CreateTapFails(v)
    BY <2>5 DEF CreateTapFails, JobEnds
  <2>6. CASE AddNatRules(v)
    BY <2>6 DEF AddNatRules, JobEnds
  <2>7. CASE AddNatRulesFails(v)
    BY <2>7 DEF AddNatRulesFails, JobEnds
  <2>8. CASE ReleaseFailedSubnet(v)
    BY <2>8 DEF ReleaseFailedSubnet, Release
  <2>9. CASE StartVmm(v)
    BY <2>9 DEF StartVmm
  <2>10. CASE Configure(v)
    BY <2>10 DEF Configure
  <2>11. CASE SetupFails(v)
    BY <2>11 DEF SetupFails
  <2>12. CASE GuardDrop(v)
    <3>1. \A w \in Vm : OwnsSubnet(w)' => OwnsSubnet(w) /\ w # v
      BY <2>12 DEF GuardDrop
    <3>2. CASE vms[v] = "creating"
      <4>1. \A w \in Vm \ {v} : OwnsSubnet(w) => slot[w] # slot[v]
        BY <3>2
      <4>2. pool' = pool \/ pool' = Release(pool, slot[v])
        BY <2>12, <3>2 DEF GuardDrop
      <4>3. slot' = slot
        BY <2>12 DEF GuardDrop
      <4>4. ASSUME NEW w \in Vm, OwnsSubnet(w)'
            PROVE  slot'[w] \in Index /\ pool'[slot'[w]]
        <5>1. OwnsSubnet(w) /\ w # v
          BY <3>1, <4>4
        <5>2. slot[w] \in Index /\ pool[slot[w]] /\ slot[w] # slot[v]
          BY <4>1, <5>1
        <5> QED
          BY <4>2, <4>3, <5>2 DEF Release
      <4>5. ASSUME NEW w \in Vm, NEW u \in Vm, OwnsSubnet(w)', OwnsSubnet(u)', slot'[w] = slot'[u]
            PROVE  w = u
        BY <3>1, <4>3, <4>5
      <4> HIDE DEF OwnsSubnet
      <4> QED
        BY <4>4, <4>5
    <3>3. CASE vms[v] # "creating"
      BY <2>12, <3>1, <3>3 DEF GuardDrop
    <3> QED
      BY <3>2, <3>3
  <2>13. CASE GuardLeaks(v)
    BY <2>13 DEF GuardLeaks
  <2> QED
    BY <1>2, <2>1, <2>2, <2>3, <2>4, <2>5, <2>6, <2>7, <2>8, <2>9, <2>10, <2>11, <2>12, <2>13 DEF FreeStep
<1>3. ASSUME NEW v \in Vm, LockingStep(v) PROVE SubnetExclusive'
  <2>1. CASE Reserve(v)
    BY <2>1 DEF Reserve
  <2>2. CASE Reject(v)
    BY <2>2 DEF Reject, Lock
  <2>3. CASE CreateError(v)
    BY <2>3 DEF CreateError, Lock
  <2>4. CASE Upgrade(v)
    BY <2>4 DEF Upgrade, IsUpgradable
  <2> QED
    BY <1>3, <2>1, <2>2, <2>3, <2>4 DEF LockingStep
<1>4. ASSUME NEW v \in Vm, Cancel(v) PROVE SubnetExclusive'
  <2>1. CASE CancelJob(v)
    BY <2>1 DEF CancelJob
  <2>2. CASE CancelUnguarded(v)
    BY <2>2 DEF CancelUnguarded
  <2>3. CASE CancelGuarded(v)
    BY <2>3 DEF CancelGuarded
  <2> QED
    BY <1>4, <2>1, <2>2, <2>3 DEF Cancel
<1>5. ASSUME NEW v \in Vm, DeleteBegin(v) PROVE SubnetExclusive'
  BY <1>5 DEF DeleteBegin, Lock, IsDeletable
<1>6. ASSUME NEW v \in Vm, ShutdownNext(v) PROVE SubnetExclusive'
  BY <1>6 DEF ShutdownNext
<1>7. ASSUME NEW v \in Vm, VmmExits(v) PROVE SubnetExclusive'
  BY <1>7 DEF VmmExits
<1>8. CASE Teardown
  <2>1. CASE StopInstance
    BY <2>1 DEF StopInstance, Advance, Finish
  <2>2. CASE TeardownTap
    BY <2>2 DEF TeardownTap, Advance, Finish, AfterTap
  <2>3. CASE TeardownNat
    BY <2>3 DEF TeardownNat, Advance, Finish, AfterNat
  <2>4. CASE TeardownRelease
    BY <2>4 DEF TeardownRelease, Advance, Finish, AfterRelease, Release
  <2>5. CASE TeardownRootfs
    BY <2>5 DEF TeardownRootfs, Advance, Finish
  <2> QED
    BY <1>8, <2>1, <2>2, <2>3, <2>4, <2>5 DEF Teardown
<1>9. CASE CancelTeardown
  BY <1>9 DEF CancelTeardown, Unlock
<1>10. CASE ReadLock
  BY <1>10 DEF ReadLock, Lock
<1>11. CASE ReadUnlock
  BY <1>11 DEF ReadUnlock, Unlock
<1>12. CASE Main
  <2>1. CASE Signal
    BY <2>1 DEF Signal
  <2>2. CASE Drained
    BY <2>2 DEF Drained
  <2>3. CASE SshStopped
    BY <2>3 DEF SshStopped
  <2>4. CASE SshFailed
    BY <2>4 DEF SshFailed
  <2>5. CASE ShutdownLock
    BY <2>5 DEF ShutdownLock, Lock
  <2>6. CASE ShutdownDone
    BY <2>6 DEF ShutdownDone, Unlock
  <2>7. CASE Exit
    BY <2>7 DEF Exit
  <2>8. CASE Crash
    BY <2>8 DEF Crash
  <2>9. CASE Boot
    BY <2>9 DEF Boot, FreshPool, SweptProcs, SweptRules, SweptRootfs, SweptTaps
  <2> QED
    BY <1>12, <2>1, <2>2, <2>3, <2>4, <2>5, <2>6, <2>7, <2>8, <2>9 DEF Main
<1>13. CASE UNCHANGED vars
  BY <1>13 DEF vars
<1> QED
  BY <1>1, <1>2, <1>3, <1>4, <1>5, <1>6, <1>7, <1>8, <1>9, <1>10, <1>11, <1>12, <1>13 DEF Next

(* The invariant holds when the process starts.                            *)
LEMMA InvariantInit == Init => IInv
<1> SUFFICES ASSUME Init PROVE IInv
  OBVIOUS
<1>1. TypeOK
  BY ConstantsAssumption DEF Init, TypeOK, PC, Stage, Size, Defaults, U8, U32, FreshPool,
     DEFAULT_VCPUS, DEFAULT_MEMORY_MB
<1>2. LockConsistent /\ QuietAfterExit
  BY DEF Init, LockConsistent, QuietAfterExit
<1>3. SubnetExclusive
  BY ConstantsAssumption DEF Init, SubnetExclusive, OwnsSubnet
<1> QED
  BY <1>1, <1>2, <1>3 DEF IInv

(* The invariant holds in every state of every behaviour: types, the lock, *)
(* the quiet exit and exclusive subnets.                                   *)
THEOREM Invariant == Spec => []IInv
<1>1. IInv /\ [Next]_vars => IInv'
  BY TypeStep, LockStep, QuietStep, ExclusiveStep DEF IInv
<1> QED
  BY InvariantInit, <1>1, PTL DEF Spec

(* Every variable keeps its type; in particular a tap device is only ever  *)
(* made for an index the pool has handed out.                              *)
THEOREM TypeCorrect == Spec => []TypeOK
<1>1. IInv => TypeOK
  BY DEF IInv
<1> QED
  BY Invariant, <1>1, PTL

(* No two machines ever share a subnet, and the bitmap of the pool marks   *)
(* each one in use: `allocate` and `release` are called in matching pairs  *)
(* whatever fails, races or is dropped.                                    *)
THEOREM SubnetsExclusive == Spec => []SubnetExclusive
<1>1. IInv => SubnetExclusive
  BY DEF IInv
<1> QED
  BY Invariant, <1>1, PTL

-----------------------------------------------------------------------------
(* The processes and the entries of a create agree with where it is; the   *)
(* refinements and what is said of a machine's resources rest on it.       *)

MapInv == IInv /\ EntryConsistent

(* Every step keeps EntryConsistent.                                       *)
LEMMA EntryStep ==
  ASSUME MapInv, [Next]_vars
  PROVE  EntryConsistent'
<1> USE ConstantsAssumption DEF TypeOK, PC, Stage, GoTo, Goes, JobEnds, lockVars, hostVars,
      netVars, handlerVars, EntryConsistent, BeforeEntry
<1> TypeOK /\ LockConsistent /\ EntryConsistent
  BY DEF MapInv, IInv
<1>1. ASSUME NEW v \in Vm, CreateBegin(v) PROVE EntryConsistent'
  BY <1>1 DEF CreateBegin
<1>2. ASSUME NEW v \in Vm, FreeStep(v) PROVE EntryConsistent'
  <2>1. CASE CopyRootfs(v)
    BY <2>1 DEF CopyRootfs
  <2>2. CASE CopyRootfsFails(v)
    BY <2>2 DEF CopyRootfsFails
  <2>3. CASE AllocateSubnet(v)
    BY <2>3 DEF AllocateSubnet
  <2>4. CASE CreateTap(v)
    BY <2>4 DEF CreateTap
  <2>5. CASE CreateTapFails(v)
    BY <2>5 DEF CreateTapFails
  <2>6. CASE AddNatRules(v)
    BY <2>6 DEF AddNatRules
  <2>7. CASE AddNatRulesFails(v)
    BY <2>7 DEF AddNatRulesFails
  <2>8. CASE ReleaseFailedSubnet(v)
    BY <2>8 DEF ReleaseFailedSubnet
  <2>9. CASE StartVmm(v)
    BY <2>9 DEF StartVmm
  <2>10. CASE Configure(v)
    BY <2>10 DEF Configure
  <2>11. CASE SetupFails(v)
    BY <2>11 DEF SetupFails
  <2>12. CASE GuardDrop(v)
    BY <2>12 DEF GuardDrop
  <2>13. CASE GuardLeaks(v)
    BY <2>13 DEF GuardLeaks
  <2> QED
    BY <1>2, <2>1, <2>2, <2>3, <2>4, <2>5, <2>6, <2>7, <2>8, <2>9, <2>10, <2>11, <2>12, <2>13 DEF FreeStep
<1>3. ASSUME NEW v \in Vm, LockingStep(v) PROVE EntryConsistent'
  <2>1. CASE Reserve(v)
    BY <2>1 DEF Reserve
  <2>2. CASE Reject(v)
    BY <2>2 DEF Reject, Lock
  <2>3. CASE CreateError(v)
    BY <2>3 DEF CreateError, Lock, LockConsistent
  <2>4. CASE Upgrade(v)
    BY <2>4 DEF Upgrade, IsUpgradable
  <2> QED
    BY <1>3, <2>1, <2>2, <2>3, <2>4 DEF LockingStep
<1>4. ASSUME NEW v \in Vm, Cancel(v) PROVE EntryConsistent'
  <2>1. CASE CancelJob(v)
    BY <2>1 DEF CancelJob
  <2>2. CASE CancelUnguarded(v)
    BY <2>2 DEF CancelUnguarded
  <2>3. CASE CancelGuarded(v)
    BY <2>3 DEF CancelGuarded
  <2> QED
    BY <1>4, <2>1, <2>2, <2>3 DEF Cancel
<1>5. ASSUME NEW v \in Vm, DeleteBegin(v) PROVE EntryConsistent'
  BY <1>5 DEF DeleteBegin, Lock, IsDeletable
<1>6. ASSUME NEW v \in Vm, ShutdownNext(v) PROVE EntryConsistent'
  BY <1>6 DEF ShutdownNext
<1>7. ASSUME NEW v \in Vm, VmmExits(v) PROVE EntryConsistent'
  BY <1>7 DEF VmmExits
<1>8. CASE Teardown
  <2>1. CASE StopInstance
    BY <2>1 DEF StopInstance, Advance
  <2>2. CASE TeardownTap
    BY <2>2 DEF TeardownTap, Advance, AfterTap
  <2>3. CASE TeardownNat
    BY <2>3 DEF TeardownNat, Advance, AfterNat
  <2>4. CASE TeardownRelease
    BY <2>4 DEF TeardownRelease, Advance, AfterRelease, Finish, LockConsistent
  <2>5. CASE TeardownRootfs
    BY <2>5 DEF TeardownRootfs, Advance, Finish, LockConsistent
  <2> QED
    BY <1>8, <2>1, <2>2, <2>3, <2>4, <2>5 DEF Teardown
<1>9. CASE CancelTeardown
  BY <1>9 DEF CancelTeardown, Unlock, LockConsistent
<1>10. CASE ReadLock
  BY <1>10 DEF ReadLock, Lock
<1>11. CASE ReadUnlock
  BY <1>11 DEF ReadUnlock, Unlock
<1>12. CASE Main
  <2>1. CASE Signal
    BY <2>1 DEF Signal
  <2>2. CASE Drained
    BY <2>2 DEF Drained
  <2>3. CASE SshStopped
    BY <2>3 DEF SshStopped
  <2>4. CASE SshFailed
    BY <2>4 DEF SshFailed
  <2>5. CASE ShutdownLock
    BY <2>5 DEF ShutdownLock, Lock
  <2>6. CASE ShutdownDone
    BY <2>6 DEF ShutdownDone, Unlock
  <2>7. CASE Exit
    BY <2>7 DEF Exit
  <2>8. CASE Crash
    BY <2>8 DEF Crash
  <2>9. CASE Boot
    BY <2>9 DEF Boot, SweptProcs, LockConsistent
  <2> QED
    BY <1>12, <2>1, <2>2, <2>3, <2>4, <2>5, <2>6, <2>7, <2>8, <2>9 DEF Main
<1>13. CASE UNCHANGED vars
  BY <1>13 DEF vars
<1> QED
  BY <1>1, <1>2, <1>3, <1>4, <1>5, <1>6, <1>7, <1>8, <1>9, <1>10, <1>11, <1>12, <1>13 DEF Next

(* Both invariants hold in every reachable state.                          *)
LEMMA MapInvariant == Spec => []MapInv
<1>1. Init => MapInv
  <2>1. Init => EntryConsistent
    BY DEF Init, EntryConsistent
  <2> QED
    BY <2>1, InvariantInit DEF MapInv
<1>2. MapInv /\ [Next]_vars => MapInv'
  BY EntryStep, TypeStep, LockStep, QuietStep, ExclusiveStep DEF MapInv, IInv
<1> QED
  BY <1>1, <1>2, PTL DEF Spec
=============================================================================
