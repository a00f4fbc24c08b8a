--------------------------- MODULE CapacityProofs ---------------------------
(***************************************************************************)
(* Creates that race each other never promise more vCPUs or memory than    *)
(* the host has, for any number of machines, any host and every set of     *)
(* faults.                                                                 *)
(*                                                                         *)
(* The sums of `create` are cardinalities here, so the proof is about sets *)
(* of units: they shrink with the set of entries (UnitsSubset) and grow by *)
(* at most the size of a new one (UnitsAdd).  A step either adds one entry *)
(* after the check or adds none (EntriesStep).                             *)
(*                                                                         *)
(* The cgroups grant a fixed overhead per machine on top (UnitsOverhead),  *)
(* which the reserve of the host pays for up to five machines.             *)
(***************************************************************************)
EXTENDS VmLifecycleProofs, FiniteSetTheorems

(* No single entry is larger than the host: it makes the units finite, and *)
(* thereby the sums numbers.                                               *)
EntriesFit ==
  \A v \in Entries : /\ size[v].vcpus <= HostVcpus
                     /\ size[v].memory_mb <= AllocatableMemory(HostMemory)

SumsFit ==
  /\ AllocatedVcpus <= HostVcpus
  /\ AllocatedMemory <= AllocatableMemory(HostMemory)

Amounts == [Vm -> Nat]

(* Bounded amounts have finitely many units.                               *)
LEMMA UnitsFinite ==
  ASSUME NEW E \in SUBSET Vm, NEW n \in Amounts, NEW m \in Nat, \A v \in E : n[v] <= m
  PROVE  IsFiniteSet(Units(E, n)) /\ Cardinality(Units(E, n)) \in Nat
<1>1. IsFiniteSet(Vm \X (1 .. m))
  <2>1. IsFiniteSet(Vm)
    BY ConstantsAssumption
  <2>2. IsFiniteSet(1 .. m)
    BY FS_Interval
  <2> QED
    BY <2>1, <2>2, FS_Product, Zenon
<1>2. Units(E, n) \in SUBSET (Vm \X (1 .. m))
  BY DEF Units, Amounts
<1>3. IsFiniteSet(Units(E, n))
  BY <1>1, <1>2, FS_Subset
<1> QED
  BY <1>3, FS_CardinalityType

(* The sum over fewer entries, of the same sizes, is no larger.            *)
LEMMA UnitsSubset ==
  ASSUME NEW E \in SUBSET Vm, NEW n \in Amounts, NEW m \in Nat, \A v \in E : n[v] <= m,
         NEW D \in SUBSET E, NEW k \in Amounts, \A v \in D : k[v] = n[v]
  PROVE  Cardinality(Units(D, k)) <= Cardinality(Units(E, n))
<1>1. IsFiniteSet(Units(E, n))
  BY UnitsFinite
<1>2. Units(D, k) \in SUBSET Units(E, n)
  BY DEF Units
<1> QED
  BY <1>1, <1>2, FS_Subset

(* A new entry adds at most its own size to the sum.                       *)
LEMMA UnitsAdd ==
  ASSUME NEW E \in SUBSET Vm, NEW n \in Amounts, NEW m \in Nat, \A v \in E : n[v] <= m,
         NEW w \in Vm
  PROVE  Cardinality(Units(E \cup {w}, n)) <= Cardinality(Units(E, n)) + n[w]
<1> DEFINE Own == {w} \X (1 .. n[w])
<1>1. n[w] \in Nat
  BY DEF Amounts
<1>2. IsFiniteSet(Own) /\ Cardinality(Own) = n[w]
  <2>1. IsFiniteSet({w}) /\ Cardinality({w}) = 1
    BY FS_Singleton
  <2>2. IsFiniteSet(1 .. n[w]) /\ Cardinality(1 .. n[w]) = n[w]
    <3>1. PICK k \in Nat : k = n[w]
      BY <1>1
    <3>2. IsFiniteSet(1 .. k) /\ Cardinality(1 .. k) = k
      BY FS_Interval
    <3> QED
      BY <3>1, <3>2
  <2>3. IsFiniteSet(Own) /\ Cardinality(Own) = Cardinality({w}) * Cardinality(1 .. n[w])
    BY <2>1, <2>2, FS_Product, Zenon
  <2>4. 1 * n[w] = n[w]
    BY <1>1
  <2> QED
    BY <2>1, <2>2, <2>3, <2>4, Zenon
<1>3. Units(E \cup {w}, n) = Units(E, n) \cup Own
  BY DEF Units
<1>4. IsFiniteSet(Units(E, n)) /\ Cardinality(Units(E, n)) \in Nat
  BY UnitsFinite
<1>5. Cardinality(Units(E, n) \cap Own) \in Nat
  BY <1>2, FS_Intersection, FS_CardinalityType
<1>6. Cardinality(Units(E, n) \cup Own)
        = Cardinality(Units(E, n)) + Cardinality(Own) - Cardinality(Units(E, n) \cap Own)
  BY <1>2, <1>4, FS_Union, Zenon
<1>7. \A a, b, c \in Nat : a + b - c <= a + b
  OBVIOUS
<1> HIDE DEF Own
<1> QED
  BY <1>1, <1>2, <1>3, <1>4, <1>5, <1>6, <1>7, Zenon

-----------------------------------------------------------------------------
(* No new entry, and the others keep their size.                           *)
EntriesKept == Entries' \subseteq Entries /\ \A v \in Entries' : size'[v] = size[v]

(* Only Reserve adds an entry, and no step resizes one: a body is resolved *)
(* before its create has an entry.                                         *)
LEMMA EntriesStep ==
  ASSUME IInv, [Next]_vars
  PROVE  EntriesKept \/ \E v \in Vm : Reserve(v)
<1> USE DEF EntriesKept, Entries, TypeOK, GoTo, Goes, lockVars, hostVars, netVars, handlerVars, LockConsistent
<1> TypeOK /\ LockConsistent
  BY DEF IInv
<1>1. ASSUME NEW v \in Vm, CreateBegin(v) PROVE EntriesKept
  BY <1>1 DEF CreateBegin
<1>2. ASSUME NEW v \in Vm, FreeStep(v) PROVE EntriesKept
  <2>1. CASE CopyRootfs(v)
    BY <2>1 DEF CopyRootfs, JobEnds
  <2>2. CASE CopyRootfsFails(v)
    BY <2>2 DEF CopyRootfsFails, JobEnds
  <2>3. CASE AllocateSubnet(v)
    BY <2>3 DEF AllocateSubnet
  <2>4. CASE CreateTap(v)
    BY <2>4 DEF CreateTap
  <2>5. CASE CreateTapFails(v)
    BY <2>5 DEF CreateTapFails, JobEnds
  <2>6. CASE AddNatRules(v)
    BY <2>6 DEF AddNatRules, JobEnds
  <2>7. CASE AddNatRulesFails(v)
    BY <2>7 DEF AddNatRulesFails, JobEnds
  <2>8. CASE ReleaseFailedSubnet(v)
    BY <2>8 DEF ReleaseFailedSubnet
  <2>9. CASE StartVmm(v)
    BY <2>9 DEF StartVmm
  <2>10. CASE Configure(v)
    BY <2>10 DEF Configure
  <2>11. CASE SetupFails(v)
    BY <2>11 DEF SetupFails
  <2>12. CASE GuardDrop(v)
    BY <2>12 DEF GuardDrop
  <2>13. CASE GuardLeaks(v)
    BY <2>13 DEF GuardLeaks
  <2> QED
    BY <1>2, <2>1, <2>2, <2>3, <2>4, <2>5, <2>6, <2>7, <2>8, <2>9, <2>10, <2>11, <2>12, <2>13 DEF FreeStep
<1>3. ASSUME NEW v \in Vm, LockingStep(v), ~Reserve(v) PROVE EntriesKept
  <2>1. CASE Reject(v)
    BY <2>1 DEF Reject
  <2>2. CASE CreateError(v)
    BY <2>2 DEF CreateError
  <2>3. CASE Upgrade(v)
    BY <2>3 DEF Upgrade, IsUpgradable
  <2> QED
    BY <1>3, <2>1, <2>2, <2>3 DEF LockingStep
<1>4. ASSUME NEW v \in Vm, Cancel(v) PROVE EntriesKept
  <2>1. CASE CancelJob(v)
    BY <2>1 DEF CancelJob
  <2>2. CASE CancelUnguarded(v)
    BY <2>2 DEF CancelUnguarded
  <2>3. CASE CancelGuarded(v)
    BY <2>3 DEF CancelGuarded
  <2> QED
    BY <1>4, <2>1, <2>2, <2>3 DEF Cancel
<1>5. ASSUME NEW v \in Vm, DeleteBegin(v) PROVE EntriesKept
  BY <1>5 DEF DeleteBegin, IsDeletable
<1>6. ASSUME NEW v \in Vm, ShutdownNext(v) PROVE EntriesKept
  BY <1>6 DEF ShutdownNext
<1>7. ASSUME NEW v \in Vm, VmmExits(v) PROVE EntriesKept
  BY <1>7 DEF VmmExits
<1>8. CASE Teardown
  <2>1. CASE StopInstance
    BY <2>1 DEF StopInstance
  <2>2. CASE TeardownTap
    BY <2>2 DEF TeardownTap
  <2>3. CASE TeardownNat
    BY <2>3 DEF TeardownNat
  <2>4. CASE TeardownRelease
    BY <2>4 DEF TeardownRelease
  <2>5. CASE TeardownRootfs
    BY <2>5 DEF TeardownRootfs
  <2> QED
    BY <1>8, <2>1, <2>2, <2>3, <2>4, <2>5 DEF Teardown
<1>9. CASE CancelTeardown
  BY <1>9 DEF CancelTeardown
<1>10. CASE ReadLock
  BY <1>10 DEF ReadLock
<1>11. CASE ReadUnlock
  BY <1>11 DEF ReadUnlock
<1>12. CASE Main
  <2>1. CASE Signal
    BY <2>1 DEF Signal
  <2>2. CASE Drained
    BY <2>2 DEF Drained
  <2>3. CASE SshStopped
    BY <2>3 DEF SshStopped
  <2>4. CASE SshFailed
    BY <2>4 DEF SshFailed
  <2>5. CASE ShutdownLock
    BY <2>5 DEF ShutdownLock
  <2>6. CASE ShutdownDone
    BY <2>6 DEF ShutdownDone
  <2>7. CASE Exit
    BY <2>7 DEF Exit
  <2>8. CASE Crash
    BY <2>8 DEF Crash
  <2>9. CASE Boot
    BY <2>9 DEF Boot
  <2> QED
    BY <1>12, <2>1, <2>2, <2>3, <2>4, <2>5, <2>6, <2>7, <2>8, <2>9 DEF Main
<1>13. CASE UNCHANGED vars
  BY <1>13 DEF vars
<1> QED
  BY <1>1, <1>2, <1>3, <1>4, <1>5, <1>6, <1>7, <1>8, <1>9, <1>10, <1>11, <1>12, <1>13 DEF Next

-----------------------------------------------------------------------------
CapacityInv == EntriesFit /\ SumsFit

Vcpus  == [v \in Vm |-> size[v].vcpus]
Memory == [v \in Vm |-> size[v].memory_mb]

(* The sizes are amounts.                                                  *)
LEMMA SizesTyped ==
  ASSUME NEW s \in [Vm -> Size]
  PROVE  /\ [v \in Vm |-> s[v].vcpus] \in Amounts
         /\ [v \in Vm |-> s[v].memory_mb] \in Amounts
<1>1. ASSUME NEW v \in Vm
      PROVE  s[v].vcpus \in Nat /\ s[v].memory_mb \in Nat
  <2>1. s[v] \in Size
    OBVIOUS
  <2> QED
    BY <2>1 DEF Size, U8, U32
<1> QED
  BY <1>1 DEF Amounts

(* So are the host's, and its vCPUs fit into the u8 the sum is taken in.   *)
LEMMA HostTyped ==
  /\ HostVcpus \in 0 .. 255 /\ HostCores \in Nat /\ HostVcpus <= HostCores
  /\ AllocatableMemory(HostMemory) \in Nat
<1>1. HostCores \in Nat /\ HostMemory \in Nat
  BY ConstantsAssumption
<1>2. HostVcpus \in 0 .. 255 /\ HostVcpus <= HostCores
  BY <1>1 DEF HostVcpus, TotalCpus, WrapU8
<1> QED
  BY <1>1, <1>2 DEF AllocatableMemory, SaturatingSub, HOST_RESERVED_MEMORY_MB

(* A step that adds no entry does not raise the sums.                      *)
LEMMA CapacityKept ==
  ASSUME IInv, IInv', CapacityInv, EntriesKept
  PROVE  CapacityInv'
<1> DEFINE A == AllocatableMemory(HostMemory)
<1>1. size \in [Vm -> Size] /\ size' \in [Vm -> Size]
  BY DEF IInv, TypeOK
<1>2. EntriesFit'
  BY DEF CapacityInv, EntriesFit, EntriesKept
<1>3. /\ Vcpus \in Amounts /\ Memory \in Amounts
      /\ Vcpus' \in Amounts /\ Memory' \in Amounts
      /\ HostVcpus \in Nat /\ A \in Nat
  BY <1>1, SizesTyped, HostTyped DEF Vcpus, Memory
<1>4. Entries \in SUBSET Vm /\ Entries' \in SUBSET Entries
  BY DEF EntriesKept, Entries
<1>5. \A v \in Entries : Vcpus[v] <= HostVcpus /\ Memory[v] <= A
  BY <1>4 DEF CapacityInv, EntriesFit, Vcpus, Memory
<1>6. \A v \in Entries' : Vcpus'[v] = Vcpus[v] /\ Memory'[v] = Memory[v]
  BY <1>4 DEF EntriesKept, Vcpus, Memory
<1>7. AllocatedVcpus' <= AllocatedVcpus /\ AllocatedVcpus \in Nat
  BY <1>3, <1>4, <1>5, <1>6, UnitsSubset, UnitsFinite DEF AllocatedVcpus, Vcpus
<1>8. AllocatedMemory' <= AllocatedMemory /\ AllocatedMemory \in Nat
  BY <1>3, <1>4, <1>5, <1>6, UnitsSubset, UnitsFinite DEF AllocatedMemory, Memory
<1>9. AllocatedVcpus' \in Nat /\ AllocatedMemory' \in Nat
  <2>1. \A v \in Entries' : Vcpus'[v] <= HostVcpus /\ Memory'[v] <= A
    BY <1>4, <1>5, <1>6
  <2>2. Entries' \in SUBSET Vm
    BY <1>4
  <2> QED
    BY <1>3, <2>1, <2>2, UnitsFinite DEF AllocatedVcpus, AllocatedMemory, Vcpus, Memory
<1>10. \A a, b, c \in Nat : a <= b /\ b <= c => a <= c
  OBVIOUS
<1>11. SumsFit'
  <2>1. AllocatedVcpus <= HostVcpus /\ AllocatedMemory <= A
    BY DEF CapacityInv, SumsFit
  <2> QED
    BY <1>3, <1>7, <1>8, <1>10, <1>9, <2>1 DEF SumsFit
<1> QED
  BY <1>2, <1>11 DEF CapacityInv

(* The check leaves room for the entry it lets in, although it sums in a   *)
(* u8: as long as the sum fits the host it does not wrap.                  *)
LEMMA CapacityReserved ==
  ASSUME IInv, IInv', CapacityInv, NEW w \in Vm, Reserve(w)
  PROVE  CapacityInv'
<1> DEFINE A == AllocatableMemory(HostMemory)
<1>1. size \in [Vm -> Size] /\ vms \in [Vm -> {"absent", "creating", "running"}]
  BY DEF IInv, TypeOK
<1>2. /\ Vcpus \in Amounts /\ Memory \in Amounts
      /\ HostVcpus \in Nat /\ HostVcpus <= 255 /\ A \in Nat
  BY <1>1, SizesTyped, HostTyped DEF Vcpus, Memory
<1>3. Entries \in SUBSET Vm /\ Entries' = Entries \cup {w} /\ size' = size
  BY <1>1 DEF Reserve, Entries
<1>4. Vcpus' = Vcpus /\ Memory' = Memory
  BY <1>3 DEF Vcpus, Memory
<1>5. \A v \in Entries : Vcpus[v] <= HostVcpus /\ Memory[v] <= A
  BY <1>3 DEF CapacityInv, EntriesFit, Vcpus, Memory
<1>6. /\ AllocatedVcpus \in Nat /\ AllocatedVcpus <= HostVcpus
      /\ AllocatedMemory \in Nat /\ AllocatedMemory <= A
  BY <1>2, <1>3, <1>5, UnitsFinite
     DEF CapacityInv, SumsFit, AllocatedVcpus, AllocatedMemory, Vcpus, Memory
<1>7. Vcpus[w] \in Nat /\ Memory[w] \in Nat
  BY <1>2 DEF Amounts
<1>8. Vcpus[w] <= HostVcpus - AllocatedVcpus
  <2>1. Vcpus[w] <= AvailableVcpus
    BY DEF Reserve, HasCapacity, Vcpus
  <2>2. WrapU8(AllocatedVcpus) = AllocatedVcpus
    BY <1>2, <1>6 DEF WrapU8
  <2>3. AvailableVcpus = HostVcpus - AllocatedVcpus
    BY <1>6, <2>2 DEF AvailableVcpus, SaturatingSub
  <2> QED
    BY <2>1, <2>3
<1>9. Memory[w] <= A - AllocatedMemory
  <2>1. Memory[w] <= AvailableMemory
    BY DEF Reserve, HasCapacity, Memory
  <2>2. AvailableMemory = A - AllocatedMemory
    BY <1>6 DEF AvailableMemory, SaturatingSub
  <2> QED
    BY <2>1, <2>2
<1>10. Vcpus[w] <= HostVcpus /\ Memory[w] <= A
  BY <1>2, <1>6, <1>7, <1>8, <1>9
<1>11. \A v \in Entries' : Vcpus[v] <= HostVcpus /\ Memory[v] <= A
  BY <1>3, <1>5, <1>10
<1>12. EntriesFit'
  BY <1>3, <1>11 DEF EntriesFit, Vcpus, Memory
<1>13. AllocatedVcpus' \in Nat /\ AllocatedVcpus' <= AllocatedVcpus + Vcpus[w]
  <2>1. AllocatedVcpus' = Cardinality(Units(Entries \cup {w}, Vcpus))
    BY <1>3, <1>4 DEF AllocatedVcpus, Vcpus
  <2>2. AllocatedVcpus = Cardinality(Units(Entries, Vcpus))
    BY DEF AllocatedVcpus, Vcpus
  <2>3. Cardinality(Units(Entries \cup {w}, Vcpus)) \in Nat
    BY <1>2, <1>3, <1>11, UnitsFinite
  <2> QED
    BY <1>2, <1>3, <1>5, <2>1, <2>2, <2>3, UnitsAdd
<1>14. AllocatedMemory' \in Nat /\ AllocatedMemory' <= AllocatedMemory + Memory[w]
  <2>1. AllocatedMemory' = Cardinality(Units(Entries \cup {w}, Memory))
    BY <1>3, <1>4 DEF AllocatedMemory, Memory
  <2>2. AllocatedMemory = Cardinality(Units(Entries, Memory))
    BY DEF AllocatedMemory, Memory
  <2>3. Cardinality(Units(Entries \cup {w}, Memory)) \in Nat
    BY <1>2, <1>3, <1>11, UnitsFinite
  <2> QED
    BY <1>2, <1>3, <1>5, <2>1, <2>2, <2>3, UnitsAdd
<1>15. \A a, b, c, d \in Nat : a <= b + c /\ c <= d - b => a <= d
  OBVIOUS
<1>16. SumsFit'
  BY <1>2, <1>6, <1>7, <1>8, <1>9, <1>13, <1>14, <1>15 DEF SumsFit
<1> QED
  BY <1>12, <1>16 DEF CapacityInv

-----------------------------------------------------------------------------
(* The checks hold in every reachable state.                               *)
LEMMA CapacityInvariant == Spec => [](IInv /\ CapacityInv)
<1>1. Init => CapacityInv
  <2> SUFFICES ASSUME Init PROVE CapacityInv
    OBVIOUS
  <2>1. Entries = {}
    BY DEF Init, Entries
  <2>2. EntriesFit
    BY <2>1 DEF EntriesFit
  <2>3. \A n : Units({}, n) = {}
    BY DEF Units
  <2>4. AllocatedVcpus = 0 /\ AllocatedMemory = 0
    BY <2>1, <2>3, FS_EmptySet DEF AllocatedVcpus, AllocatedMemory
  <2> QED
    BY <2>2, <2>4, HostTyped DEF CapacityInv, SumsFit
<1>2. IInv /\ IInv' /\ CapacityInv /\ [Next]_vars => CapacityInv'
  BY EntriesStep, CapacityKept, CapacityReserved
<1> QED
  BY <1>1, <1>2, Invariant, PTL DEF Spec

(* What the sums and the sizes in the map are then.                        *)
LEMMA SumsTyped ==
  ASSUME IInv, CapacityInv
  PROVE  /\ Vcpus \in Amounts /\ Memory \in Amounts /\ Entries \in SUBSET Vm
         /\ \A v \in Entries : /\ Vcpus[v] <= HostVcpus
                               /\ Memory[v] <= AllocatableMemory(HostMemory)
         /\ AllocatedVcpus \in Nat /\ AllocatedMemory \in Nat
<1>1. Vcpus \in Amounts /\ Memory \in Amounts
  <2>1. size \in [Vm -> Size]
    BY DEF IInv, TypeOK
  <2> QED
    BY <2>1, SizesTyped DEF Vcpus, Memory
<1>2. Entries \in SUBSET Vm
  BY DEF Entries
<1>3. \A v \in Entries : Vcpus[v] <= HostVcpus /\ Memory[v] <= AllocatableMemory(HostMemory)
  BY <1>2 DEF CapacityInv, EntriesFit, Vcpus, Memory
<1>4. AllocatedVcpus \in Nat /\ AllocatedMemory \in Nat
  <2>1. HostVcpus \in Nat /\ AllocatableMemory(HostMemory) \in Nat
    BY HostTyped
  <2>2. AllocatedVcpus \in Nat
    BY <1>1, <1>2, <1>3, <2>1, UnitsFinite DEF AllocatedVcpus, Vcpus
  <2>3. AllocatedMemory \in Nat
    BY <1>1, <1>2, <1>3, <2>1, UnitsFinite DEF AllocatedMemory, Memory
  <2> QED
    BY <2>2, <2>3
<1> QED
  BY <1>1, <1>2, <1>3, <1>4

(* The sums over all entries, unwrapped, never exceed the host: whatever   *)
(* creates check at the same time, fail, are dropped, or are deleted.      *)
THEOREM CapacityRespected == Spec => []CapacityNeverExceeded
<1>1. IInv /\ CapacityInv => CapacityNeverExceeded
  BY SumsTyped, HostTyped DEF CapacityInv, SumsFit, CapacityNeverExceeded
<1> QED
  BY <1>1, CapacityInvariant, PTL

-----------------------------------------------------------------------------
(* The cgroups. *)

(* A body that resolves to a size that is not valid is answered 422: no    *)
(* create ever works with one.                                             *)
SizesValid == \A v \in Vm : IsValid(size[v])

LEMMA SizesValidStep ==
  ASSUME TypeOK, SizesValid, [Next]_vars
  PROVE  SizesValid'
<1> USE DEF SizesValid, TypeOK, lockVars, hostVars, netVars, handlerVars
<1>1. ASSUME NEW v \in Vm, CreateBegin(v) PROVE SizesValid'
  <2>1. size' = size \/ \E s : IsValid(s) /\ size' = [size EXCEPT ![v] = s]
    BY <1>1 DEF CreateBegin
  <2> HIDE DEF IsValid
  <2> QED
    BY <2>1
<1>2. ASSUME NEW v \in Vm, FreeStep(v) PROVE size' = size
  BY <1>2 DEF FreeStep, CopyRootfs, CopyRootfsFails, AllocateSubnet, CreateTap, CreateTapFails,
    AddNatRules, AddNatRulesFails, ReleaseFailedSubnet, StartVmm, Configure, SetupFails, GuardDrop,
    GuardLeaks
<1>3. ASSUME NEW v \in Vm, LockingStep(v) \/ Cancel(v) PROVE size' = size
  BY <1>3 DEF LockingStep, Reserve, Reject, CreateError, Upgrade, Cancel, CancelJob,
    CancelUnguarded, CancelGuarded
<1>4. ASSUME NEW v \in Vm, DeleteBegin(v) \/ ShutdownNext(v) \/ VmmExits(v) PROVE size' = size
  BY <1>4 DEF DeleteBegin, ShutdownNext, VmmExits
<1>5. Teardown \/ CancelTeardown => size' = size
  BY DEF Teardown, StopInstance, TeardownTap, TeardownNat, TeardownRelease, TeardownRootfs,
    CancelTeardown
<1>6. ReadLock \/ ReadUnlock \/ Main => size' = size
  BY DEF ReadLock, ReadUnlock, Main, Signal, Drained, SshStopped, SshFailed, ShutdownLock,
    ShutdownDone, Exit, Crash, Boot
<1>7. UNCHANGED vars => size' = size
  BY DEF vars
<1> QED
  BY <1>1, <1>2, <1>3, <1>4, <1>5, <1>6, <1>7 DEF Next

(* The same amount more for every entry is that much per entry: the rest   *)
(* of the units is as large as E \X (1 .. k).                              *)
LEMMA UnitsOverhead ==
  ASSUME NEW E \in SUBSET Vm, NEW n \in Amounts, NEW m \in Nat, \A v \in E : n[v] <= m,
         NEW k \in Nat
  PROVE  /\ IsFiniteSet(E)
         /\ Cardinality(Units(E, [v \in Vm |-> n[v] + k]))
              <= Cardinality(Units(E, n)) + Cardinality(E) * k
<1> DEFINE More == [v \in Vm |-> n[v] + k]
           Rest == UNION {{v} \X (n[v] + 1 .. n[v] + k) : v \in E}
           Pairs == E \X (1 .. k)
           f == [p \in Pairs |-> <<p[1], n[p[1]] + p[2]>>]
<1>1. \A v \in E : n[v] \in Nat /\ v \in Vm
  BY DEF Amounts
<1>2. IsFiniteSet(E)
  BY ConstantsAssumption, FS_Subset
<1>3. IsFiniteSet(Pairs) /\ Cardinality(Pairs) = Cardinality(E) * k
  <2>1. IsFiniteSet(1 .. k) /\ Cardinality(1 .. k) = k
    BY FS_Interval
  <2>2. IsFiniteSet(Pairs) /\ Cardinality(Pairs) = Cardinality(E) * Cardinality(1 .. k)
    BY <1>2, <2>1, FS_Product, Zenon
  <2> QED
    BY <2>1, <2>2
<1>4. f \in Surjection(Pairs, Rest)
  <2>1. ASSUME NEW p \in Pairs PROVE f[p] \in Rest
    BY <1>1
  <2>2. ASSUME NEW t \in Rest PROVE \E p \in Pairs : f[p] = t
    <3>1. PICK v \in E : t \in {v} \X (n[v] + 1 .. n[v] + k)
      OBVIOUS
    <3>2. t[2] - n[v] \in 1 .. k /\ t = <<v, t[2]>> /\ n[v] + (t[2] - n[v]) = t[2]
      BY <1>1, <3>1
    <3>3. <<v, t[2] - n[v]>> \in Pairs /\ f[<<v, t[2] - n[v]>>] = t
      BY <3>2
    <3> QED
      BY <3>3
  <2> QED
    BY <2>1, <2>2 DEF Surjection
<1>5. IsFiniteSet(Rest) /\ Cardinality(Rest) <= Cardinality(Pairs)
  <2> HIDE DEF f, Rest, Pairs
  <2> QED
    BY <1>3, <1>4, FS_Surjection
<1>6. Units(E, More) = Units(E, n) \cup Rest
  <2>1. \A v \in E : 1 .. More[v] = (1 .. n[v]) \cup (n[v] + 1 .. n[v] + k)
    BY <1>1
  <2>2. Units(E, More) = UNION {{v} \X ((1 .. n[v]) \cup (n[v] + 1 .. n[v] + k)) : v \in E}
    BY <2>1 DEF Units
  <2> QED
    BY <2>2 DEF Units
<1>7. IsFiniteSet(Units(E, n)) /\ Cardinality(Units(E, n)) \in Nat
  BY UnitsFinite
<1> HIDE DEF Rest, Pairs
<1>8. Cardinality(Units(E, n) \cap Rest) \in Nat /\ Cardinality(Rest) \in Nat
  BY <1>5, <1>7, FS_Intersection, FS_CardinalityType
<1>9. Cardinality(Units(E, n) \cup Rest)
        = Cardinality(Units(E, n)) + Cardinality(Rest) - Cardinality(Units(E, n) \cap Rest)
  BY <1>5, <1>7, FS_Union, Zenon
<1>10. Cardinality(Pairs) \in Nat
  BY <1>3, FS_CardinalityType
<1>11. \A a, b, c, d \in Nat : b <= d => a + b - c <= a + d
  OBVIOUS
<1>12. Cardinality(Units(E, n) \cup Rest) <= Cardinality(Units(E, n)) + Cardinality(Pairs)
  BY <1>5, <1>7, <1>8, <1>9, <1>10, <1>11
<1> QED
  BY <1>2, <1>3, <1>6, <1>12


(* The limits of the cgroups, in the terms of the sums.                    *)
LEMMA Limits ==
  ASSUME TypeOK
  PROVE  LET limits == [v \in Vm |-> BuildCgroupConfig(size[v])]
         IN  /\ [v \in Vm |-> limits[v].cpu_quota \div limits[v].cpu_period] = Vcpus
             /\ [v \in Vm |-> limits[v].memory_max] = [v \in Vm |-> Memory[v] + OVERHEAD_MB]
<1>1. ASSUME NEW v \in Vm
      PROVE  (size[v].vcpus * CPU_PERIOD) \div CPU_PERIOD = size[v].vcpus
  <2>1. size[v] \in Size
    BY DEF TypeOK
  <2>2. size[v].vcpus \in Nat
    BY <2>1 DEF Size, U8
  <2> QED
    BY <2>2 DEF CPU_PERIOD
<1> QED
  BY <1>1 DEF BuildCgroupConfig, Vcpus, Memory

(* `Warlock prevents overcommitting host resources`: as long as the        *)
(* host's reserve pays for the overhead of every Firecracker, what the     *)
(* cgroups grant is there, for every host and every set of faults.  A host *)
(* with less memory than the reserve has room for no valid size at all.    *)
THEOREM CgroupsFitHost == Spec => []CgroupsFit
<1>1. Init => SizesValid
  BY DEF Init, SizesValid, Defaults, IsValid, ValidVcpus, ValidMemory, DEFAULT_VCPUS,
    DEFAULT_MEMORY_MB, MIN_MEMORY_MB, MAX_VCPUS
<1>2. IInv /\ SizesValid /\ [Next]_vars => SizesValid'
  BY SizesValidStep DEF IInv
<1>3. ASSUME IInv, CapacityInv, SizesValid
      PROVE  CgroupsFit
  <2> DEFINE More == [v \in Vm |-> Memory[v] + OVERHEAD_MB]
             A == AllocatableMemory(HostMemory)
  <2>1. SUFFICES ASSUME Cardinality(Entries) * OVERHEAD_MB <= HOST_RESERVED_MEMORY_MB
                 PROVE  Granted(Vcpus) <= HostCores /\ Granted(More) <= HostMemory
    <3>1. TypeOK
      BY <1>3 DEF IInv
    <3> HIDE DEF More
    <3> QED
      BY <3>1, Limits DEF CgroupsFit, More
  <2>2. Granted(Vcpus) <= HostCores
    BY <1>3, SumsTyped, HostTyped DEF CapacityInv, SumsFit, Granted, AllocatedVcpus, Vcpus
  <2>3. /\ IsFiniteSet(Entries)
        /\ Granted(More) <= AllocatedMemory + Cardinality(Entries) * OVERHEAD_MB
    <3>1. OVERHEAD_MB \in Nat /\ A \in Nat
      BY HostTyped DEF OVERHEAD_MB
    <3>2. AllocatedMemory = Cardinality(Units(Entries, Memory))
      BY DEF AllocatedMemory, Memory
    <3> QED
      BY <1>3, <3>1, <3>2, SumsTyped, UnitsOverhead DEF Granted
  <2>4. AllocatedMemory \in Nat /\ AllocatedMemory <= A /\ Cardinality(Entries) \in Nat
    BY <1>3, <2>3, SumsTyped, FS_CardinalityType DEF CapacityInv, SumsFit
  <2>5. Granted(More) \in Nat
    <3>1. More \in Amounts /\ A + OVERHEAD_MB \in Nat
      BY <1>3, SumsTyped, HostTyped DEF Amounts, OVERHEAD_MB
    <3>2. \A v \in Entries : More[v] <= A + OVERHEAD_MB
      BY <1>3, <3>1, SumsTyped, HostTyped DEF Amounts, OVERHEAD_MB
    <3> QED
      BY <1>3, <3>1, <3>2, SumsTyped, UnitsFinite DEF Granted
  <2>6. HostMemory \in Nat
    BY ConstantsAssumption
  <2>7. CASE HostMemory >= HOST_RESERVED_MEMORY_MB
    <3>1. A = HostMemory - HOST_RESERVED_MEMORY_MB
      BY <2>7 DEF AllocatableMemory, SaturatingSub
    <3> HIDE DEF A, More
    <3> QED
      BY <2>1, <2>2, <2>3, <2>4, <2>5, <2>6, <2>7, <3>1 DEF HOST_RESERVED_MEMORY_MB, OVERHEAD_MB
  <2>8. CASE ~(HostMemory >= HOST_RESERVED_MEMORY_MB)
    <3>1. A = 0
      BY <2>8 DEF AllocatableMemory, SaturatingSub
    <3>2. \A v \in Vm : Memory[v] >= MIN_MEMORY_MB
      BY <1>3 DEF SizesValid, IsValid, ValidMemory, Memory
    <3>3. Entries = {}
      BY <1>3, <3>1, <3>2, SumsTyped DEF MIN_MEMORY_MB, Amounts
    <3>4. Granted(More) = 0
      BY <3>3, FS_EmptySet DEF Granted, Units
    <3> QED
      BY <2>2, <2>6, <3>4
  <2> QED
    BY <2>7, <2>8
<1> QED
  BY <1>1, <1>2, <1>3, CapacityInvariant, PTL DEF Spec
=============================================================================
