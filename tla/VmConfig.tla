------------------------------ MODULE VmConfig ------------------------------
(***************************************************************************)
(* The sizes of virtual machines and of the host: validation of a create   *)
(* request (src/vm/config.rs) and the host's allocatable capacity          *)
(* (src/capacity.rs), with the integer widths the code uses.               *)
(***************************************************************************)
EXTENDS Integers, FiniteSets

DEFAULT_VCPUS     == 1
DEFAULT_MEMORY_MB == 128
MIN_MEMORY_MB     == 128
MAX_VCPUS         == 32
HOST_RESERVED_MEMORY_MB == 256

U8 == 0 .. 255
WrapU8(n) == n % 256

(* u32 and u64 amounts of memory never come near their width: a sum of u32 *)
(* values in a u64 would need 2^32 machines.                               *)
U32 == Nat

(* `Option<T>`: the set of its value, if there is one. *)
Option(T) == {opt \in SUBSET T : Cardinality(opt) <= 1}

UnwrapOr(opt, default) == IF opt = {} THEN default ELSE CHOOSE n \in opt : TRUE

SaturatingSub(m, n) == IF m >= n THEN m - n ELSE 0

-----------------------------------------------------------------------------
(* What a client may send, and the size it resolves to. *)

Request == [vcpus : Option(U8), memory_mb : Option(U32)]
Size    == [vcpus : U8, memory_mb : U32]

Resolve(req) == [vcpus     |-> UnwrapOr(req.vcpus, DEFAULT_VCPUS),
                 memory_mb |-> UnwrapOr(req.memory_mb, DEFAULT_MEMORY_MB)]

ValidVcpus(n)  == n # 0 /\ n <= MAX_VCPUS /\ (n > 1 => n % 2 = 0)
ValidMemory(m) == m >= MIN_MEMORY_MB

IsValid(size) == ValidVcpus(size.vcpus) /\ ValidMemory(size.memory_mb)

-----------------------------------------------------------------------------
(* The limits of a machine's cgroup: the same numbers, under other names,  *)
(* for both versions of cgroups.  Memory is in MB here, bytes in the code. *)

CPU_PERIOD  == 100000
OVERHEAD_MB == 50

BuildCgroupConfig(size) ==
  [cpu_quota  |-> size.vcpus * CPU_PERIOD,
   cpu_period |-> CPU_PERIOD,
   memory_max |-> size.memory_mb + OVERHEAD_MB]

-----------------------------------------------------------------------------
(* The host. *)

(* `available_parallelism()` narrowed with `as u8`. *)
TotalCpus(cores) == WrapU8(cores)

(* Mutant: nothing is kept for the host. *)
AllocatableMemoryAll(memory) == memory

AllocatableMemory(memory) == SaturatingSub(memory, HOST_RESERVED_MEMORY_MB)
=============================================================================
