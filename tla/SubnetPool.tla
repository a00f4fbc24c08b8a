----------------------------- MODULE SubnetPool -----------------------------
(***************************************************************************)
(* The pool of /30 subnets of src/vm/network.rs: a bitmap of slots, the    *)
(* lowest free one handed out first, and the addresses derived from a      *)
(* slot's index.  The bitmap lives in the module that uses the pool, as    *)
(* `AppState::subnet_pool` does; here are its operations.                  *)
(***************************************************************************)
EXTENDS Integers

CONSTANT MaxSubnets   \* MAX_SUBNETS, 16384 in the code

(* 65536 / 4 subnets fit into 172.16.0.0/16. *)
ASSUME MaxSubnetsAssumption == MaxSubnets \in 1 .. 16384

Index == 0 .. MaxSubnets - 1

(* `slots: Vec<bool>`: TRUE while the subnet is in use. *)
Pool == [Index -> BOOLEAN]

(* Mutant: one slot too many. *)
FreshPoolInclusive == [i \in 0 .. MaxSubnets |-> FALSE]

FreshPool == [i \in Index |-> FALSE]

IsFree(pool, i) == i \in Index /\ ~pool[i]

(* Mutant: the bit is not looked at. *)
IsAnySlot(pool, i) == i \in Index

IsFirstFree(pool, i) == IsFree(pool, i) /\ \A j \in 0 .. i - 1 : pool[j]

IsExhausted(pool) == \A i \in Index : pool[i]

(* Mutant: the wrong bit. *)
ReleaseLowest(pool, i) == [pool EXCEPT ![0] = FALSE]

(* `release` writes the bit whatever it was: it does not know who owns it. *)
Release(pool, i) == [pool EXCEPT ![i] = FALSE]

-----------------------------------------------------------------------------
(* The addresses of a subnet: byte `n` of its /30 (1 is the tap, 2 the     *)
(* guest), each octet narrowed with `as u8`.                               *)

Address(n, i) ==
  <<172, 16, ((4 * i + n) \div 256) % 256, ((4 * i + n) % 256) % 256>>

TapIp(i)   == Address(1, i)
GuestIp(i) == Address(2, i)

(* The /30 an address belongs to: what the prefix length in `ip addr add`  *)
(* and the 255.255.255.252 netmask in the boot arguments leave of it.      *)
Net30(ip) == (ip[3] * 256 + ip[4]) \div 4
=============================================================================
