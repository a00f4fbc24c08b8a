---------------------------- MODULE SubnetLedger ----------------------------
(***************************************************************************)
(* What Warlock promises about the subnets of its machines, whatever       *)
(* becomes of the requests that use them: a subnet is lent to one machine  *)
(* at a time, changes hands only through the pool, and one that was lost   *)
(* is not lent again before the next start.                                *)
(***************************************************************************)
EXTENDS Integers

CONSTANTS Slot, Client

VARIABLES owner,   \* the clients a slot is lent to: none or one
          lost     \* slots in nobody's hands that are not lent again

ledgerVars == <<owner, lost>>

Nobody == [s \in Slot |-> {}]

LedgerInit == owner = Nobody /\ lost = {}

Lend(s, c) ==
  /\ owner[s] = {} /\ s \notin lost
  /\ \A t \in Slot : c \notin owner[t]
  /\ owner' = [owner EXCEPT ![s] = {c}]
  /\ UNCHANGED lost

Return(s) ==
  /\ owner[s] # {}
  /\ owner' = [owner EXCEPT ![s] = {}]
  /\ UNCHANGED lost

Lose(s) ==
  /\ owner[s] # {}
  /\ owner' = [owner EXCEPT ![s] = {}]
  /\ lost' = lost \cup {s}

(* The process ends: all that was lent is lost, ... *)
Die ==
  /\ owner' = Nobody
  /\ lost' = lost \cup {s \in Slot : owner[s] # {}}

(* ... and the next one starts over. *)
Restart ==
  /\ owner = Nobody
  /\ lost' = {}
  /\ UNCHANGED owner

LedgerNext ==
  \/ \E s \in Slot : Return(s) \/ Lose(s) \/ \E c \in Client : Lend(s, c)
  \/ Die \/ Restart

LedgerSpec == LedgerInit /\ [][LedgerNext]_ledgerVars
=============================================================================
