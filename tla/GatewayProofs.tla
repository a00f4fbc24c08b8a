---------------------------- MODULE GatewayProofs ---------------------------
(***************************************************************************)
(* The registry of the gateway, for any number of machines and every set   *)
(* of faults: handlers dropped, calls late or lost, crashes, an SSH server *)
(* that stops by itself.                                                   *)
(*                                                                         *)
(* What there is to prove is about the calls that are under way: a         *)
(* register call is only on its way while its create waits for it, and a   *)
(* deregister call only once its machine has left the map, or the shutdown *)
(* has the lock (CallsOrdered).  A report of which that cannot be said is  *)
(* in `unsure`, and stays there.                                           *)
(***************************************************************************)
EXTENDS Gateway, TLAPS

USE DEF callVars, lockVars

(* The lock: what its holder is at, and that an exit has let go of it.     *)
LockConsistent ==
  /\ stage # "none" => victim \in Vm /\ holder # "none"
  /\ stage = "none" => victim = NoVm
  /\ stage = "stop" => holder = "delete"
  /\ holder = "delete" => stage # "none" /\ vms[victim] = "absent" /\ todo = {}
  /\ holder = "shutdown" => mode \in {"closing", "aborting"}

(* A create enters its machine once, and its machine is not known to the   *)
(* gateway before.                                                         *)
CreatesOnce ==
  /\ \A v \in Vm :
       /\ vms[v] = "running" => create[v] \in {"report", "await", "done"}
       /\ vms[v] = "creating" => create[v] \in {"setup", "done"}
  /\ mode = "closing" => \A v \in Vm : create[v] \in {"idle", "done"}
  /\ mode = "exited" => holder = "none" /\
       \A v \in Vm : create[v] \in {"idle", "done"} /\ vms[v] = "absent"
  /\ mode = "serving" => holder # "shutdown"

CallsOrdered ==
  \A v \in Vm :
    /\ <<"register", v>> \in calls => create[v] = "await" \/ v \in unsure
    /\ <<"deregister", v>> \in calls => vms[v] = "absent" \/ holder = "shutdown" \/ v \in unsure
    /\ mode \in {"serving", "draining"} /\ vms[v] = "running" /\ v \notin unsure =>
         /\ create[v] = "await" => <<"register", v>> \in calls \/ v \in registry
         /\ create[v] = "done" => v \in registry
    /\ create[v] \in {"idle", "prepare"} =>
         vms[v] = "absent" /\ victim # v /\ <<"deregister", v>> \notin calls

GInv == TypeOK /\ LockConsistent /\ CreatesOnce /\ CallsOrdered

(* A machine that was settled stays one that the gateway forgets: its      *)
(* register call is over for good, and it leaves the map only with a       *)
(* deregister call that is served, or that makes it unsure.                *)
Leaving(v) ==
  \/ <<"deregister", v>> \in calls
  \/ v \notin registry

Leaves(v) ==
  \/ v \in unsure
  \/ /\ create[v] = "done" /\ vms[v] # "creating" /\ <<"register", v>> \notin calls
     /\ vms[v] = "running" /\ holder = "shutdown" =>
          v \in todo \/ (IF victim = v THEN Leaving(v) ELSE v \notin registry)
     /\ vms[v] = "absent" =>
          IF victim = v THEN stage = "stop" \/ Leaving(v) ELSE v \notin registry

SettledLeave == \A v \in Vm : Settled(v) => Leaves(v)

LeavesStay == [][\A v \in Vm : Leaves(v) => Leaves(v)']_vars

LEMMA GatewayInit == Init => TypeOK /\ LockConsistent /\ CreatesOnce /\ CallsOrdered /\ SettledLeave
<1> SUFFICES ASSUME Init PROVE TypeOK /\ LockConsistent /\ CreatesOnce /\ CallsOrdered /\ SettledLeave
  OBVIOUS
<1> USE GatewayAssumption DEF Init
<1>1. client \in BOOLEAN
  BY DEF Clients
<1>2. TypeOK
  BY <1>1 DEF TypeOK, Entries
<1>3. LockConsistent /\ CreatesOnce /\ CallsOrdered
  BY DEF LockConsistent, CreatesOnce, CallsOrdered
<1>4. SettledLeave
  BY DEF SettledLeave, Settled
<1> QED
  BY <1>2, <1>3, <1>4

LEMMA GatewayTypeStep ==
  ASSUME TypeOK, LockConsistent, [Next]_vars
  PROVE  TypeOK'
<1> USE GatewayAssumption DEF TypeOK, LockConsistent, Call, Entries
<1>1. ASSUME NEW v \in Vm, CreateBegin(v) PROVE TypeOK'
  BY <1>1 DEF CreateBegin
<1>2. ASSUME NEW v \in Vm, Reserve(v) PROVE TypeOK'
  BY <1>2 DEF Reserve
<1>3. ASSUME NEW v \in Vm, PrepareFails(v) PROVE TypeOK'
  BY <1>3 DEF PrepareFails
<1>4. ASSUME NEW v \in Vm, SetupFails(v) PROVE TypeOK'
  BY <1>4 DEF SetupFails
<1>5. ASSUME NEW v \in Vm, Upgrade(v) PROVE TypeOK'
  BY <1>5 DEF Upgrade
<1>6. ASSUME NEW v \in Vm, Register(v) PROVE TypeOK'
  BY <1>6 DEF Register, Send
<1>7. ASSUME NEW v \in Vm, Respond(v) PROVE TypeOK'
  BY <1>7 DEF Respond, GoesOn
<1>8. ASSUME NEW v \in Vm, CancelCreate(v) PROVE TypeOK'
  BY <1>8 DEF CancelCreate, CallDropped
<1>9. ASSUME NEW v \in Vm, DeleteBegin(v) PROVE TypeOK'
  BY <1>9 DEF DeleteBegin, Lock
<1>10. ASSUME NEW op \in {"register", "deregister"}, NEW v \in Vm, Serve(op, v) PROVE TypeOK'
  BY <1>10 DEF Serve
<1>11. ASSUME NEW op \in {"register", "deregister"}, NEW v \in Vm, Lose(op, v) PROVE TypeOK'
  BY <1>11 DEF Lose
<1>12. CASE Deregister
  BY <1>12 DEF Deregister, Send
<1>13. CASE DeleteEnd
  BY <1>13 DEF DeleteEnd, GoesOn, Unlock
<1>14. CASE CancelDelete
  BY <1>14 DEF CancelDelete, Unlock, CallDropped
<1>15. CASE Signal
  BY <1>15 DEF Signal
<1>16. CASE Drained
  BY <1>16 DEF Drained, NoneInFlight
<1>17. CASE SshStopped
  BY <1>17 DEF SshStopped
<1>18. CASE ShutdownLock
  BY <1>18 DEF ShutdownLock, Lock
<1>19. ASSUME NEW v \in Vm, ShutdownDeregister(v) PROVE TypeOK'
  BY <1>19 DEF ShutdownDeregister, Send
<1>20. CASE ShutdownGoesOn
  BY <1>20 DEF ShutdownGoesOn, GoesOn
<1>21. CASE ShutdownDone
  BY <1>21 DEF ShutdownDone, Unlock
<1>22. CASE Exit
  BY <1>22 DEF Exit, Die, Unlock, Unreported
<1>23. CASE Crash
  BY <1>23 DEF Crash, Die, Unlock, Unreported
<1>24. CASE Boot
  BY <1>24 DEF Boot, Clients
<1>25. CASE UNCHANGED vars
  BY <1>25 DEF vars
<1> QED
  BY <1>1, <1>2, <1>3, <1>4, <1>5, <1>6, <1>7, <1>8, <1>9, <1>10, <1>11, <1>12, <1>13,
    <1>14, <1>15, <1>16, <1>17, <1>18, <1>19, <1>20, <1>21, <1>22, <1>23, <1>24, <1>25
    DEF Next, CreateStep, Shutdown

LEMMA LockStep ==
  ASSUME TypeOK, LockConsistent, CreatesOnce, [Next]_vars
  PROVE  LockConsistent'
<1> USE GatewayAssumption DEF TypeOK, LockConsistent, CreatesOnce, Entries
<1>1. ASSUME NEW v \in Vm, CreateBegin(v) PROVE LockConsistent'
  BY <1>1 DEF CreateBegin
<1>2. ASSUME NEW v \in Vm, Reserve(v) PROVE LockConsistent'
  BY <1>2 DEF Reserve
<1>3. ASSUME NEW v \in Vm, PrepareFails(v) PROVE LockConsistent'
  BY <1>3 DEF PrepareFails
<1>4. ASSUME NEW v \in Vm, SetupFails(v) PROVE LockConsistent'
  BY <1>4 DEF SetupFails
<1>5. ASSUME NEW v \in Vm, Upgrade(v) PROVE LockConsistent'
  BY <1>5 DEF Upgrade
<1>6. ASSUME NEW v \in Vm, Register(v) PROVE LockConsistent'
  BY <1>6 DEF Register, Send
<1>7. ASSUME NEW v \in Vm, Respond(v) PROVE LockConsistent'
  BY <1>7 DEF Respond, GoesOn
<1>8. ASSUME NEW v \in Vm, CancelCreate(v) PROVE LockConsistent'
  BY <1>8 DEF CancelCreate, CallDropped
<1>9. ASSUME NEW v \in Vm, DeleteBegin(v) PROVE LockConsistent'
  BY <1>9 DEF DeleteBegin, Lock
<1>10. ASSUME NEW op \in {"register", "deregister"}, NEW v \in Vm, Serve(op, v) PROVE LockConsistent'
  BY <1>10 DEF Serve
<1>11. ASSUME NEW op \in {"register", "deregister"}, NEW v \in Vm, Lose(op, v) PROVE LockConsistent'
  BY <1>11 DEF Lose
<1>12. CASE Deregister
  BY <1>12 DEF Deregister, Send
<1>13. CASE DeleteEnd
  BY <1>13 DEF DeleteEnd, GoesOn, Unlock
<1>14. CASE CancelDelete
  BY <1>14 DEF CancelDelete, Unlock, CallDropped
<1>15. CASE Signal
  BY <1>15 DEF Signal
<1>16. CASE Drained
  BY <1>16 DEF Drained, NoneInFlight
<1>17. CASE SshStopped
  BY <1>17 DEF SshStopped
<1>18. CASE ShutdownLock
  BY <1>18 DEF ShutdownLock, Lock
<1>19. ASSUME NEW v \in Vm, ShutdownDeregister(v) PROVE LockConsistent'
  BY <1>19 DEF ShutdownDeregister, Send
<1>20. CASE ShutdownGoesOn
  BY <1>20 DEF ShutdownGoesOn, GoesOn
<1>21. CASE ShutdownDone
  BY <1>21 DEF ShutdownDone, Unlock
<1>22. CASE Exit
  BY <1>22 DEF Exit, Die, Unlock, Unreported
<1>23. CASE Crash
  BY <1>23 DEF Crash, Die, Unlock, Unreported
<1>24. CASE Boot
  BY <1>24 DEF Boot, Clients
<1>25. CASE UNCHANGED vars
  BY <1>25 DEF vars
<1> QED
  BY <1>1, <1>2, <1>3, <1>4, <1>5, <1>6, <1>7, <1>8, <1>9, <1>10, <1>11, <1>12, <1>13,
    <1>14, <1>15, <1>16, <1>17, <1>18, <1>19, <1>20, <1>21, <1>22, <1>23, <1>24, <1>25
    DEF Next, CreateStep, Shutdown

LEMMA CreatesStep ==
  ASSUME TypeOK, LockConsistent, CreatesOnce, [Next]_vars
  PROVE  CreatesOnce'
<1> USE GatewayAssumption DEF TypeOK, LockConsistent, CreatesOnce, Entries
<1>1. ASSUME NEW v \in Vm, CreateBegin(v) PROVE CreatesOnce'
  BY <1>1 DEF CreateBegin
<1>2. ASSUME NEW v \in Vm, Reserve(v) PROVE CreatesOnce'
  BY <1>2 DEF Reserve
<1>3. ASSUME NEW v \in Vm, PrepareFails(v) PROVE CreatesOnce'
  BY <1>3 DEF PrepareFails
<1>4. ASSUME NEW v \in Vm, SetupFails(v) PROVE CreatesOnce'
  BY <1>4 DEF SetupFails
<1>5. ASSUME NEW v \in Vm, Upgrade(v) PROVE CreatesOnce'
  BY <1>5 DEF Upgrade
<1>6. ASSUME NEW v \in Vm, Register(v) PROVE CreatesOnce'
  BY <1>6 DEF Register, Send
<1>7. ASSUME NEW v \in Vm, Respond(v) PROVE CreatesOnce'
  BY <1>7 DEF Respond, GoesOn
<1>8. ASSUME NEW v \in Vm, CancelCreate(v) PROVE CreatesOnce'
  BY <1>8 DEF CancelCreate, CallDropped
<1>9. ASSUME NEW v \in Vm, DeleteBegin(v) PROVE CreatesOnce'
  BY <1>9 DEF DeleteBegin, Lock
<1>10. ASSUME NEW op \in {"register", "deregister"}, NEW v \in Vm, Serve(op, v) PROVE CreatesOnce'
  BY <1>10 DEF Serve
<1>11. ASSUME NEW op \in {"register", "deregister"}, NEW v \in Vm, Lose(op, v) PROVE CreatesOnce'
  BY <1>11 DEF Lose
<1>12. CASE Deregister
  BY <1>12 DEF Deregister, Send
<1>13. CASE DeleteEnd
  BY <1>13 DEF DeleteEnd, GoesOn, Unlock
<1>14. CASE CancelDelete
  BY <1>14 DEF CancelDelete, Unlock, CallDropped
<1>15. CASE Signal
  BY <1>15 DEF Signal
<1>16. CASE Drained
  BY <1>16 DEF Drained, NoneInFlight
<1>17. CASE SshStopped
  BY <1>17 DEF SshStopped
<1>18. CASE ShutdownLock
  BY <1>18 DEF ShutdownLock, Lock
<1>19. ASSUME NEW v \in Vm, ShutdownDeregister(v) PROVE CreatesOnce'
  BY <1>19 DEF ShutdownDeregister, Send
<1>20. CASE ShutdownGoesOn
  BY <1>20 DEF ShutdownGoesOn, GoesOn
<1>21. CASE ShutdownDone
  BY <1>21 DEF ShutdownDone, Unlock
<1>22. CASE Exit
  BY <1>22 DEF Exit, Die, Unlock, Unreported
<1>23. CASE Crash
  BY <1>23 DEF Crash, Die, Unlock, Unreported
<1>24. CASE Boot
  BY <1>24 DEF Boot, Clients
<1>25. CASE UNCHANGED vars
  BY <1>25 DEF vars
<1> QED
  BY <1>1, <1>2, <1>3, <1>4, <1>5, <1>6, <1>7, <1>8, <1>9, <1>10, <1>11, <1>12, <1>13,
    <1>14, <1>15, <1>16, <1>17, <1>18, <1>19, <1>20, <1>21, <1>22, <1>23, <1>24, <1>25
    DEF Next, CreateStep, Shutdown

LEMMA CallsStep ==
  ASSUME TypeOK, LockConsistent, CreatesOnce, CallsOrdered, [Next]_vars
  PROVE  CallsOrdered'
<1> USE GatewayAssumption DEF TypeOK, LockConsistent, CreatesOnce, CallsOrdered, Entries
<1>1. ASSUME NEW v \in Vm, CreateBegin(v) PROVE CallsOrdered'
  BY <1>1 DEF CreateBegin
<1>2. ASSUME NEW v \in Vm, Reserve(v) PROVE CallsOrdered'
  BY <1>2 DEF Reserve
<1>3. ASSUME NEW v \in Vm, PrepareFails(v) PROVE CallsOrdered'
  BY <1>3 DEF PrepareFails
<1>4. ASSUME NEW v \in Vm, SetupFails(v) PROVE CallsOrdered'
  BY <1>4 DEF SetupFails
<1>5. ASSUME NEW v \in Vm, Upgrade(v) PROVE CallsOrdered'
  BY <1>5 DEF Upgrade
<1>6. ASSUME NEW v \in Vm, Register(v) PROVE CallsOrdered'
  BY <1>6 DEF Register, Send
<1>7. ASSUME NEW v \in Vm, Respond(v) PROVE CallsOrdered'
  BY <1>7 DEF Respond, GoesOn
<1>8. ASSUME NEW v \in Vm, CancelCreate(v) PROVE CallsOrdered'
  BY <1>8 DEF CancelCreate, CallDropped
<1>9. ASSUME NEW v \in Vm, DeleteBegin(v) PROVE CallsOrdered'
  BY <1>9 DEF DeleteBegin, Lock
<1>10. ASSUME NEW op \in {"register", "deregister"}, NEW v \in Vm, Serve(op, v) PROVE CallsOrdered'
  BY <1>10 DEF Serve
<1>11. ASSUME NEW op \in {"register", "deregister"}, NEW v \in Vm, Lose(op, v) PROVE CallsOrdered'
  BY <1>11 DEF Lose
<1>12. CASE Deregister
  BY <1>12 DEF Deregister, Send
<1>13. CASE DeleteEnd
  BY <1>13 DEF DeleteEnd, GoesOn, Unlock
<1>14. CASE CancelDelete
  BY <1>14 DEF CancelDelete, Unlock, CallDropped
<1>15. CASE Signal
  BY <1>15 DEF Signal
<1>16. CASE Drained
  BY <1>16 DEF Drained, NoneInFlight
<1>17. CASE SshStopped
  BY <1>17 DEF SshStopped
<1>18. CASE ShutdownLock
  BY <1>18 DEF ShutdownLock, Lock
<1>19. ASSUME NEW v \in Vm, ShutdownDeregister(v) PROVE CallsOrdered'
  BY <1>19 DEF ShutdownDeregister, Send
<1>20. CASE ShutdownGoesOn
  BY <1>20 DEF ShutdownGoesOn, GoesOn
<1>21. CASE ShutdownDone
  BY <1>21 DEF ShutdownDone, Unlock
<1>22. CASE Exit
  BY <1>22 DEF Exit, Die, Unlock, Unreported
<1>23. CASE Crash
  BY <1>23 DEF Crash, Die, Unlock, Unreported
<1>24. CASE Boot
  BY <1>24 DEF Boot, Clients
<1>25. CASE UNCHANGED vars
  BY <1>25 DEF vars
<1> QED
  BY <1>1, <1>2, <1>3, <1>4, <1>5, <1>6, <1>7, <1>8, <1>9, <1>10, <1>11, <1>12, <1>13,
    <1>14, <1>15, <1>16, <1>17, <1>18, <1>19, <1>20, <1>21, <1>22, <1>23, <1>24, <1>25
    DEF Next, CreateStep, Shutdown

(* Once a machine is settled every step keeps it on its way out.           *)
LEMMA LeavesStep ==
  ASSUME GInv, NEW w \in Vm, Leaves(w), [Next]_vars
  PROVE  Leaves(w)'
<1> USE GatewayAssumption DEF GInv, TypeOK, LockConsistent, CreatesOnce, Leaves, Leaving, Entries
<1>1. ASSUME NEW v \in Vm, CreateBegin(v) PROVE Leaves(w)'
  BY <1>1 DEF CreateBegin
<1>2. ASSUME NEW v \in Vm, Reserve(v) PROVE Leaves(w)'
  BY <1>2 DEF Reserve
<1>3. ASSUME NEW v \in Vm, PrepareFails(v) PROVE Leaves(w)'
  BY <1>3 DEF PrepareFails
<1>4. ASSUME NEW v \in Vm, SetupFails(v) PROVE Leaves(w)'
  BY <1>4 DEF SetupFails
<1>5. ASSUME NEW v \in Vm, Upgrade(v) PROVE Leaves(w)'
  BY <1>5 DEF Upgrade
<1>6. ASSUME NEW v \in Vm, Register(v) PROVE Leaves(w)'
  BY <1>6 DEF Register, Send
<1>7. ASSUME NEW v \in Vm, Respond(v) PROVE Leaves(w)'
  BY <1>7 DEF Respond, GoesOn
<1>8. ASSUME NEW v \in Vm, CancelCreate(v) PROVE Leaves(w)'
  BY <1>8 DEF CancelCreate, CallDropped
<1>9. ASSUME NEW v \in Vm, DeleteBegin(v) PROVE Leaves(w)'
  BY <1>9 DEF DeleteBegin, Lock
<1>10. ASSUME NEW op \in {"register", "deregister"}, NEW v \in Vm, Serve(op, v) PROVE Leaves(w)'
  BY <1>10 DEF Serve
<1>11. ASSUME NEW op \in {"register", "deregister"}, NEW v \in Vm, Lose(op, v) PROVE Leaves(w)'
  BY <1>11 DEF Lose
<1>12. CASE Deregister
  BY <1>12 DEF Deregister, Send
<1>13. CASE DeleteEnd
  BY <1>13 DEF DeleteEnd, GoesOn, Unlock
<1>14. CASE CancelDelete
  BY <1>14 DEF CancelDelete, Unlock, CallDropped
<1>15. CASE Signal
  BY <1>15 DEF Signal
<1>16. CASE Drained
  BY <1>16 DEF Drained, NoneInFlight
<1>17. CASE SshStopped
  BY <1>17 DEF SshStopped
<1>18. CASE ShutdownLock
  BY <1>18 DEF ShutdownLock, Lock
<1>19. ASSUME NEW v \in Vm, ShutdownDeregister(v) PROVE Leaves(w)'
  BY <1>19 DEF ShutdownDeregister, Send
<1>20. CASE ShutdownGoesOn
  BY <1>20 DEF ShutdownGoesOn, GoesOn
<1>21. CASE ShutdownDone
  BY <1>21 DEF ShutdownDone, Unlock
<1>22. CASE Exit
  BY <1>22 DEF Exit, Die, Unlock, Unreported
<1>23. CASE Crash
  BY <1>23 DEF Crash, Die, Unlock, Unreported
<1>24. CASE Boot
  BY <1>24 DEF Boot, Clients
<1>25. CASE UNCHANGED vars
  BY <1>25 DEF vars
<1> QED
  BY <1>1, <1>2, <1>3, <1>4, <1>5, <1>6, <1>7, <1>8, <1>9, <1>10, <1>11, <1>12, <1>13,
    <1>14, <1>15, <1>16, <1>17, <1>18, <1>19, <1>20, <1>21, <1>22, <1>23, <1>24, <1>25
    DEF Next, CreateStep, Shutdown

(* A machine is settled when its create ends: by then its register call    *)
(* has been served, unless it is unsure.                                   *)
LEMMA SettledStep ==
  ASSUME GInv, NEW w \in Vm, Settled(w)', ~Settled(w), [Next]_vars
  PROVE  Leaves(w)'
<1> USE GatewayAssumption DEF GInv, TypeOK, LockConsistent, CreatesOnce, Settled, Leaves, Leaving,
      Entries
<1>1. ASSUME NEW v \in Vm, CreateBegin(v) PROVE Leaves(w)'
  BY <1>1 DEF CreateBegin
<1>2. ASSUME NEW v \in Vm, Reserve(v) PROVE Leaves(w)'
  BY <1>2 DEF Reserve
<1>3. ASSUME NEW v \in Vm, PrepareFails(v) PROVE Leaves(w)'
  BY <1>3 DEF PrepareFails
<1>4. ASSUME NEW v \in Vm, SetupFails(v) PROVE Leaves(w)'
  BY <1>4 DEF SetupFails
<1>5. ASSUME NEW v \in Vm, Upgrade(v) PROVE Leaves(w)'
  BY <1>5 DEF Upgrade
<1>6. ASSUME NEW v \in Vm, Register(v) PROVE Leaves(w)'
  BY <1>6 DEF Register, Send
<1>7. ASSUME NEW v \in Vm, Respond(v) PROVE Leaves(w)'
  BY <1>7 DEF Respond, GoesOn
<1>8. ASSUME NEW v \in Vm, CancelCreate(v) PROVE Leaves(w)'
  BY <1>8 DEF CancelCreate, CallDropped
<1>9. ASSUME NEW v \in Vm, DeleteBegin(v) PROVE Leaves(w)'
  BY <1>9 DEF DeleteBegin, Lock
<1>10. ASSUME NEW op \in {"register", "deregister"}, NEW v \in Vm, Serve(op, v) PROVE Leaves(w)'
  BY <1>10 DEF Serve
<1>11. ASSUME NEW op \in {"register", "deregister"}, NEW v \in Vm, Lose(op, v) PROVE Leaves(w)'
  BY <1>11 DEF Lose
<1>12. CASE Deregister
  BY <1>12 DEF Deregister, Send
<1>13. CASE DeleteEnd
  BY <1>13 DEF DeleteEnd, GoesOn, Unlock
<1>14. CASE CancelDelete
  BY <1>14 DEF CancelDelete, Unlock, CallDropped
<1>15. CASE Signal
  BY <1>15 DEF Signal
<1>16. CASE Drained
  BY <1>16 DEF Drained, NoneInFlight
<1>17. CASE SshStopped
  BY <1>17 DEF SshStopped
<1>18. CASE ShutdownLock
  BY <1>18 DEF ShutdownLock, Lock
<1>19. ASSUME NEW v \in Vm, ShutdownDeregister(v) PROVE Leaves(w)'
  BY <1>19 DEF ShutdownDeregister, Send
<1>20. CASE ShutdownGoesOn
  BY <1>20 DEF ShutdownGoesOn, GoesOn
<1>21. CASE ShutdownDone
  BY <1>21 DEF ShutdownDone, Unlock
<1>22. CASE Exit
  BY <1>22 DEF Exit, Die, Unlock, Unreported
<1>23. CASE Crash
  BY <1>23 DEF Crash, Die, Unlock, Unreported
<1>24. CASE Boot
  BY <1>24 DEF Boot, Clients
<1>25. CASE UNCHANGED vars
  BY <1>25 DEF vars
<1> QED
  BY <1>1, <1>2, <1>3, <1>4, <1>5, <1>6, <1>7, <1>8, <1>9, <1>10, <1>11, <1>12, <1>13,
    <1>14, <1>15, <1>16, <1>17, <1>18, <1>19, <1>20, <1>21, <1>22, <1>23, <1>24, <1>25
    DEF Next, CreateStep, Shutdown

LEMMA GatewayInvariant == Spec => []GInv
<1>1. TypeOK /\ LockConsistent /\ CreatesOnce /\ CallsOrdered /\ [Next]_vars
        => TypeOK' /\ LockConsistent' /\ CreatesOnce' /\ CallsOrdered'
  BY GatewayTypeStep, LockStep, CreatesStep, CallsStep
<1> QED
  BY <1>1, GatewayInit, PTL DEF Spec, GInv

(* The types, with what they say of the lock, for every set of faults.     *)
THEOREM GatewayTypeCorrect == Spec => []TypeOK
<1>1. GInv => TypeOK
  BY DEF GInv
<1> QED
  BY <1>1, GatewayInvariant, PTL

(* While the worker serves, the gateway lists every machine whose create   *)
(* was answered, unless one of its reports failed: the answer waits for    *)
(* the register call, and no deregister call is on its way before the      *)
(* machine has left the map.                                               *)
THEOREM RunningAreListed == Spec => []RunningListed
<1>1. GInv => RunningListed
  BY DEF GInv, CallsOrdered, RunningListed
<1> QED
  BY <1>1, GatewayInvariant, PTL

(* A machine that was settled once is never listed after it is gone, in    *)
(* this process or a later one, unless one of its reports failed: no call  *)
(* that is still on its way can list it again.                             *)
THEOREM SettledAreForgotten == Spec => SettledMachinesLeave
<1>1. Spec => [](GInv /\ SettledLeave)
  <2>1. ASSUME GInv, SettledLeave, [Next]_vars
        PROVE  SettledLeave'
    <3> SUFFICES ASSUME NEW w \in Vm, Settled(w)' PROVE Leaves(w)'
      BY DEF SettledLeave
    <3>1. CASE Settled(w)
      BY <2>1, <3>1, LeavesStep DEF SettledLeave
    <3>2. CASE ~Settled(w)
      BY <2>1, <3>2, SettledStep
    <3> QED
      BY <3>1, <3>2
  <2> QED
    BY <2>1, GatewayInit, GatewayInvariant, PTL DEF Spec
<1>2. ASSUME NEW w \in Vm
      PROVE  Spec => LeavesOnceSettled(w)
  <2>1. GInv /\ Leaves(w) /\ [Next]_vars => Leaves(w)'
    BY LeavesStep
  <2>2. SettledLeave => (Settled(w) => Leaves(w))
    BY DEF SettledLeave
  <2>3. Leaves(w) => Unlisted(w)
    BY DEF Leaves, Unlisted
  <2> QED
    BY <1>1, <2>1, <2>2, <2>3, PTL DEF Spec, LeavesOnceSettled
<1> QED
  BY <1>2 DEF SettledMachinesLeave
=============================================================================
