---------------------------- MODULE HostKeyProofs ----------------------------
(***************************************************************************)
(* The host key is persistent over any number of restarts and crashes,     *)
(* with any failures of writes, as long as a good file can be read.        *)
(***************************************************************************)
EXTENDS HostKey, TLAPS

KeyInv == TypeOK /\ SettledOnDisk

USE DEF Key, None, Torn, Step, Over, diskVars

(* A start finds a good key on disk, and with it ends at its return: with  *)
(* such a file the save is never reached.                                  *)
LEMMA LoadStep ==
  ASSUME KeyInv, Load, "read" \notin Faults
  PROVE  KeyInv'
<1> USE DEF TypeOK, SettledOnDisk, Goes, Loadable
<1>1. CASE Loadable /\ pc = "load" /\ pc' = "return" /\ host_key' = private /\ saved' = TRUE
  BY <1>1 DEF KeyInv, Load
<1>2. CASE ~Loadable /\ pc = "load" /\ pc' = "generate" /\ UNCHANGED <<host_key, saved>>
  <2>1. settled = None
    BY <1>2 DEF KeyInv
  <2> QED
    BY <1>2, <2>1 DEF KeyInv, Load
<1> QED
  BY <1>1, <1>2 DEF Load

(* The steps of the save, which a settled key rules out, change the files  *)
(* and go on to the next step or to the return.                            *)
LEMMA SaveStep ==
  ASSUME KeyInv,
         \/ MakeDir \/ TruncatePrivate \/ WritePrivate \/ ChmodPrivate
         \/ TruncatePublic \/ WritePublic \/ ChmodPublic
  PROVE  KeyInv'
<1> USE DEF KeyInv, TypeOK, SettledOnDisk, Goes, Saves, FallsBack
<1>1. CASE MakeDir
  BY <1>1 DEF MakeDir
<1>2. CASE TruncatePrivate
  BY <1>2 DEF TruncatePrivate
<1>3. CASE WritePrivate
  BY <1>3 DEF WritePrivate
<1>4. CASE ChmodPrivate
  BY <1>4 DEF ChmodPrivate
<1>5. CASE TruncatePublic
  BY <1>5 DEF TruncatePublic
<1>6. CASE WritePublic
  BY <1>6 DEF WritePublic
<1>7. CASE ChmodPublic
  <2>1. saved' \in BOOLEAN
    BY <1>7 DEF ChmodPublic
  <2> QED
    BY <1>7, <2>1 DEF ChmodPublic
<1> QED
  BY <1>1, <1>2, <1>3, <1>4, <1>5, <1>6, <1>7

(* Every step keeps the invariant.                                         *)
LEMMA KeyStep ==
  ASSUME KeyInv, [Next]_vars, "read" \notin Faults
  PROVE  KeyInv'
<1> USE DEF TypeOK, SettledOnDisk, Goes
<1>1. CASE Start
  <2>1. starts' \in 1 .. MaxStarts
    BY <1>1, HostKeyAssumption DEF KeyInv, Start
  <2>2. TypeOK'
    <3>1. saved' \in BOOLEAN
      BY <1>1 DEF Start
    <3>2. private' \in Key \cup {None, Torn} /\ public' \in Key \cup {None, Torn}
      BY <1>1 DEF KeyInv, Start
    <3>3. settled' \in Key \cup {None}
      BY <1>1 DEF KeyInv, Start
    <3> QED
      BY <1>1, <2>1, <3>1, <3>2, <3>3 DEF Start
  <2>3. SettledOnDisk'
    BY <1>1 DEF KeyInv, Start
  <2> QED
    BY <2>2, <2>3 DEF KeyInv
<1>2. CASE Load
  BY <1>2, LoadStep
<1>3. CASE Generate
  <2>1. starts \in 1 .. MaxStarts
    BY <1>3, HostKeyAssumption DEF KeyInv, Generate
  <2> QED
    BY <1>3, <2>1 DEF KeyInv, Generate
<1>4. CASE \/ MakeDir \/ TruncatePrivate \/ WritePrivate \/ ChmodPrivate
           \/ TruncatePublic \/ WritePublic \/ ChmodPublic
  BY <1>4, SaveStep
<1>5. CASE Serve
  BY <1>5 DEF KeyInv, Serve
<1>6. CASE Stop
  BY <1>6 DEF KeyInv, Stop
<1>7. CASE Crash
  BY <1>7 DEF KeyInv, Crash
<1>8. CASE UNCHANGED vars
  BY <1>8 DEF KeyInv, vars
<1> QED
  BY <1>1, <1>2, <1>3, <1>4, <1>5, <1>6, <1>7, <1>8 DEF Next, Starting

(* The types hold in the first state, ...                                  *)
LEMMA KeyTypeInit == Init => TypeOK
<1>1. Init => saved \in BOOLEAN
  BY DEF Init
<1>2. Init => starts \in 0 .. MaxStarts
  BY HostKeyAssumption DEF Init
<1> QED
  BY <1>1, <1>2 DEF Init, TypeOK

(* ... and every step keeps them, a failed read included.                  *)
LEMMA KeyTypeStep ==
  ASSUME TypeOK, [Next]_vars
  PROVE  TypeOK'
<1> USE DEF TypeOK, Goes, Saves, FallsBack
<1>1. CASE Start
  <2>1. saved' \in BOOLEAN
    BY <1>1 DEF Start
  <2> QED
    BY <1>1, <2>1, HostKeyAssumption DEF Start
<1>2. CASE Load
  <2>1. saved' \in BOOLEAN
    BY <1>2 DEF Load
  <2>2. host_key' \in Key \cup {None} /\ (pc' = "return" => host_key' # None)
    BY <1>2 DEF Load, Loadable
  <2>3. pc' \in {"return", "generate"} /\ pc = "load" /\ UNCHANGED <<starts, private, public, settled>>
    BY <1>2 DEF Load
  <2> QED
    BY <2>1, <2>2, <2>3
<1>3. CASE Generate
  BY <1>3, HostKeyAssumption DEF Generate
<1>4. CASE MakeDir \/ ChmodPrivate
  BY <1>4 DEF MakeDir, ChmodPrivate
<1>5. CASE TruncatePrivate \/ WritePrivate
  BY <1>5 DEF TruncatePrivate, WritePrivate
<1>6. CASE TruncatePublic \/ WritePublic
  BY <1>6 DEF TruncatePublic, WritePublic
<1>7. CASE ChmodPublic
  <2>1. saved' \in BOOLEAN
    BY <1>7 DEF ChmodPublic
  <2> QED
    BY <1>7, <2>1 DEF ChmodPublic
<1>8. CASE Serve
  BY <1>8 DEF Serve
<1>9. CASE Stop \/ Crash
  BY <1>9 DEF Stop, Crash
<1>10. CASE UNCHANGED vars
  BY <1>10 DEF vars
<1> QED
  BY <1>1, <1>2, <1>3, <1>4, <1>5, <1>6, <1>7, <1>8, <1>9, <1>10 DEF Next, Starting

(* The files, and the key in memory, are what they should be whatever      *)
(* fails, a read of a good file included: a start that is past its load    *)
(* has a key to serve.                                                     *)
THEOREM KeyTypeCorrect == Spec => []TypeOK
BY KeyTypeInit, KeyTypeStep, PTL DEF Spec

(* `This ensures the SSH server uses a persistent host key`: the key that  *)
(* was served once it was known to be on disk is the one every later start *)
(* serves, for any number of starts, wherever the process dies and         *)
(* whatever write fails.                                                   *)
THEOREM KeyPersists ==
  ASSUME "read" \notin Faults
  PROVE  Spec => []HostKeyStable
<1>1. Init => KeyInv
  BY KeyTypeInit DEF Init, KeyInv, SettledOnDisk
<1>2. KeyInv /\ [Next]_vars => KeyInv'
  BY KeyStep
<1>3. KeyInv => HostKeyStable
  BY DEF KeyInv, SettledOnDisk, HostKeyStable
<1> QED
  BY <1>1, <1>2, <1>3, PTL DEF Spec
=============================================================================
