-------------------------- MODULE SshConsoleProofs --------------------------
(***************************************************************************)
(* The SSH console, for any number of connections, channels and machines,  *)
(* any keys, and input and output of any length.                           *)
(*                                                                         *)
(* A console is attached once: before, nothing went through its sockets    *)
(* (AttachedOnce), and the sender of a connection never comes back to a    *)
(* console it has left.  So the input of a console is one run of what the  *)
(* client sent, which ends with the latest chunk while the sender is there *)
(* (InputRun).  Of the output, what the guest has written is what the      *)
(* handshake swallowed, what the channel has shown, and what waits in the  *)
(* socket, in this order (OutputKeepsOrder), as long as no other console   *)
(* was given the same channel.                                             *)
(***************************************************************************)
EXTENDS SshConsole, TLAPS
Seqs == INSTANCE SequenceTheorems

USE DEF Channel, Console, mapVars, sshVars

(* A shell is asked for on an open channel, once.                          *)
ShellsConsistent ==
  \A c \in Conn :
    /\ handler[c] # "idle" => shells[c] # <<>> /\ conn[c] = "open"
    /\ shells[c] # <<>> => channel_id[c] # 0
    /\ \A i, j \in 1 .. Len(shells[c]) : shells[c][i] = shells[c][j] => i = j
    /\ uds_writer[c] # 0 => console[<<c, uds_writer[c]>>].writer # "none"

(* Only a shell request dials a console: one that was handled, or the one  *)
(* that now waits for the guest.                                           *)
Dialed(s) ==
  console[s].guest # "none" =>
    \E i \in 1 .. Len(shells[s[1]]) :
      /\ shells[s[1]][i] = s[2]
      /\ i = Len(shells[s[1]]) => handler[s[1]] \in {"idle", "handshake"}

(* Before it is attached a console has no task and no channel, and no byte *)
(* of it was read.                                                         *)
Unattached(s) ==
  /\ console[s].guest = "none" => console[s].writer = "none"
  /\ handler[s[1]] = "handshake" /\ s = Current(s[1]) => console[s].writer = "none"
  /\ console[s].reader = "none" <=> console[s].writer = "none"
  /\ console[s].writer = "none" =>
       /\ console[s].channel = 0 /\ console[s].queue = <<>> /\ console[s].got = <<>>
       /\ Len(console[s].out) = console[s].said /\ console[s].missed = 0
  /\ console[s].reader # "none" => console[s].channel \in Channel

AttachedOnce == \A s \in Console : Dialed(s) /\ Unattached(s)

(* A login stays what it was found to be, while its machine can only go.   *)
LoggedIn(c) ==
  conn[c] # "new" =>
    /\ vm_id[c] \in Vm
    /\ life[vm_id[c]] \in {"running", "gone"}
    /\ IsKeyAuthorized(key[c], SshKeys[vm_id[c]])

Backed(s) ==
  console[s].guest # "none" => conn[s[1]] # "new" /\ proc[Machine(s)] \in {"up", "ended"}

Authorized == (\A c \in Conn : LoggedIn(c)) /\ \A s \in Console : Backed(s)

Chunks(s) == console[s].got \o console[s].queue

(* The input of a console is one run of what the client sent, which ends   *)
(* with the latest chunk while the sender feeds it.                        *)
InputRun(s) ==
  /\ \A i \in 1 .. Len(Chunks(s)) - 1 : Chunks(s)[i + 1][2] = Chunks(s)[i][2] + 1
  /\ console[s].writer = "waiting" /\ Fed(s) /\ Chunks(s) # <<>> =>
       Chunks(s)[Len(Chunks(s))][2] = sent[s[1]]

Screen(s) == screen[<<s[1], console[s].channel>>]

(* What waits in the socket is the last of what the guest wrote; nothing   *)
(* waits once the task has ended.                                          *)
Waits(s) ==
  /\ Len(console[s].out) <= console[s].said
  /\ \A i \in 1 .. Len(console[s].out) :
       console[s].out[i] = console[s].said - Len(console[s].out) + i

EndsDry(s) ==
  console[s].reader = "ended" /\ conn[s[1]] = "open" => console[s].out = <<>> /\ PeerClosed(s)

(* What was shown is what was written before, but for what the handshake   *)
(* swallowed.                                                              *)
Shown(s) ==
  console[s].reader # "none" /\ conn[s[1]] = "open" /\ Alone(s) =>
    /\ Len(Screen(s)) = console[s].said - console[s].missed - Len(console[s].out)
    /\ \A i \in 1 .. Len(Screen(s)) : Screen(s)[i] = <<s, console[s].missed + i>>
    /\ console[s].reader = "reading" => console[s].channel \notin closed[s[1]]

(* A channel that no console was given has shown nothing.                  *)
UnusedChannel(c, ch) ==
  (\A s \in Console : s[1] = c => console[s].channel # ch) =>
    screen[<<c, ch>>] = <<>> /\ ch \notin closed[c]

OutputKeepsOrder ==
  /\ \A s \in Console : Waits(s) /\ EndsDry(s) /\ Shown(s)
  /\ \A c \in Conn, ch \in Channel : UnusedChannel(c, ch)

LEMMA Bounds ==
  /\ MaxChannels \in Nat /\ MaxInput \in Nat /\ MaxOutput \in Nat
  /\ 0 \in 0 .. MaxChannels /\ 0 \in 0 .. MaxInput /\ 0 \in 0 .. MaxOutput
BY ConsoleAssumption

LEMMA NonEmpty ==
  ASSUME NEW S, NEW q \in Seq(S), q # <<>>
  PROVE  /\ Len(q) \in Nat /\ Len(q) \in 1 .. Len(q) /\ Head(q) = q[1]
         /\ Head(q) \in S /\ Tail(q) \in Seq(S)
BY Seqs!EmptySeq, Seqs!HeadTailProperties

LEMMA OneConsoleChanges ==
  ASSUME console \in [Console -> ConsoleRecord], NEW t \in Console, NEW r \in ConsoleRecord,
         console' = [console EXCEPT ![t] = r]
  PROVE  /\ console' \in [Console -> ConsoleRecord]
         /\ console'[t] = r
         /\ \A s \in Console : s # t => console'[s] = console[s]
OBVIOUS

LEMMA FieldTypes ==
  ASSUME NEW r \in ConsoleRecord
  PROVE  /\ \A x \in {"none", "waiting", "ended"} : [r EXCEPT !.writer = x] \in ConsoleRecord
         /\ \A x \in {"none", "reading", "ended"} : [r EXCEPT !.reader = x] \in ConsoleRecord
         /\ \A x \in {"none", "dialed", "open", "refused", "hungup"} :
              [r EXCEPT !.guest = x] \in ConsoleRecord
         /\ \A q \in Seq(Input) : [r EXCEPT !.queue = q] \in ConsoleRecord
         /\ \A g, q \in Seq(Input) : [r EXCEPT !.got = g, !.queue = q] \in ConsoleRecord
         /\ \A o \in Seq(1 .. MaxOutput), x \in {"none", "reading", "ended"} :
              [r EXCEPT !.out = o, !.reader = x] \in ConsoleRecord
         /\ \A o \in Seq(1 .. MaxOutput), n \in 0 .. MaxOutput :
              [r EXCEPT !.said = n, !.out = o] \in ConsoleRecord
BY DEF ConsoleRecord

LEMMA CurrentConsole ==
  ASSUME TypeOK, NEW c \in Conn, shells[c] # <<>>
  PROVE  /\ Current(c) \in Console /\ Current(c)[1] = c
         /\ Current(c)[2] = shells[c][Len(shells[c])] /\ Current(c)[2] \in Channel
<1>1. shells[c] \in Seq(Channel)
  BY DEF TypeOK
<1>2. Len(shells[c]) \in 1 .. Len(shells[c])
  BY <1>1, NonEmpty
<1>3. shells[c][Len(shells[c])] \in Channel
  BY <1>1, <1>2, Seqs!ElementOfSeq
<1> QED
  BY <1>3 DEF Current

LEMMA AttachedType ==
  ASSUME TypeOK, NEW s \in Console, NEW ch \in 0 .. MaxChannels
  PROVE  Attached(s, ch) \in ConsoleRecord
<1>1. console[s] \in ConsoleRecord
  BY DEF TypeOK
<1>2. console[s].out \in Seq(1 .. MaxOutput)
  BY <1>1 DEF ConsoleRecord
<1>3. Swallowed(s) \in 0 .. MaxOutput /\ Swallowed(s) \in 0 .. Len(console[s].out)
  <2>1. CASE console[s].out = <<>>
    BY <2>1, ConsoleAssumption DEF Swallowed, Least
  <2>2. CASE console[s].out # <<>>
    <3>1. Len(console[s].out) \in 1 .. Len(console[s].out) /\ Head(console[s].out) \in 1 .. MaxOutput
      BY <1>2, <2>2, NonEmpty
    <3>2. Len(console[s].out) \in Nat /\ Len(console[s].out) >= 1 /\ MaxOutput >= 1
      BY <1>2, <3>1, ConsoleAssumption
    <3> QED
      BY <3>2, ConsoleAssumption DEF Swallowed, Least
  <2> QED
    BY <2>1, <2>2
<1>4. SubSeq(console[s].out, 1 + Swallowed(s), Len(console[s].out)) \in Seq(1 .. MaxOutput)
  <2>1. ASSUME NEW q \in Seq(1 .. MaxOutput), NEW n \in 0 .. Len(q)
        PROVE  SubSeq(q, 1 + n, Len(q)) \in Seq(1 .. MaxOutput)
    <3>1. Len(q) \in Nat /\ 1 + n \in Nat
      BY Seqs!LenProperties
    <3>2. \A i \in 1 + n .. Len(q) : q[i] \in 1 .. MaxOutput
      <4>1. \A i \in 1 + n .. Len(q) : i \in 1 .. Len(q)
        BY <3>1
      <4> QED
        BY <4>1, Seqs!ElementOfSeq
    <3>3. 1 + n \in Int /\ Len(q) \in Int
      BY <3>1
    <3> QED
      BY <3>2, <3>3, Seqs!SubSeqProperties
  <2> QED
    BY <1>2, <1>3, <2>1
<1> QED
  BY <1>1, <1>3, <1>4 DEF Attached, ConsoleRecord

LEMMA MapTypeStep == MapTypeOK /\ MapStep => MapTypeOK'
BY DEF MapTypeOK, MapStep, Forget, Enter, Start, Run, Remove, End, Acquire, Unlock

LEMMA FailTyped ==
  ASSUME TypeOK, NEW c \in Conn, Fail(c)
  PROVE  TypeOK'
BY Bounds DEF Fail, Close, TypeOK, MapTypeOK

LEMMA HandlerTyped ==
  ASSUME TypeOK, NEW c \in Conn, conn[c] = "open",
         NEW h \in {"idle", "lookup", "connect", "handshake"},
         handler' = [handler EXCEPT ![c] = h],
         console' \in [Console -> ConsoleRecord],
         UNCHANGED <<mapVars, conn, key, vm_id, channel_id, closed, uds_writer, shells, sent, screen>>
  PROVE  TypeOK'
BY DEF TypeOK, MapTypeOK

LEMMA TaskTyped ==
  ASSUME TypeOK, console' \in [Console -> ConsoleRecord], UNCHANGED <<mapVars, sshVars, screen>>
  PROVE  TypeOK'
BY DEF TypeOK, MapTypeOK

LEMMA ConsoleInit == Init => TypeOK /\ ShellsConsistent
<1> SUFFICES ASSUME Init PROVE TypeOK /\ ShellsConsistent
  OBVIOUS
<1> USE ConsoleAssumption DEF Init
<1>1. MapTypeOK
  BY DEF MapInit, MapTypeOK
<1>2. NoConsole \in ConsoleRecord
  BY DEF NoConsole, ConsoleRecord
<1>3. TypeOK
  BY <1>1, <1>2 DEF TypeOK
<1> QED
  BY <1>3 DEF ShellsConsistent

LEMMA ConsoleTypeStep ==
  ASSUME TypeOK, ShellsConsistent, AttachedOnce, [Next]_vars
  PROVE  TypeOK'
<1>0. console \in [Console -> ConsoleRecord]
  BY DEF TypeOK
<1>1. ASSUME NEW c \in Conn, NEW v \in Vm, AuthPublickey(c, v) PROVE TypeOK'
  BY <1>1, Bounds DEF AuthPublickey, TypeOK, MapTypeOK
<1>2. ASSUME NEW c \in Conn, NEW ch \in Channel, ShellRequest(c, ch) PROVE TypeOK'
  BY <1>2, Bounds DEF ShellRequest, Ready, Open, TypeOK, MapTypeOK
<1>3. ASSUME NEW c \in Conn, NEW ch \in Channel, Data(c, ch) PROVE TypeOK'
  <2> USE <1>3 DEF Data, Ready, Open
  <2>1. sent' \in [Conn -> 0 .. MaxInput] /\ sent'[c] \in 1 .. MaxInput
    <3>1. sent \in [Conn -> 0 .. MaxInput] /\ sent[c] < MaxInput /\ sent' = [sent EXCEPT ![c] = sent[c] + 1]
      BY DEF TypeOK
    <3>2. sent[c] + 1 \in 1 .. MaxInput
      BY <3>1, Bounds
    <3> QED
      BY <3>1, <3>2
  <2>2. <<ch, sent'[c]>> \in Input
    BY <2>1 DEF Input
  <2>3. console' \in [Console -> ConsoleRecord]
    <3>1. CASE uds_writer[c] # 0 /\ console[<<c, uds_writer[c]>>].writer = "waiting"
      <4>1. PICK t : t = <<c, uds_writer[c]>>
        OBVIOUS
      <4>2. PICK x : x = <<ch, sent'[c]>>
        OBVIOUS
      <4>3. t \in Console
        BY <3>1, <4>1 DEF TypeOK
      <4>4. console[t] \in ConsoleRecord /\ console[t].queue \in Seq(Input)
        BY <1>0, <4>3 DEF ConsoleRecord
      <4>5. console' = [console EXCEPT ![t] = [console[t] EXCEPT !.queue = Append(console[t].queue, x)]]
        BY <1>0, <3>1, <4>1, <4>2, <4>3 DEF Data
      <4>6. PICK q : q = Append(console[t].queue, x)
        OBVIOUS
      <4>7. q \in Seq(Input)
        BY <2>2, <4>2, <4>4, <4>6, Seqs!AppendProperties
      <4>8. [console[t] EXCEPT !.queue = q] \in ConsoleRecord
        BY <4>4, <4>7, FieldTypes
      <4> QED
        BY <1>0, <4>3, <4>5, <4>6, <4>8, OneConsoleChanges
    <3>2. CASE ~(uds_writer[c] # 0 /\ console[<<c, uds_writer[c]>>].writer = "waiting")
      BY <1>0, <3>2
    <3> QED
      BY <3>1, <3>2
  <2> QED
    BY <2>1, <2>3 DEF TypeOK, MapTypeOK
<1>4. ASSUME NEW c \in Conn, ChannelOpenSession(c) PROVE TypeOK'
  BY <1>4, Bounds DEF ChannelOpenSession, Ready, TypeOK, MapTypeOK
<1>5. ASSUME NEW c \in Conn, ShellLookup(c) PROVE TypeOK'
  <2> USE <1>5 DEF ShellLookup
  <2>1. conn[c] = "open"
    BY DEF ShellsConsistent, TypeOK
  <2>2. CASE life[vm_id[c]] = "running"
    BY <1>0, <2>1, <2>2, HandlerTyped
  <2>3. CASE Fail(c)
    BY <2>3, FailTyped
  <2> QED
    BY <2>2, <2>3
<1>6. ASSUME NEW c \in Conn, ShellConnect(c) PROVE TypeOK'
  <2> USE <1>6 DEF ShellConnect
  <2>1. conn[c] = "open" /\ shells[c] # <<>>
    BY DEF ShellsConsistent
  <2>2. CASE Up(vm_id[c])
    <3>1. console' = [console EXCEPT ![Current(c)] = [console[Current(c)] EXCEPT !.guest = "dialed"]]
      BY <2>2
    <3>2. Current(c) \in Console /\ console[Current(c)] \in ConsoleRecord
      BY <1>0, <2>1, CurrentConsole
    <3>3. console' \in [Console -> ConsoleRecord]
      BY <1>0, <3>1, <3>2, FieldTypes, OneConsoleChanges
    <3> QED
      BY <2>1, <2>2, <3>3, HandlerTyped
  <2>3. CASE Fail(c)
    BY <2>3, FailTyped
  <2> QED
    BY <2>2, <2>3
<1>7. ASSUME NEW c \in Conn, ShellAttach(c) PROVE TypeOK'
  <2> USE <1>7 DEF ShellAttach
  <2>1. conn[c] = "open" /\ shells[c] # <<>>
    BY DEF ShellsConsistent
  <2>2. Current(c) \in Console /\ Current(c)[2] \in Channel
    BY <2>1, CurrentConsole
  <2>3. Attached(Current(c), channel_id[c]) \in ConsoleRecord
    BY <2>2, AttachedType DEF TypeOK
  <2>4. console' \in [Console -> ConsoleRecord]
    BY <1>0, <2>2, <2>3
  <2>5. handler' \in [Conn -> {"idle", "lookup", "connect", "handshake"}]
        /\ uds_writer' \in [Conn -> 0 .. MaxChannels]
    BY <2>2, Bounds DEF TypeOK
  <2>6. \A d \in Conn : conn'[d] # "open" => handler'[d] = "idle" /\ uds_writer'[d] = 0
    BY <2>1 DEF TypeOK
  <2> QED
    BY <2>4, <2>5, <2>6 DEF TypeOK, MapTypeOK
<1>8. ASSUME NEW c \in Conn, ShellRefused(c) PROVE TypeOK'
  BY <1>8, FailTyped DEF ShellRefused
<1>9. ASSUME NEW c \in Conn, Disconnect(c) PROVE TypeOK'
  BY <1>9, FailTyped DEF Disconnect
<1>10. ASSUME NEW t \in Console, Writer(t) PROVE TypeOK'
  <2>1. console[t] \in ConsoleRecord /\ console[t].queue \in Seq(Input) /\ console[t].got \in Seq(Input)
    BY <1>0 DEF ConsoleRecord
  <2>2. ASSUME console[t].queue # <<>>,
               console' = [console EXCEPT
                 ![t].got = Append(@, Head(console[t].queue)), ![t].queue = Tail(@)]
        PROVE  console' \in [Console -> ConsoleRecord]
    <3>1. Append(console[t].got, Head(console[t].queue)) \in Seq(Input) /\ Tail(console[t].queue) \in Seq(Input)
      BY <2>1, <2>2, NonEmpty, Seqs!AppendProperties
    <3>2. PICK g \in Seq(Input) : g = Append(console[t].got, Head(console[t].queue))
      BY <3>1
    <3>3. PICK q \in Seq(Input) : q = Tail(console[t].queue)
      BY <3>1
    <3>4. console' = [console EXCEPT ![t] = [console[t] EXCEPT !.got = g, !.queue = q]]
      BY <1>0, <2>2, <3>2, <3>3
    <3>5. [console[t] EXCEPT !.got = g, !.queue = q] \in ConsoleRecord
      BY <2>1, FieldTypes
    <3> QED
      BY <3>4, <3>5, OneConsoleChanges, <1>0
  <2>3. ASSUME console' = [console EXCEPT ![t].writer = "ended"]
        PROVE  console' \in [Console -> ConsoleRecord]
    <3>1. console' = [console EXCEPT ![t] = [console[t] EXCEPT !.writer = "ended"]]
      BY <1>0, <2>3
    <3>2. [console[t] EXCEPT !.writer = "ended"] \in ConsoleRecord
      BY <2>1, FieldTypes
    <3> QED
      BY <3>1, <3>2, OneConsoleChanges, <1>0
  <2>4. console' \in [Console -> ConsoleRecord]
    BY <1>10, <2>2, <2>3 DEF Writer
  <2> QED
    BY <1>10, <2>4, TaskTyped DEF Writer
<1>11. ASSUME NEW t \in Console, ReaderCopies(t) PROVE TypeOK'
  <2> USE <1>0, <1>11 DEF ReaderCopies, Shows
  <2>1. console[t] \in ConsoleRecord /\ console[t].out \in Seq(1 .. MaxOutput)
        /\ console[t].reader \in {"none", "reading", "ended"}
    BY DEF ConsoleRecord
  <2>2. console[t].channel \in Channel
    BY DEF AttachedOnce, Unattached
  <2>3. Head(console[t].out) \in 1 .. MaxOutput /\ Tail(console[t].out) \in Seq(1 .. MaxOutput)
    BY <2>1, NonEmpty
  <2>4. console' \in [Console -> ConsoleRecord]
    <3>1. PICK x \in {"none", "reading", "ended"} :
            x = IF conn[t[1]] = "open" THEN console[t].reader ELSE "ended"
      BY <2>1
    <3>2. PICK o \in Seq(1 .. MaxOutput) : o = Tail(console[t].out)
      BY <2>3
    <3>3. console' = [console EXCEPT ![t] = [console[t] EXCEPT !.out = o, !.reader = x]]
      BY <3>1, <3>2
    <3>4. [console[t] EXCEPT !.out = o, !.reader = x] \in ConsoleRecord
      BY <2>1, FieldTypes
    <3> QED
      BY <3>3, <3>4, OneConsoleChanges
  <2>5. <<t, Head(console[t].out)>> \in Output
    BY <2>3 DEF Output
  <2>6. <<t[1], console[t].channel>> \in Conn \X Channel
    BY <2>2
  <2>7. screen' \in [Conn \X Channel -> Seq(Output)]
    BY <2>5, <2>6 DEF TypeOK
  <2> QED
    BY <2>4, <2>7 DEF TypeOK, MapTypeOK
<1>12. ASSUME NEW t \in Console, ReaderEnds(t) PROVE TypeOK'
  <2> USE <1>0, <1>12 DEF ReaderEnds
  <2>1. console[t].channel \in Channel
    BY DEF AttachedOnce, Unattached
  <2>2. console' = [console EXCEPT ![t] = [console[t] EXCEPT !.reader = "ended"]]
    OBVIOUS
  <2>3. [console[t] EXCEPT !.reader = "ended"] \in ConsoleRecord
    BY FieldTypes
  <2>4. console' \in [Console -> ConsoleRecord]
    BY <2>2, <2>3, OneConsoleChanges
  <2>5. closed' \in [Conn -> SUBSET Channel]
    BY <2>1 DEF TypeOK
  <2> QED
    BY <2>4, <2>5 DEF TypeOK, MapTypeOK
<1>13. ASSUME NEW t \in Console, GuestAccepts(t) PROVE TypeOK'
  <2> USE <1>0, <1>13 DEF GuestAccepts, Guest
  <2>1. console' = [console EXCEPT ![t] = [console[t] EXCEPT !.guest = "open"]]
    OBVIOUS
  <2>2. [console[t] EXCEPT !.guest = "open"] \in ConsoleRecord
    BY FieldTypes
  <2>3. console' \in [Console -> ConsoleRecord]
    BY <2>1, <2>2, OneConsoleChanges
  <2> QED
    BY <2>3, TaskTyped
<1>14. ASSUME NEW t \in Console, GuestRefuses(t) PROVE TypeOK'
  <2> USE <1>0, <1>14 DEF GuestRefuses, Guest
  <2>1. console' = [console EXCEPT ![t] = [console[t] EXCEPT !.guest = "refused"]]
    OBVIOUS
  <2>2. [console[t] EXCEPT !.guest = "refused"] \in ConsoleRecord
    BY FieldTypes
  <2>3. console' \in [Console -> ConsoleRecord]
    BY <2>1, <2>2, OneConsoleChanges
  <2> QED
    BY <2>3, TaskTyped
<1>15. ASSUME NEW t \in Console, GuestHangsUp(t) PROVE TypeOK'
  <2> USE <1>0, <1>15 DEF GuestHangsUp, Guest
  <2>1. console' = [console EXCEPT ![t] = [console[t] EXCEPT !.guest = "hungup"]]
    OBVIOUS
  <2>2. [console[t] EXCEPT !.guest = "hungup"] \in ConsoleRecord
    BY FieldTypes
  <2>3. console' \in [Console -> ConsoleRecord]
    BY <2>1, <2>2, OneConsoleChanges
  <2> QED
    BY <2>3, TaskTyped
<1>16. ASSUME NEW t \in Console, GuestWrites(t) PROVE TypeOK'
  <2> USE <1>0, <1>16 DEF GuestWrites
  <2>1. console[t] \in ConsoleRecord /\ console[t].out \in Seq(1 .. MaxOutput)
        /\ console[t].said + 1 \in 1 .. MaxOutput
    BY DEF ConsoleRecord
  <2>2. Append(console[t].out, console[t].said + 1) \in Seq(1 .. MaxOutput)
    BY <2>1, Seqs!AppendProperties
  <2>3. PICK o \in Seq(1 .. MaxOutput) : o = Append(console[t].out, console[t].said + 1)
    BY <2>2
  <2>4. PICK n \in 0 .. MaxOutput : n = console[t].said + 1
    BY <2>1
  <2>5. console' = [console EXCEPT ![t] = [console[t] EXCEPT !.said = n, !.out = o]]
    BY <2>3, <2>4
  <2>6. [console[t] EXCEPT !.said = n, !.out = o] \in ConsoleRecord
    BY <2>1, FieldTypes
  <2>7. console' \in [Console -> ConsoleRecord]
    BY <2>5, <2>6, OneConsoleChanges
  <2> QED
    BY <2>7, TaskTyped
<1>17. CASE Machines
  <2>1. MapTypeOK'
    BY <1>17, MapTypeStep DEF Machines, TypeOK
  <2> QED
    BY <1>17, <2>1 DEF Machines, consoleVars, TypeOK
<1>18. CASE UNCHANGED vars
  BY <1>18, Bounds DEF vars, consoleVars, TypeOK, MapTypeOK
<1> QED
  BY <1>1, <1>2, <1>3, <1>4, <1>5, <1>6, <1>7, <1>8, <1>9, <1>10,
    <1>11, <1>12, <1>13, <1>14, <1>15, <1>16, <1>17, <1>18
    DEF Next, ShellStep, vars


(* What one step changes of a console: nothing of the others.              *)
Only(t) == \A s \in Console : s # t => console'[s] = console[s]

InputKept(s) ==
  /\ console'[s].writer = console[s].writer
  /\ console'[s].queue = console[s].queue
  /\ console'[s].got = console[s].got

OutputKept(s) ==
  /\ console'[s].reader = console[s].reader
  /\ console'[s].channel = console[s].channel
  /\ console'[s].out = console[s].out
  /\ console'[s].said = console[s].said
  /\ console'[s].missed = console[s].missed

GuestKept(s) == console'[s].guest = console[s].guest

LEMMA ConnectEffect ==
  ASSUME TypeOK, ShellsConsistent, NEW c \in Conn, ShellConnect(c)
  PROVE  \/ Fail(c)
         \/ /\ Only(Current(c)) /\ console'[Current(c)].guest = "dialed"
            /\ InputKept(Current(c)) /\ OutputKept(Current(c))
            /\ proc[vm_id[c]] = "up"
            /\ handler' = [handler EXCEPT ![c] = "handshake"]
            /\ UNCHANGED <<mapVars, conn, key, vm_id, channel_id, closed, uds_writer, shells, sent, screen>>
<1>1. Current(c) \in Console /\ console \in [Console -> ConsoleRecord]
  BY CurrentConsole DEF ShellConnect, ShellsConsistent, TypeOK
<1>2. SUFFICES ASSUME ~Fail(c) PROVE /\ Only(Current(c)) /\ console'[Current(c)].guest = "dialed"
            /\ InputKept(Current(c)) /\ OutputKept(Current(c))
  BY DEF ShellConnect, Up
<1>3. PICK t \in Console : t = Current(c)
  BY <1>1
<1>4. PICK r \in ConsoleRecord : r = [console[t] EXCEPT !.guest = "dialed"]
  BY <1>1, FieldTypes
<1>5. console' = [console EXCEPT ![t] = r]
  BY <1>1, <1>2, <1>3, <1>4 DEF ShellConnect
<1>6. Only(t) /\ console'[t] = r
  BY <1>1, <1>5, OneConsoleChanges DEF Only
<1>7. console[t] \in ConsoleRecord
  BY <1>1
<1>8. r.guest = "dialed" /\ InputKept(t) /\ OutputKept(t)
  BY <1>4, <1>6, <1>7 DEF InputKept, OutputKept, ConsoleRecord
<1> QED
  BY <1>3, <1>6, <1>8

LEMMA AttachEffect ==
  ASSUME TypeOK, ShellsConsistent, NEW c \in Conn, ShellAttach(c)
  PROVE  /\ Only(Current(c)) /\ GuestKept(Current(c))
         /\ console'[Current(c)].writer = "waiting"
         /\ console'[Current(c)].queue = console[Current(c)].queue
         /\ console'[Current(c)].got = console[Current(c)].got
         /\ console'[Current(c)].reader = "reading"
         /\ console'[Current(c)].channel = channel_id[c]
         /\ console'[Current(c)].missed = Swallowed(Current(c))
         /\ console'[Current(c)].said = console[Current(c)].said
         /\ console'[Current(c)].out = SubSeq(console[Current(c)].out, 1 + Swallowed(Current(c)),
                                              Len(console[Current(c)].out))
<1>1. Current(c) \in Console /\ console \in [Console -> ConsoleRecord]
  BY CurrentConsole DEF ShellAttach, ShellsConsistent, TypeOK
<1>2. PICK t \in Console : t = Current(c)
  BY <1>1
<1>3. PICK r : r = Attached(t, channel_id[c])
  OBVIOUS
<1>4. r \in ConsoleRecord
  BY <1>2, <1>3, AttachedType DEF TypeOK
<1>5. console' = [console EXCEPT ![t] = r]
  BY <1>2, <1>3 DEF ShellAttach
<1>6. Only(t) /\ console'[t] = r
  BY <1>1, <1>4, <1>5, OneConsoleChanges DEF Only
<1>7. console[t] \in ConsoleRecord
  BY <1>1
<1>8. /\ r.guest = console[t].guest /\ r.writer = "waiting" /\ r.queue = console[t].queue
      /\ r.got = console[t].got /\ r.reader = "reading" /\ r.channel = channel_id[c]
      /\ r.missed = Swallowed(t) /\ r.said = console[t].said
      /\ r.out = SubSeq(console[t].out, 1 + Swallowed(t), Len(console[t].out))
  BY <1>3, <1>7 DEF Attached, ConsoleRecord
<1> QED
  BY <1>2, <1>6, <1>8 DEF GuestKept

LEMMA DataEffect ==
  ASSUME TypeOK, NEW c \in Conn, NEW ch \in Channel, Data(c, ch)
  PROVE  /\ sent' = [sent EXCEPT ![c] = sent[c] + 1]
         /\ \/ console' = console /\
               ~(uds_writer[c] # 0 /\ console[<<c, uds_writer[c]>>].writer = "waiting")
            \/ \E t \in Console :
                 /\ t = <<c, uds_writer[c]>> /\ console[t].writer = "waiting"
                 /\ Only(t) /\ OutputKept(t) /\ GuestKept(t)
                 /\ console'[t].writer = "waiting"
                 /\ console'[t].got = console[t].got
                 /\ console'[t].queue = Append(console[t].queue, <<ch, sent[c] + 1>>)
<1>1. /\ sent' = [sent EXCEPT ![c] = sent[c] + 1] /\ sent'[c] = sent[c] + 1
      /\ sent[c] + 1 \in 1 .. MaxInput
  <2>1. sent \in [Conn -> 0 .. MaxInput] /\ sent[c] < MaxInput /\ sent' = [sent EXCEPT ![c] = sent[c] + 1]
    BY DEF Data, TypeOK
  <2> QED
    BY <2>1, Bounds
<1>2. ASSUME uds_writer[c] # 0, console[<<c, uds_writer[c]>>].writer = "waiting"
      PROVE  \E t \in Console :
                 /\ t = <<c, uds_writer[c]>> /\ console[t].writer = "waiting"
                 /\ Only(t) /\ OutputKept(t) /\ GuestKept(t)
                 /\ console'[t].writer = "waiting"
                 /\ console'[t].got = console[t].got
                 /\ console'[t].queue = Append(console[t].queue, <<ch, sent[c] + 1>>)
  <2>1. PICK t \in Console : t = <<c, uds_writer[c]>>
    BY <1>2 DEF TypeOK
  <2>2. console[t] \in ConsoleRecord /\ console[t].queue \in Seq(Input)
    BY DEF TypeOK, ConsoleRecord
  <2>3. PICK x \in Input : x = <<ch, sent[c] + 1>>
    BY <1>1 DEF Input
  <2>4. PICK q \in Seq(Input) : q = Append(console[t].queue, x)
    BY <2>2, Seqs!AppendProperties
  <2>5. PICK r \in ConsoleRecord : r = [console[t] EXCEPT !.queue = q]
    BY <2>2, FieldTypes
  <2>6. console' = [console EXCEPT ![t] = [console[t] EXCEPT !.queue = Append(console[t].queue, x)]]
    BY <1>1, <1>2, <2>1, <2>3 DEF Data, TypeOK
  <2>7. Only(t) /\ console'[t] = r
    BY <2>4, <2>5, <2>6, OneConsoleChanges DEF Only, TypeOK
  <2>8. OutputKept(t) /\ GuestKept(t) /\ r.writer = console[t].writer /\ r.got = console[t].got
        /\ r.queue = q
    BY <2>2, <2>5, <2>7 DEF OutputKept, GuestKept, ConsoleRecord
  <2> QED
    BY <1>2, <2>1, <2>3, <2>4, <2>7, <2>8
<1>3. \/ console' = console /\ ~(uds_writer[c] # 0 /\ console[<<c, uds_writer[c]>>].writer = "waiting")
      \/ uds_writer[c] # 0 /\ console[<<c, uds_writer[c]>>].writer = "waiting"
  BY DEF Data
<1> QED
  BY <1>1, <1>2, <1>3

LEMMA DataKeeps ==
  ASSUME TypeOK, NEW c \in Conn, NEW ch \in Channel, Data(c, ch), NEW s \in Console
  PROVE  OutputKept(s) /\ GuestKept(s)
<1>1. ASSUME console' = console PROVE OutputKept(s) /\ GuestKept(s)
  BY <1>1 DEF OutputKept, GuestKept
<1>2. ASSUME NEW t \in Console, Only(t), OutputKept(t), GuestKept(t), t # s
      PROVE  OutputKept(s) /\ GuestKept(s)
  BY <1>2 DEF Only, OutputKept, GuestKept
<1> QED
  BY <1>1, <1>2, DataEffect

LEMMA WriterEffect ==
  ASSUME TypeOK, NEW t \in Console, Writer(t)
  PROVE  /\ Only(t) /\ OutputKept(t) /\ GuestKept(t)
         /\ console[t].writer = "waiting" /\ console'[t].writer \in {"waiting", "ended"}
         /\ \/ /\ console[t].queue # <<>> /\ ~PeerClosed(t)
               /\ console'[t].got = Append(console[t].got, Head(console[t].queue))
               /\ console'[t].queue = Tail(console[t].queue)
            \/ /\ console'[t].writer = "ended"
               /\ console'[t].got = console[t].got /\ console'[t].queue = console[t].queue
<1>1. console[t] \in ConsoleRecord /\ console[t].queue \in Seq(Input) /\ console[t].got \in Seq(Input)
      /\ console \in [Console -> ConsoleRecord]
  BY DEF TypeOK, ConsoleRecord
<1>2. CASE console[t].queue # <<>> /\ ~PeerClosed(t) /\ console' = [console EXCEPT
             ![t].got = Append(@, Head(console[t].queue)), ![t].queue = Tail(@)]
  <2>1. Append(console[t].got, Head(console[t].queue)) \in Seq(Input) /\ Tail(console[t].queue) \in Seq(Input)
    BY <1>1, <1>2, NonEmpty, Seqs!AppendProperties
  <2>2. PICK g \in Seq(Input) : g = Append(console[t].got, Head(console[t].queue))
    BY <2>1
  <2>3. PICK q \in Seq(Input) : q = Tail(console[t].queue)
    BY <2>1
  <2>4. console' = [console EXCEPT ![t] = [console[t] EXCEPT !.got = g, !.queue = q]]
    BY <1>1, <1>2, <2>2, <2>3
  <2>5. PICK r \in ConsoleRecord : r = [console[t] EXCEPT !.got = g, !.queue = q]
    BY <1>1, FieldTypes
  <2>6. Only(t) /\ console'[t] = r
    BY <1>1, <2>4, <2>5, OneConsoleChanges DEF Only
  <2>7. OutputKept(t) /\ GuestKept(t) /\ r.writer = console[t].writer /\ r.got = g /\ r.queue = q
    BY <1>1, <2>5, <2>6 DEF OutputKept, GuestKept, ConsoleRecord
  <2>8. console[t].writer = "waiting"
    BY DEF Writer
  <2> QED
    BY <1>2, <2>2, <2>3, <2>6, <2>7, <2>8
<1>3. CASE console' = [console EXCEPT ![t].writer = "ended"]
  <2>1. PICK r \in ConsoleRecord : r = [console[t] EXCEPT !.writer = "ended"]
    BY <1>1, FieldTypes
  <2>2. console' = [console EXCEPT ![t] = r]
    BY <1>1, <1>3, <2>1
  <2>3. Only(t) /\ console'[t] = r
    BY <1>1, <2>2, OneConsoleChanges DEF Only
  <2>4. OutputKept(t) /\ GuestKept(t) /\ r.writer = "ended" /\ r.got = console[t].got
        /\ r.queue = console[t].queue
    BY <1>1, <2>1, <2>3 DEF OutputKept, GuestKept, ConsoleRecord
  <2>5. console[t].writer = "waiting"
    BY DEF Writer
  <2> QED
    BY <2>3, <2>4, <2>5
<1> QED
  BY <1>2, <1>3 DEF Writer

LEMMA CopyEffect ==
  ASSUME TypeOK, NEW t \in Console, ReaderCopies(t)
  PROVE  /\ Only(t) /\ InputKept(t) /\ GuestKept(t)
         /\ console'[t].channel = console[t].channel
         /\ console'[t].said = console[t].said
         /\ console'[t].missed = console[t].missed
         /\ console'[t].out = Tail(console[t].out)
         /\ console'[t].reader = IF conn[t[1]] = "open" THEN "reading" ELSE "ended"
<1>1. console[t] \in ConsoleRecord /\ console[t].out \in Seq(1 .. MaxOutput)
      /\ console \in [Console -> ConsoleRecord]
  BY DEF TypeOK, ConsoleRecord
<1>2. PICK x \in {"none", "reading", "ended"} : x = IF conn[t[1]] = "open" THEN "reading" ELSE "ended"
  OBVIOUS
<1>3. PICK o \in Seq(1 .. MaxOutput) : o = Tail(console[t].out)
  BY <1>1, NonEmpty DEF ReaderCopies, Shows
<1>4. console' = [console EXCEPT ![t] = [console[t] EXCEPT !.out = o, !.reader = x]]
  BY <1>1, <1>2, <1>3 DEF ReaderCopies, Shows
<1>5. PICK r \in ConsoleRecord : r = [console[t] EXCEPT !.out = o, !.reader = x]
  BY <1>1, FieldTypes
<1>6. Only(t) /\ console'[t] = r
  BY <1>1, <1>4, <1>5, OneConsoleChanges DEF Only
<1>7. /\ InputKept(t) /\ GuestKept(t) /\ r.channel = console[t].channel /\ r.said = console[t].said
      /\ r.missed = console[t].missed /\ r.out = o /\ r.reader = x
  BY <1>1, <1>5, <1>6 DEF InputKept, GuestKept, ConsoleRecord
<1> QED
  BY <1>2, <1>3, <1>6, <1>7

LEMMA EndEffect ==
  ASSUME TypeOK, NEW t \in Console, ReaderEnds(t)
  PROVE  /\ Only(t) /\ InputKept(t) /\ GuestKept(t)
         /\ console'[t].channel = console[t].channel
         /\ console'[t].said = console[t].said
         /\ console'[t].missed = console[t].missed
         /\ console'[t].out = console[t].out
         /\ console'[t].reader = "ended"
<1>1. console[t] \in ConsoleRecord /\ console \in [Console -> ConsoleRecord]
  BY DEF TypeOK
<1>2. PICK r \in ConsoleRecord : r = [console[t] EXCEPT !.reader = "ended"]
  BY <1>1, FieldTypes
<1>3. console' = [console EXCEPT ![t] = r]
  BY <1>1, <1>2 DEF ReaderEnds
<1>4. Only(t) /\ console'[t] = r
  BY <1>1, <1>3, OneConsoleChanges DEF Only
<1>5. /\ InputKept(t) /\ GuestKept(t) /\ r.channel = console[t].channel /\ r.said = console[t].said
      /\ r.missed = console[t].missed /\ r.out = console[t].out /\ r.reader = "ended"
  BY <1>1, <1>2, <1>4 DEF InputKept, GuestKept, ConsoleRecord
<1> QED
  BY <1>4, <1>5

LEMMA GuestEffect ==
  ASSUME TypeOK, NEW t \in Console, NEW from, NEW to \in {"open", "refused", "hungup"}, Guest(t, from, to)
  PROVE  Only(t) /\ InputKept(t) /\ OutputKept(t) /\ console'[t].guest = to
<1>1. console[t] \in ConsoleRecord /\ console \in [Console -> ConsoleRecord]
  BY DEF TypeOK
<1>2. PICK r \in ConsoleRecord : r = [console[t] EXCEPT !.guest = to]
  BY <1>1, FieldTypes
<1>3. console' = [console EXCEPT ![t] = r]
  BY <1>1, <1>2 DEF Guest
<1>4. Only(t) /\ console'[t] = r
  BY <1>1, <1>3, OneConsoleChanges DEF Only
<1>5. InputKept(t) /\ OutputKept(t) /\ r.guest = to
  BY <1>1, <1>2, <1>4 DEF InputKept, OutputKept, ConsoleRecord
<1> QED
  BY <1>4, <1>5

LEMMA WriteEffect ==
  ASSUME TypeOK, NEW t \in Console, GuestWrites(t)
  PROVE  /\ Only(t) /\ InputKept(t) /\ GuestKept(t)
         /\ console'[t].reader = console[t].reader
         /\ console'[t].channel = console[t].channel
         /\ console'[t].missed = console[t].missed
         /\ console'[t].said = console[t].said + 1
         /\ console'[t].out = Append(console[t].out, console[t].said + 1)
<1>1. console[t] \in ConsoleRecord /\ console \in [Console -> ConsoleRecord]
      /\ console[t].out \in Seq(1 .. MaxOutput) /\ console[t].said + 1 \in 1 .. MaxOutput
  <2>1. console \in [Console -> ConsoleRecord] /\ console[t].said < MaxOutput
    BY DEF TypeOK, GuestWrites
  <2>2. console[t].said \in 0 .. MaxOutput /\ console[t].out \in Seq(1 .. MaxOutput)
    BY <2>1 DEF ConsoleRecord
  <2> QED
    BY <2>1, <2>2, Bounds
<1>2. PICK o \in Seq(1 .. MaxOutput) : o = Append(console[t].out, console[t].said + 1)
  BY <1>1, Seqs!AppendProperties
<1>3. PICK n \in 0 .. MaxOutput : n = console[t].said + 1
  BY <1>1
<1>4. PICK r \in ConsoleRecord : r = [console[t] EXCEPT !.said = n, !.out = o]
  BY <1>1, FieldTypes
<1>5. console' = [console EXCEPT ![t] = r]
  BY <1>1, <1>2, <1>3, <1>4 DEF GuestWrites
<1>6. Only(t) /\ console'[t] = r
  BY <1>1, <1>5, OneConsoleChanges DEF Only
<1>7. /\ InputKept(t) /\ GuestKept(t) /\ r.reader = console[t].reader
      /\ r.channel = console[t].channel /\ r.missed = console[t].missed /\ r.said = n /\ r.out = o
  BY <1>1, <1>4, <1>6 DEF InputKept, GuestKept, ConsoleRecord
<1> QED
  BY <1>2, <1>3, <1>6, <1>7

LEMMA WriterKept ==
  ASSUME TypeOK, ShellsConsistent, [Next]_vars, NEW s \in Console, console[s].writer # "none"
  PROVE  console'[s].writer # "none"
<1>1. ASSUME NEW c \in Conn, NEW v \in Vm, AuthPublickey(c, v) PROVE console'[s].writer # "none"
  BY <1>1 DEF AuthPublickey
<1>2. ASSUME NEW c \in Conn, NEW ch \in Channel, ShellRequest(c, ch) PROVE console'[s].writer # "none"
  BY <1>2 DEF ShellRequest, Ready, Open
<1>3. ASSUME NEW c \in Conn, NEW ch \in Channel, Data(c, ch) PROVE console'[s].writer # "none"
  BY <1>3, DataEffect DEF Only
<1>4. ASSUME NEW c \in Conn, ChannelOpenSession(c) PROVE console'[s].writer # "none"
  BY <1>4 DEF ChannelOpenSession, Ready
<1>5. ASSUME NEW c \in Conn, ShellLookup(c) PROVE console'[s].writer # "none"
  BY <1>5 DEF ShellLookup, Fail, Close
<1>6. ASSUME NEW c \in Conn, ShellConnect(c) PROVE console'[s].writer # "none"
  BY <1>6, ConnectEffect DEF Only, InputKept, Fail
<1>7. ASSUME NEW c \in Conn, ShellAttach(c) PROVE console'[s].writer # "none"
  BY <1>7, AttachEffect DEF Only
<1>8. ASSUME NEW c \in Conn, ShellRefused(c) PROVE console'[s].writer # "none"
  BY <1>8 DEF ShellRefused, Fail, Close
<1>9. ASSUME NEW c \in Conn, Disconnect(c) PROVE console'[s].writer # "none"
  BY <1>9 DEF Disconnect, Ready, Fail, Close
<1>10. ASSUME NEW t \in Console, Writer(t) PROVE console'[s].writer # "none"
  BY <1>10, WriterEffect DEF Only
<1>11. ASSUME NEW t \in Console, ReaderCopies(t) PROVE console'[s].writer # "none"
  BY <1>11, CopyEffect DEF Only, InputKept
<1>12. ASSUME NEW t \in Console, ReaderEnds(t) PROVE console'[s].writer # "none"
  BY <1>12, EndEffect DEF Only, InputKept
<1>13. ASSUME NEW t \in Console, GuestAccepts(t) PROVE console'[s].writer # "none"
  BY <1>13, GuestEffect DEF GuestAccepts, Only, InputKept
<1>14. ASSUME NEW t \in Console, GuestRefuses(t) PROVE console'[s].writer # "none"
  BY <1>14, GuestEffect DEF GuestRefuses, Only, InputKept
<1>15. ASSUME NEW t \in Console, GuestHangsUp(t) PROVE console'[s].writer # "none"
  BY <1>15, GuestEffect DEF GuestHangsUp, Only, InputKept
<1>16. ASSUME NEW t \in Console, GuestWrites(t) PROVE console'[s].writer # "none"
  BY <1>16, WriteEffect DEF Only, InputKept
<1>17. CASE Machines
  BY <1>17 DEF Machines, consoleVars
<1>18. CASE UNCHANGED vars
  BY <1>18 DEF vars, consoleVars
<1> QED
  BY <1>1, <1>2, <1>3, <1>4, <1>5, <1>6, <1>7, <1>8, <1>9, <1>10,
    <1>11, <1>12, <1>13, <1>14, <1>15, <1>16, <1>17, <1>18
    DEF Next, ShellStep, vars

LEMMA SenderKept ==
  ASSUME TypeOK, ShellsConsistent, [Next]_vars, NEW c \in Conn, uds_writer[c] # 0
  PROVE  console'[<<c, uds_writer[c]>>].writer # "none"
<1>1. PICK s \in Console : s = <<c, uds_writer[c]>>
  <2>1. uds_writer[c] \in 1 .. MaxChannels
    BY Bounds DEF TypeOK
  <2> QED
    BY <2>1
<1>2. console[s].writer # "none"
  BY <1>1 DEF ShellsConsistent
<1> QED
  BY <1>1, <1>2, WriterKept

LEMMA ShellsStep ==
  ASSUME TypeOK, ShellsConsistent, [Next]_vars
  PROVE  ShellsConsistent'
<1>0. \A c \in Conn : uds_writer[c] # 0 => console'[<<c, uds_writer[c]>>].writer # "none"
  BY SenderKept
<1>1. ASSUME NEW c \in Conn, NEW v \in Vm, AuthPublickey(c, v) PROVE ShellsConsistent'
  BY <1>1, <1>0 DEF AuthPublickey, ShellsConsistent, TypeOK
<1>2. ASSUME NEW c \in Conn, NEW ch \in Channel, ShellRequest(c, ch) PROVE ShellsConsistent'
  <2> USE <1>2 DEF ShellRequest, Ready, Open, Range
  <2>1. shells[c] \in Seq(Channel) /\ shells' = [shells EXCEPT ![c] = Append(shells[c], ch)]
    BY DEF TypeOK
  <2>2. shells'[c] = Append(shells[c], ch) /\ \A d \in Conn : d # c => shells'[d] = shells[d]
    BY <2>1 DEF TypeOK
  <2>3. /\ Append(shells[c], ch) # <<>> /\ Len(Append(shells[c], ch)) = Len(shells[c]) + 1
        /\ Len(shells[c]) \in Nat
        /\ \A i \in 1 .. Len(shells[c]) : Append(shells[c], ch)[i] = shells[c][i]
        /\ Append(shells[c], ch)[Len(shells[c]) + 1] = ch
    BY <2>1, Seqs!AppendProperties, Seqs!LenProperties
  <2>4. \A i, j \in 1 .. Len(shells'[c]) : shells'[c][i] = shells'[c][j] => i = j
    <3>1. \A i \in 1 .. Len(shells[c]) : shells[c][i] # ch
      <4>1. DOMAIN shells[c] = 1 .. Len(shells[c])
        BY <2>1, Seqs!LenProperties
      <4>2. ch \notin Range(shells[c])
        OBVIOUS
      <4>3. \A i \in DOMAIN shells[c] : shells[c][i] \in Range(shells[c])
        OBVIOUS
      <4> QED
        BY <4>1, <4>2, <4>3
    <3>2. \A i, j \in 1 .. Len(shells[c]) : shells[c][i] = shells[c][j] => i = j
      BY DEF ShellsConsistent
    <3>3. PICK q : q = Append(shells[c], ch)
      OBVIOUS
    <3>4. \A i, j \in 1 .. Len(q) : q[i] = q[j] => i = j
      BY <2>3, <3>1, <3>2, <3>3
    <3> QED
      BY <2>2, <3>3, <3>4
  <2>5. /\ \A d \in Conn : handler'[d] # "idle" => shells'[d] # <<>> /\ conn'[d] = "open"
        /\ \A d \in Conn : uds_writer'[d] # 0 => console'[<<d, uds_writer'[d]>>].writer # "none"
    BY <2>2, <2>3 DEF ShellsConsistent, TypeOK
  <2> QED
    BY <2>2, <2>4, <2>5 DEF ShellsConsistent
<1>3. ASSUME NEW c \in Conn, NEW ch \in Channel, Data(c, ch) PROVE ShellsConsistent'
  BY <1>3, <1>0 DEF Data, Ready, Open, ShellsConsistent, TypeOK
<1>4. ASSUME NEW c \in Conn, ChannelOpenSession(c) PROVE ShellsConsistent'
  BY <1>4, <1>0 DEF ChannelOpenSession, Ready, ShellsConsistent, TypeOK
<1>5. ASSUME NEW c \in Conn, ShellLookup(c) PROVE ShellsConsistent'
  <2>1. CASE Fail(c)
    BY <1>0, <2>1 DEF Fail, Close, ShellsConsistent, TypeOK
  <2>2. ASSUME ~Fail(c) PROVE ShellsConsistent'
    <3>1. /\ handler' = [handler EXCEPT ![c] = "connect"] /\ handler[c] = "lookup"
          /\ UNCHANGED <<conn, shells, uds_writer, channel_id>>
      BY <1>5, <2>2 DEF ShellLookup
    <3> QED
      BY <1>0, <3>1 DEF ShellsConsistent, TypeOK
  <2> QED
    BY <2>1, <2>2
<1>6. ASSUME NEW c \in Conn, ShellConnect(c) PROVE ShellsConsistent'
  <2>1. CASE Fail(c)
    BY <1>6 , <2>1 DEF Fail, Close, ShellsConsistent, TypeOK
  <2>2. ASSUME ~Fail(c) PROVE ShellsConsistent'
    <3>1. /\ handler' = [handler EXCEPT ![c] = "handshake"] /\ handler[c] = "connect"
          /\ UNCHANGED <<conn, shells, uds_writer, channel_id>>
      BY <1>6, <2>2, ConnectEffect DEF ShellConnect
    <3> QED
      BY <1>0, <3>1 DEF ShellsConsistent, TypeOK
  <2> QED
    BY <2>1, <2>2
<1>7. ASSUME NEW c \in Conn, ShellAttach(c) PROVE ShellsConsistent'
  <2>1. shells[c] # <<>> /\ Current(c) = <<c, Current(c)[2]>> /\ Current(c) \in Console
    BY <1>7, CurrentConsole DEF ShellAttach, ShellsConsistent, Current
  <2>2. console'[<<c, uds_writer'[c]>>].writer = "waiting"
    <3>1. uds_writer'[c] = Current(c)[2]
      BY <1>7 DEF ShellAttach, TypeOK
    <3>2. console'[Current(c)].writer = "waiting"
      BY <1>7, AttachEffect
    <3> QED
      BY <2>1, <3>1, <3>2
  <2>3. UNCHANGED <<conn, shells, channel_id>> /\ handler' = [handler EXCEPT ![c] = "idle"]
        /\ \A d \in Conn \ {c} : uds_writer'[d] = uds_writer[d]
    BY <1>7 DEF ShellAttach, TypeOK
  <2>4. \A d \in Conn : uds_writer'[d] # 0 => console'[<<d, uds_writer'[d]>>].writer # "none"
    BY <1>0, <2>2, <2>3 DEF ShellsConsistent, TypeOK
  <2>5. \A d \in Conn : handler'[d] # "idle" => shells'[d] # <<>> /\ conn'[d] = "open"
    BY <2>3 DEF ShellsConsistent, TypeOK
  <2>6. \A d \in Conn : \A i, j \in 1 .. Len(shells'[d]) : shells'[d][i] = shells'[d][j] => i = j
    BY <2>3 DEF ShellsConsistent
  <2>7. \A d \in Conn : shells'[d] # <<>> => channel_id'[d] # 0
    BY <2>3 DEF ShellsConsistent
  <2> QED
    BY <2>4, <2>5, <2>6, <2>7 DEF ShellsConsistent
<1>8. ASSUME NEW c \in Conn, ShellRefused(c) PROVE ShellsConsistent'
  BY <1>8, <1>0 DEF ShellRefused, Fail, Close, ShellsConsistent, TypeOK
<1>9. ASSUME NEW c \in Conn, Disconnect(c) PROVE ShellsConsistent'
  BY <1>9, <1>0 DEF Disconnect, Ready, Fail, Close, ShellsConsistent, TypeOK
<1>10. ASSUME NEW t \in Console, Writer(t) PROVE ShellsConsistent'
  BY <1>10, <1>0 DEF Writer, ShellsConsistent, TypeOK
<1>11. ASSUME NEW t \in Console, ReaderCopies(t) PROVE ShellsConsistent'
  BY <1>11, <1>0 DEF ReaderCopies, Shows, ShellsConsistent, TypeOK
<1>12. ASSUME NEW t \in Console, ReaderEnds(t) PROVE ShellsConsistent'
  BY <1>12, <1>0 DEF ReaderEnds, ShellsConsistent, TypeOK
<1>13. ASSUME NEW t \in Console, GuestAccepts(t) PROVE ShellsConsistent'
  BY <1>13, <1>0 DEF GuestAccepts, Guest, ShellsConsistent, TypeOK
<1>14. ASSUME NEW t \in Console, GuestRefuses(t) PROVE ShellsConsistent'
  BY <1>14, <1>0 DEF GuestRefuses, Guest, ShellsConsistent, TypeOK
<1>15. ASSUME NEW t \in Console, GuestHangsUp(t) PROVE ShellsConsistent'
  BY <1>15, <1>0 DEF GuestHangsUp, Guest, ShellsConsistent, TypeOK
<1>16. ASSUME NEW t \in Console, GuestWrites(t) PROVE ShellsConsistent'
  BY <1>16, <1>0 DEF GuestWrites, ShellsConsistent, TypeOK
<1>17. CASE Machines
  BY <1>17, <1>0 DEF Machines, consoleVars, ShellsConsistent, TypeOK
<1>18. CASE UNCHANGED vars
  BY <1>18, <1>0 DEF vars, consoleVars, ShellsConsistent, TypeOK
<1> QED
  BY <1>1, <1>2, <1>3, <1>4, <1>5, <1>6, <1>7, <1>8, <1>9, <1>10,
    <1>11, <1>12, <1>13, <1>14, <1>15, <1>16, <1>17, <1>18
    DEF Next, ShellStep, vars

LEMMA DialedStep ==
  ASSUME TypeOK, ShellsConsistent, [Next]_vars, NEW s \in Console, Dialed(s)
  PROVE  Dialed(s)'
<1> DEFINE Asked == \E i \in 1 .. Len(shells'[s[1]]) :
                      /\ shells'[s[1]][i] = s[2]
                      /\ i = Len(shells'[s[1]]) => handler'[s[1]] \in {"idle", "handshake"}
<1>0. SUFFICES ASSUME console'[s].guest # "none"
               PROVE  Asked
  BY DEF Dialed
<1>1. ASSUME NEW c \in Conn, NEW v \in Vm, AuthPublickey(c, v) PROVE Asked
  BY <1>1, <1>0 DEF AuthPublickey, Dialed, TypeOK
<1>2. ASSUME NEW c \in Conn, NEW ch \in Channel, ShellRequest(c, ch) PROVE Asked
  <2>1. shells[c] \in Seq(Channel) /\ shells' = [shells EXCEPT ![c] = Append(shells[c], ch)]
        /\ UNCHANGED console /\ handler' = [handler EXCEPT ![c] = "lookup"]
    BY <1>2 DEF TypeOK, ShellRequest
  <2>2. /\ Len(shells'[c]) = Len(shells[c]) + 1 /\ Len(shells[c]) \in Nat
        /\ \A i \in 1 .. Len(shells[c]) : shells'[c][i] = shells[c][i]
    BY <2>1, Seqs!AppendProperties, Seqs!LenProperties DEF TypeOK
  <2>3. CASE s[1] = c
    <3>1. PICK i \in 1 .. Len(shells[c]) : shells[c][i] = s[2]
      BY <1>0, <2>1, <2>3 DEF Dialed
    <3>2. i \in 1 .. Len(shells'[c]) /\ shells'[c][i] = s[2] /\ i # Len(shells'[c])
      BY <2>2, <3>1
    <3> QED
      BY <2>3, <3>2
  <2>4. CASE s[1] # c
    BY <1>0, <2>1, <2>4 DEF Dialed, TypeOK
  <2> QED
    BY <2>3, <2>4
<1>3. ASSUME NEW c \in Conn, NEW ch \in Channel, Data(c, ch) PROVE Asked
  <2>1. UNCHANGED <<shells, handler>> /\ console'[s].guest = console[s].guest
    BY <1>3, DataEffect DEF Data, Only, GuestKept
  <2> QED
    BY <1>0, <2>1 DEF Dialed
<1>4. ASSUME NEW c \in Conn, ChannelOpenSession(c) PROVE Asked
  BY <1>4, <1>0 DEF ChannelOpenSession, Ready, Dialed, TypeOK
<1>5. ASSUME NEW c \in Conn, ShellLookup(c) PROVE Asked
  <2>1. UNCHANGED <<console, shells>>
    BY <1>5 DEF ShellLookup, Fail
  <2>2. CASE s[1] = c
    <3>1. handler[c] = "lookup"
      BY <1>5 DEF ShellLookup
    <3> QED
      BY <1>0, <2>1, <2>2, <3>1 DEF Dialed
  <2>3. CASE s[1] # c
    <3>1. handler'[s[1]] = handler[s[1]]
      BY <1>5, <2>3 DEF ShellLookup, Fail, Close, TypeOK
    <3> QED
      BY <1>0, <2>1, <3>1 DEF Dialed
  <2> QED
    BY <2>2, <2>3
<1>6. ASSUME NEW c \in Conn, ShellConnect(c) PROVE Asked
  <2>1. CASE Fail(c)
    <3>1. UNCHANGED <<console, shells>> /\ handler' = [handler EXCEPT ![c] = "idle"]
      BY <2>1 DEF Fail, Close
    <3> QED
      BY <1>0, <3>1 DEF Dialed, TypeOK
  <2>2. ASSUME ~Fail(c) PROVE Asked
    <3>1. /\ handler' = [handler EXCEPT ![c] = "handshake"] /\ UNCHANGED shells /\ Only(Current(c))
      BY <1>6, <2>2, ConnectEffect
    <3>2. CASE s = Current(c)
      <4>1. /\ s[1] = c /\ shells[c] # <<>> /\ s[2] = shells[c][Len(shells[c])]
        BY <1>6, <3>2, CurrentConsole DEF ShellConnect, ShellsConsistent
      <4>2. Len(shells[c]) \in 1 .. Len(shells[c])
        BY <4>1, NonEmpty DEF TypeOK
      <4>3. shells'[s[1]][Len(shells[c])] = s[2] /\ handler'[s[1]] = "handshake" /\ shells' = shells
        BY <3>1, <4>1 DEF TypeOK
      <4> QED
        BY <4>1, <4>2, <4>3
    <3>3. CASE s # Current(c)
      BY <1>0, <3>1, <3>3 DEF Only, Dialed, TypeOK
    <3> QED
      BY <3>2, <3>3
  <2> QED
    BY <2>1, <2>2
<1>7. ASSUME NEW c \in Conn, ShellAttach(c) PROVE Asked
  <2>1. UNCHANGED shells /\ handler' = [handler EXCEPT ![c] = "idle"] /\ console'[s].guest = console[s].guest
    BY <1>7, AttachEffect DEF ShellAttach, Only, GuestKept
  <2> QED
    BY <1>0, <2>1 DEF Dialed, TypeOK
<1>8. ASSUME NEW c \in Conn, ShellRefused(c) PROVE Asked
  BY <1>8, <1>0 DEF ShellRefused, Fail, Close, Dialed, TypeOK
<1>9. ASSUME NEW c \in Conn, Disconnect(c) PROVE Asked
  BY <1>9, <1>0 DEF Disconnect, Ready, Fail, Close, Dialed, TypeOK
<1>10. ASSUME NEW t \in Console, Writer(t) PROVE Asked
  <2>1. UNCHANGED <<shells, handler>> /\ console'[s].guest = console[s].guest
    BY <1>10, WriterEffect DEF Writer, Only, GuestKept
  <2> QED
    BY <1>0, <2>1 DEF Dialed
<1>11. ASSUME NEW t \in Console, ReaderCopies(t) PROVE Asked
  <2>1. UNCHANGED <<shells, handler>> /\ console'[s].guest = console[s].guest
    BY <1>11, CopyEffect DEF ReaderCopies, Shows, Only, GuestKept
  <2> QED
    BY <1>0, <2>1 DEF Dialed
<1>12. ASSUME NEW t \in Console, ReaderEnds(t) PROVE Asked
  <2>1. UNCHANGED <<shells, handler>> /\ console'[s].guest = console[s].guest
    BY <1>12, EndEffect DEF ReaderEnds, Only, GuestKept
  <2> QED
    BY <1>0, <2>1 DEF Dialed
<1>13. ASSUME NEW t \in Console, GuestAccepts(t) PROVE Asked
  <2>1. UNCHANGED <<shells, handler>> /\ console[s].guest # "none"
    BY <1>13, <1>0, GuestEffect DEF GuestAccepts, Guest, Only
  <2> QED
    BY <1>0, <2>1 DEF Dialed
<1>14. ASSUME NEW t \in Console, GuestRefuses(t) PROVE Asked
  <2>1. UNCHANGED <<shells, handler>> /\ console[s].guest # "none"
    BY <1>14, <1>0, GuestEffect DEF GuestRefuses, Guest, Only
  <2> QED
    BY <1>0, <2>1 DEF Dialed
<1>15. ASSUME NEW t \in Console, GuestHangsUp(t) PROVE Asked
  <2>1. UNCHANGED <<shells, handler>> /\ console[s].guest # "none"
    BY <1>15, <1>0, GuestEffect DEF GuestHangsUp, Guest, Only
  <2> QED
    BY <1>0, <2>1 DEF Dialed
<1>16. ASSUME NEW t \in Console, GuestWrites(t) PROVE Asked
  <2>1. UNCHANGED <<shells, handler>> /\ console'[s].guest = console[s].guest
    BY <1>16, WriteEffect DEF GuestWrites, Only, GuestKept
  <2> QED
    BY <1>0, <2>1 DEF Dialed
<1>17. CASE Machines
  BY <1>17, <1>0 DEF Machines, consoleVars, Dialed, TypeOK
<1>18. CASE UNCHANGED vars
  BY <1>18, <1>0 DEF vars, consoleVars, Dialed, TypeOK
<1> QED
  BY <1>1, <1>2, <1>3, <1>4, <1>5, <1>6, <1>7, <1>8, <1>9, <1>10,
    <1>11, <1>12, <1>13, <1>14, <1>15, <1>16, <1>17, <1>18
    DEF Next, ShellStep, vars

LEMMA UnattachedFrame ==
  ASSUME NEW s \in Console, Unattached(s), console'[s] = console[s],
         handler'[s[1]] = "handshake" => handler[s[1]] = "handshake" /\ shells'[s[1]] = shells[s[1]]
  PROVE  Unattached(s)'
BY DEF Unattached, Current

LEMMA UnattachedStep ==
  ASSUME TypeOK, ShellsConsistent, [Next]_vars, NEW s \in Console, Dialed(s), Unattached(s)
  PROVE  Unattached(s)'
<1>1. ASSUME NEW c \in Conn, NEW v \in Vm, AuthPublickey(c, v) PROVE Unattached(s)'
  BY <1>1, UnattachedFrame DEF AuthPublickey
<1>2. ASSUME NEW c \in Conn, NEW ch \in Channel, ShellRequest(c, ch) PROVE Unattached(s)'
  BY <1>2, UnattachedFrame DEF ShellRequest, TypeOK
<1>3. ASSUME NEW c \in Conn, NEW ch \in Channel, Data(c, ch) PROVE Unattached(s)'
  <2>1. UNCHANGED <<handler, shells>>
    BY <1>3 DEF Data
  <2>2. CASE console'[s] = console[s]
    BY <2>1, <2>2, UnattachedFrame
  <2>3. CASE console'[s] # console[s]
    <3>1. console[s].writer = "waiting" /\ console'[s].writer = "waiting" /\ OutputKept(s) /\ GuestKept(s)
      BY <1>3, <2>3, DataEffect DEF Only
    <3>2. ~(handler[s[1]] = "handshake" /\ s = Current(s[1]))
      BY <3>1 DEF Unattached
    <3>3. Current(s[1])' = Current(s[1])
      BY <2>1 DEF Current
    <3> QED
      BY <2>1, <3>1, <3>2, <3>3 DEF Unattached, OutputKept, GuestKept
  <2> QED
    BY <2>2, <2>3
<1>4. ASSUME NEW c \in Conn, ChannelOpenSession(c) PROVE Unattached(s)'
  BY <1>4, UnattachedFrame DEF ChannelOpenSession, TypeOK
<1>5. ASSUME NEW c \in Conn, ShellLookup(c) PROVE Unattached(s)'
  <2>1. console' = console /\ shells' = shells
    BY <1>5 DEF ShellLookup, Fail
  <2>2. handler' = [handler EXCEPT ![c] = "connect"] \/ handler' = [handler EXCEPT ![c] = "idle"]
    BY <1>5 DEF ShellLookup, Fail, Close
  <2>3. handler'[s[1]] = "handshake" => handler[s[1]] = "handshake"
    BY <2>2 DEF TypeOK
  <2> QED
    BY <2>1, <2>3, UnattachedFrame
<1>6. ASSUME NEW c \in Conn, ShellConnect(c) PROVE Unattached(s)'
  <2>1. CASE Fail(c)
    BY <2>1, UnattachedFrame DEF Fail, Close, TypeOK
  <2>2. ASSUME ~Fail(c) PROVE Unattached(s)'
    <3>1. /\ handler' = [handler EXCEPT ![c] = "handshake"] /\ handler[c] = "connect"
          /\ UNCHANGED shells
          /\ Only(Current(c)) /\ InputKept(Current(c)) /\ OutputKept(Current(c))
          /\ console'[Current(c)].guest = "dialed"
      BY <1>6, <2>2, ConnectEffect DEF ShellConnect
    <3>2. CASE s = Current(c)
      <4>1. s[1] = c /\ s[2] = shells[c][Len(shells[c])] /\ Len(shells[c]) \in 1 .. Len(shells[c])
        BY <3>1, <3>2, CurrentConsole, NonEmpty DEF ShellsConsistent, TypeOK
      <4>2. console[s].guest = "none"
        BY <3>1, <4>1 DEF Dialed, ShellsConsistent
      <4>3. console[s].writer = "none"
        BY <4>2 DEF Unattached
      <4> QED
        BY <3>1, <3>2, <4>3 DEF Unattached, InputKept, OutputKept
    <3>3. CASE s # Current(c)
      <4>1. console'[s] = console[s]
        BY <3>1, <3>3 DEF Only
      <4>2. CASE s[1] = c
        <5>1. Current(c)' = Current(c)
          BY <3>1 DEF Current
        <5> QED
          BY <3>3, <4>1, <4>2, <5>1 DEF Unattached
      <4>3. CASE s[1] # c
        <5>1. handler'[s[1]] = handler[s[1]]
          BY <3>1, <4>3 DEF TypeOK
        <5> QED
          BY <3>1, <4>1, <5>1, UnattachedFrame
      <4> QED
        BY <4>2, <4>3
    <3> QED
      BY <3>2, <3>3
  <2> QED
    BY <2>1, <2>2
<1>7. ASSUME NEW c \in Conn, ShellAttach(c) PROVE Unattached(s)'
  <2>1. handler' = [handler EXCEPT ![c] = "idle"] /\ UNCHANGED shells
        /\ console[Current(c)].guest \in {"open", "hungup"}
    BY <1>7 DEF ShellAttach
  <2>2. CASE s = Current(c)
    <3>1. /\ GuestKept(s) /\ console'[s].writer = "waiting"
          /\ console'[s].reader = "reading" /\ console'[s].channel = channel_id[c]
      BY <1>7, <2>2, AttachEffect
    <3>2. channel_id[c] \in Channel /\ s[1] = c
      <4>1. shells[c] # <<>> /\ channel_id[c] # 0
        BY <1>7 DEF ShellAttach, ShellsConsistent
      <4>2. s[1] = c
        BY <2>2, <4>1, CurrentConsole
      <4>3. channel_id[c] \in 0 .. MaxChannels
        BY DEF TypeOK
      <4> QED
        BY <4>1, <4>2, <4>3, Bounds
    <3>3. handler'[s[1]] = "idle"
      BY <2>1, <3>2 DEF TypeOK
    <3> QED
      BY <2>1, <2>2, <3>1, <3>2, <3>3 DEF Unattached, GuestKept
  <2>3. CASE s # Current(c)
    <3>1. console'[s] = console[s]
      BY <1>7, <2>3, AttachEffect DEF Only
    <3> QED
      BY <2>1, <3>1, UnattachedFrame DEF TypeOK
  <2> QED
    BY <2>2, <2>3
<1>8. ASSUME NEW c \in Conn, ShellRefused(c) PROVE Unattached(s)'
  BY <1>8, UnattachedFrame DEF ShellRefused, Fail, Close, TypeOK
<1>9. ASSUME NEW c \in Conn, Disconnect(c) PROVE Unattached(s)'
  BY <1>9, UnattachedFrame DEF Disconnect, Fail, Close, TypeOK
<1>10. ASSUME NEW t \in Console, Writer(t) PROVE Unattached(s)'
  <2>1. UNCHANGED <<handler, shells>> /\ Only(t)
    BY <1>10, WriterEffect DEF Writer
  <2>2. CASE s = t
    <3>1. Current(s[1])' = Current(s[1])
      BY <2>1 DEF Current
    <3>2. /\ console[s].writer = "waiting" /\ console'[s].writer # "none" /\ OutputKept(s) /\ GuestKept(s)
      BY <1>10, <2>2, WriterEffect
    <3> QED
      BY <2>1, <3>1, <3>2 DEF Unattached, OutputKept, GuestKept
  <2>3. CASE s # t
    BY <2>1, <2>3, UnattachedFrame DEF Only
  <2> QED
    BY <2>2, <2>3
<1>11. ASSUME NEW t \in Console, ReaderCopies(t) PROVE Unattached(s)'
  <2>1. UNCHANGED <<handler, shells>> /\ Only(t)
    BY <1>11, CopyEffect DEF ReaderCopies, Shows
  <2>2. CASE s = t
    <3>1. Current(s[1])' = Current(s[1])
      BY <2>1 DEF Current
    <3>2. /\ console[s].reader = "reading" /\ console'[s].reader \in {"reading", "ended"}
          /\ console'[s].channel = console[s].channel /\ InputKept(s) /\ GuestKept(s)
      <4>1. console[s].reader = "reading"
        BY <1>11, <2>2 DEF ReaderCopies, Shows
      <4> QED
        BY <1>11, <2>2, <4>1, CopyEffect
    <3> QED
      BY <2>1, <3>1, <3>2 DEF Unattached, InputKept, GuestKept
  <2>3. CASE s # t
    BY <2>1, <2>3, UnattachedFrame DEF Only
  <2> QED
    BY <2>2, <2>3
<1>12. ASSUME NEW t \in Console, ReaderEnds(t) PROVE Unattached(s)'
  <2>1. UNCHANGED <<handler, shells>> /\ Only(t)
    BY <1>12, EndEffect DEF ReaderEnds
  <2>2. CASE s = t
    <3>1. Current(s[1])' = Current(s[1])
      BY <2>1 DEF Current
    <3>2. /\ console[s].reader = "reading" /\ console'[s].reader \in {"reading", "ended"}
          /\ console'[s].channel = console[s].channel /\ InputKept(s) /\ GuestKept(s)
      <4>1. console[s].reader = "reading"
        BY <1>12, <2>2 DEF ReaderEnds
      <4> QED
        BY <1>12, <2>2, <4>1, EndEffect
    <3> QED
      BY <2>1, <3>1, <3>2 DEF Unattached, InputKept, GuestKept
  <2>3. CASE s # t
    BY <2>1, <2>3, UnattachedFrame DEF Only
  <2> QED
    BY <2>2, <2>3
<1>13. ASSUME NEW t \in Console, GuestAccepts(t) PROVE Unattached(s)'
  <2>1. UNCHANGED <<handler, shells>> /\ Only(t)
    BY <1>13, GuestEffect DEF GuestAccepts, Guest
  <2>2. CASE s = t
    <3>1. Current(s[1])' = Current(s[1])
      BY <2>1 DEF Current
    <3>2. /\ console'[s].guest # "none" /\ InputKept(s) /\ OutputKept(s)
      BY <1>13, <2>2, GuestEffect DEF GuestAccepts
    <3> QED
      BY <2>1, <3>1, <3>2 DEF Unattached, InputKept, OutputKept
  <2>3. CASE s # t
    BY <2>1, <2>3, UnattachedFrame DEF Only
  <2> QED
    BY <2>2, <2>3
<1>14. ASSUME NEW t \in Console, GuestRefuses(t) PROVE Unattached(s)'
  <2>1. UNCHANGED <<handler, shells>> /\ Only(t)
    BY <1>14, GuestEffect DEF GuestRefuses, Guest
  <2>2. CASE s = t
    <3>1. Current(s[1])' = Current(s[1])
      BY <2>1 DEF Current
    <3>2. /\ console'[s].guest # "none" /\ InputKept(s) /\ OutputKept(s)
      BY <1>14, <2>2, GuestEffect DEF GuestRefuses
    <3> QED
      BY <2>1, <3>1, <3>2 DEF Unattached, InputKept, OutputKept
  <2>3. CASE s # t
    BY <2>1, <2>3, UnattachedFrame DEF Only
  <2> QED
    BY <2>2, <2>3
<1>15. ASSUME NEW t \in Console, GuestHangsUp(t) PROVE Unattached(s)'
  <2>1. UNCHANGED <<handler, shells>> /\ Only(t)
    BY <1>15, GuestEffect DEF GuestHangsUp, Guest
  <2>2. CASE s = t
    <3>1. Current(s[1])' = Current(s[1])
      BY <2>1 DEF Current
    <3>2. /\ console'[s].guest # "none" /\ InputKept(s) /\ OutputKept(s)
      BY <1>15, <2>2, GuestEffect DEF GuestHangsUp
    <3> QED
      BY <2>1, <3>1, <3>2 DEF Unattached, InputKept, OutputKept
  <2>3. CASE s # t
    BY <2>1, <2>3, UnattachedFrame DEF Only
  <2> QED
    BY <2>2, <2>3
<1>16. ASSUME NEW t \in Console, GuestWrites(t) PROVE Unattached(s)'
  <2>1. UNCHANGED <<handler, shells>> /\ Only(t)
    BY <1>16, WriteEffect DEF GuestWrites
  <2>2. CASE s = t
    <3>1. Current(s[1])' = Current(s[1])
      BY <2>1 DEF Current
    <3>2. /\ console[s].guest # "none" /\ InputKept(s) /\ GuestKept(s)
          /\ console'[s].reader = console[s].reader /\ console'[s].channel = console[s].channel
          /\ console'[s].missed = console[s].missed
      BY <1>16, <2>2, WriteEffect DEF GuestWrites
    <3>3. Len(console[s].out) = console[s].said => Len(console'[s].out) = console'[s].said
      <4>1. console[s].out \in Seq(1 .. MaxOutput) /\ console[s].said + 1 \in 1 .. MaxOutput
        <5>1. console[s] \in ConsoleRecord /\ console[s].said < MaxOutput
          BY <1>16, <2>2 DEF GuestWrites, TypeOK
        <5>2. console[s].out \in Seq(1 .. MaxOutput) /\ console[s].said \in 0 .. MaxOutput
          BY <5>1 DEF ConsoleRecord
        <5> QED
          BY <5>1, <5>2, Bounds
      <4>2. Len(console'[s].out) = Len(console[s].out) + 1 /\ console'[s].said = console[s].said + 1
        BY <1>16, <2>2, <4>1, WriteEffect, Seqs!AppendProperties
      <4> QED
        BY <4>2
    <3> QED
      BY <2>1, <3>1, <3>2, <3>3 DEF Unattached, InputKept, GuestKept
  <2>3. CASE s # t
    BY <2>1, <2>3, UnattachedFrame DEF Only
  <2> QED
    BY <2>2, <2>3
<1>17. CASE Machines
  BY <1>17, UnattachedFrame DEF Machines, consoleVars
<1>18. CASE UNCHANGED vars
  BY <1>18, UnattachedFrame DEF vars
<1> QED
  BY <1>1, <1>2, <1>3, <1>4, <1>5, <1>6, <1>7, <1>8, <1>9, <1>10,
    <1>11, <1>12, <1>13, <1>14, <1>15, <1>16, <1>17, <1>18
    DEF Next, ShellStep, vars

LEMMA AttachedStep ==
  ASSUME TypeOK, ShellsConsistent, AttachedOnce, [Next]_vars
  PROVE  AttachedOnce'
BY DialedStep, UnattachedStep DEF AttachedOnce

LEMMA MachineMoves ==
  ASSUME TypeOK, [Next]_vars, NEW v \in Vm
  PROVE  /\ life[v] \in {"running", "gone"} => life'[v] \in {"running", "gone"}
         /\ proc[v] \in {"up", "ended"} => proc'[v] \in {"up", "ended"}
         /\ proc[v] = "ended" => proc'[v] = "ended"
<1> DEFINE MachineStays ==
         /\ life[v] \in {"running", "gone"} => life'[v] \in {"running", "gone"}
         /\ proc[v] \in {"up", "ended"} => proc'[v] \in {"up", "ended"}
         /\ proc[v] = "ended" => proc'[v] = "ended"
<1>1. ASSUME NEW c \in Conn, NEW w \in Vm, AuthPublickey(c, w) PROVE MachineStays
  BY <1>1 DEF AuthPublickey
<1>2. ASSUME NEW c \in Conn, NEW ch \in Channel, ShellRequest(c, ch) PROVE MachineStays
  BY <1>2 DEF ShellRequest
<1>3. ASSUME NEW c \in Conn, NEW ch \in Channel, Data(c, ch) PROVE MachineStays
  BY <1>3 DEF Data
<1>4. ASSUME NEW c \in Conn, ChannelOpenSession(c) PROVE MachineStays
  BY <1>4 DEF ChannelOpenSession
<1>5. ASSUME NEW c \in Conn, ShellLookup(c) PROVE MachineStays
  BY <1>5 DEF ShellLookup, Fail
<1>6. ASSUME NEW c \in Conn, ShellConnect(c) PROVE MachineStays
  BY <1>6 DEF ShellConnect, Fail
<1>7. ASSUME NEW c \in Conn, ShellAttach(c) PROVE MachineStays
  BY <1>7 DEF ShellAttach
<1>8. ASSUME NEW c \in Conn, ShellRefused(c) PROVE MachineStays
  BY <1>8 DEF ShellRefused, Fail
<1>9. ASSUME NEW c \in Conn, Disconnect(c) PROVE MachineStays
  BY <1>9 DEF Disconnect, Fail
<1>10. ASSUME NEW t \in Console, Writer(t) PROVE MachineStays
  BY <1>10 DEF Writer
<1>11. ASSUME NEW t \in Console, ReaderCopies(t) PROVE MachineStays
  BY <1>11 DEF ReaderCopies, Shows
<1>12. ASSUME NEW t \in Console, ReaderEnds(t) PROVE MachineStays
  BY <1>12 DEF ReaderEnds
<1>13. ASSUME NEW t \in Console, GuestAccepts(t) PROVE MachineStays
  BY <1>13 DEF GuestAccepts, Guest
<1>14. ASSUME NEW t \in Console, GuestRefuses(t) PROVE MachineStays
  BY <1>14 DEF GuestRefuses, Guest
<1>15. ASSUME NEW t \in Console, GuestHangsUp(t) PROVE MachineStays
  BY <1>15 DEF GuestHangsUp, Guest
<1>16. ASSUME NEW t \in Console, GuestWrites(t) PROVE MachineStays
  BY <1>16 DEF GuestWrites
<1>17. CASE Machines
  BY <1>17 DEF Machines, MapStep, Forget, Enter, Start, Run, Remove, End, Acquire, Unlock, TypeOK, MapTypeOK
<1>18. CASE UNCHANGED vars
  BY <1>18 DEF vars
<1> QED
  BY <1>1, <1>2, <1>3, <1>4, <1>5, <1>6, <1>7, <1>8, <1>9, <1>10,
    <1>11, <1>12, <1>13, <1>14, <1>15, <1>16, <1>17, <1>18
    DEF Next, ShellStep, vars

LEMMA LoginKept ==
  ASSUME TypeOK, ShellsConsistent, [Next]_vars, NEW c \in Conn, conn[c] # "new"
  PROVE  /\ conn'[c] # "new" /\ vm_id'[c] = vm_id[c] /\ key'[c] = key[c]
         /\ conn[c] = "closed" => conn'[c] = "closed"
<1> DEFINE LoginStays ==
         /\ conn'[c] # "new" /\ vm_id'[c] = vm_id[c] /\ key'[c] = key[c]
         /\ conn[c] = "closed" => conn'[c] = "closed"
<1>1. ASSUME NEW d \in Conn, NEW v \in Vm, AuthPublickey(d, v) PROVE LoginStays
  BY <1>1 DEF AuthPublickey, TypeOK
<1>2. ASSUME NEW d \in Conn, NEW ch \in Channel, ShellRequest(d, ch) PROVE LoginStays
  BY <1>2 DEF ShellRequest, TypeOK
<1>3. ASSUME NEW d \in Conn, NEW ch \in Channel, Data(d, ch) PROVE LoginStays
  BY <1>3 DEF Data, TypeOK
<1>4. ASSUME NEW d \in Conn, ChannelOpenSession(d) PROVE LoginStays
  BY <1>4 DEF ChannelOpenSession, TypeOK
<1>5. ASSUME NEW d \in Conn, ShellLookup(d) PROVE LoginStays
  <2>1. CASE Fail(d)
    BY <2>1 DEF Fail, Close, TypeOK
  <2>2. ASSUME ~Fail(d) PROVE LoginStays
    BY <1>5, <2>2 DEF ShellLookup
  <2> QED
    BY <2>1, <2>2
<1>6. ASSUME NEW d \in Conn, ShellConnect(d) PROVE LoginStays
  <2>1. CASE Fail(d)
    BY <2>1 DEF Fail, Close, TypeOK
  <2>2. ASSUME ~Fail(d) PROVE LoginStays
    BY <1>6, <2>2 DEF ShellConnect
  <2> QED
    BY <2>1, <2>2
<1>7. ASSUME NEW d \in Conn, ShellAttach(d) PROVE LoginStays
  BY <1>7 DEF ShellAttach, TypeOK
<1>8. ASSUME NEW d \in Conn, ShellRefused(d) PROVE LoginStays
  BY <1>8 DEF ShellRefused, Fail, Close, TypeOK
<1>9. ASSUME NEW d \in Conn, Disconnect(d) PROVE LoginStays
  BY <1>9 DEF Disconnect, Fail, Close, TypeOK
<1>10. ASSUME NEW t \in Console, Writer(t) PROVE LoginStays
  BY <1>10 DEF Writer, TypeOK
<1>11. ASSUME NEW t \in Console, ReaderCopies(t) PROVE LoginStays
  BY <1>11 DEF ReaderCopies, Shows, TypeOK
<1>12. ASSUME NEW t \in Console, ReaderEnds(t) PROVE LoginStays
  BY <1>12 DEF ReaderEnds, TypeOK
<1>13. ASSUME NEW t \in Console, GuestAccepts(t) PROVE LoginStays
  BY <1>13 DEF GuestAccepts, Guest, TypeOK
<1>14. ASSUME NEW t \in Console, GuestRefuses(t) PROVE LoginStays
  BY <1>14 DEF GuestRefuses, Guest, TypeOK
<1>15. ASSUME NEW t \in Console, GuestHangsUp(t) PROVE LoginStays
  BY <1>15 DEF GuestHangsUp, Guest, TypeOK
<1>16. ASSUME NEW t \in Console, GuestWrites(t) PROVE LoginStays
  BY <1>16 DEF GuestWrites, TypeOK
<1>17. CASE Machines
  BY <1>17 DEF Machines, consoleVars
<1>18. CASE UNCHANGED vars
  BY <1>18 DEF vars, consoleVars
<1> QED
  BY <1>1, <1>2, <1>3, <1>4, <1>5, <1>6, <1>7, <1>8, <1>9, <1>10,
    <1>11, <1>12, <1>13, <1>14, <1>15, <1>16, <1>17, <1>18
    DEF Next, ShellStep, vars

LEMMA GuestDialed ==
  ASSUME TypeOK, ShellsConsistent, [Next]_vars, NEW s \in Console, console[s].guest = "none",
         console'[s].guest # "none"
  PROVE  conn[s[1]] = "open" /\ proc[Machine(s)] = "up"
<1>0. console[s].guest = "none" /\ console'[s].guest # "none"
  OBVIOUS
<1>1. ASSUME NEW c \in Conn, NEW v \in Vm, AuthPublickey(c, v) PROVE conn[s[1]] = "open" /\ proc[Machine(s)] = "up"
  BY <1>1, <1>0 DEF AuthPublickey
<1>2. ASSUME NEW c \in Conn, NEW ch \in Channel, ShellRequest(c, ch) PROVE conn[s[1]] = "open" /\ proc[Machine(s)] = "up"
  BY <1>2, <1>0 DEF ShellRequest
<1>3. ASSUME NEW c \in Conn, NEW ch \in Channel, Data(c, ch) PROVE conn[s[1]] = "open" /\ proc[Machine(s)] = "up"
  BY <1>3, <1>0, DataEffect DEF Only, GuestKept
<1>4. ASSUME NEW c \in Conn, ChannelOpenSession(c) PROVE conn[s[1]] = "open" /\ proc[Machine(s)] = "up"
  BY <1>4, <1>0 DEF ChannelOpenSession
<1>5. ASSUME NEW c \in Conn, ShellLookup(c) PROVE conn[s[1]] = "open" /\ proc[Machine(s)] = "up"
  BY <1>5, <1>0 DEF ShellLookup, Fail
<1>6. ASSUME NEW c \in Conn, ShellConnect(c) PROVE conn[s[1]] = "open" /\ proc[Machine(s)] = "up"
  <2>1. ~Fail(c) /\ s = Current(c) /\ proc[vm_id[c]] = "up"
    BY <1>6, <1>0, ConnectEffect DEF Only, Fail
  <2>2. shells[c] # <<>> /\ conn[c] = "open"
    BY <1>6 DEF ShellConnect, ShellsConsistent
  <2>3. s[1] = c
    BY <2>1, <2>2, CurrentConsole
  <2> QED
    BY <2>1, <2>2, <2>3 DEF Machine
<1>7. ASSUME NEW c \in Conn, ShellAttach(c) PROVE conn[s[1]] = "open" /\ proc[Machine(s)] = "up"
  BY <1>7, <1>0, AttachEffect DEF Only, GuestKept
<1>8. ASSUME NEW c \in Conn, ShellRefused(c) PROVE conn[s[1]] = "open" /\ proc[Machine(s)] = "up"
  BY <1>8, <1>0 DEF ShellRefused, Fail
<1>9. ASSUME NEW c \in Conn, Disconnect(c) PROVE conn[s[1]] = "open" /\ proc[Machine(s)] = "up"
  BY <1>9, <1>0 DEF Disconnect, Fail
<1>10. ASSUME NEW t \in Console, Writer(t) PROVE conn[s[1]] = "open" /\ proc[Machine(s)] = "up"
  BY <1>10, <1>0, WriterEffect DEF Only, GuestKept
<1>11. ASSUME NEW t \in Console, ReaderCopies(t) PROVE conn[s[1]] = "open" /\ proc[Machine(s)] = "up"
  BY <1>11, <1>0, CopyEffect DEF Only, GuestKept
<1>12. ASSUME NEW t \in Console, ReaderEnds(t) PROVE conn[s[1]] = "open" /\ proc[Machine(s)] = "up"
  BY <1>12, <1>0, EndEffect DEF Only, GuestKept
<1>13. ASSUME NEW t \in Console, GuestAccepts(t) PROVE conn[s[1]] = "open" /\ proc[Machine(s)] = "up"
  BY <1>13, <1>0, GuestEffect DEF GuestAccepts, Guest, Only
<1>14. ASSUME NEW t \in Console, GuestRefuses(t) PROVE conn[s[1]] = "open" /\ proc[Machine(s)] = "up"
  BY <1>14, <1>0, GuestEffect DEF GuestRefuses, Guest, Only
<1>15. ASSUME NEW t \in Console, GuestHangsUp(t) PROVE conn[s[1]] = "open" /\ proc[Machine(s)] = "up"
  BY <1>15, <1>0, GuestEffect DEF GuestHangsUp, Guest, Only
<1>16. ASSUME NEW t \in Console, GuestWrites(t) PROVE conn[s[1]] = "open" /\ proc[Machine(s)] = "up"
  BY <1>16, <1>0, WriteEffect DEF Only, GuestKept
<1>17. CASE Machines
  BY <1>17, <1>0 DEF Machines, consoleVars
<1>18. CASE UNCHANGED vars
  BY <1>18, <1>0 DEF vars
<1> QED
  BY <1>1, <1>2, <1>3, <1>4, <1>5, <1>6, <1>7, <1>8, <1>9, <1>10,
    <1>11, <1>12, <1>13, <1>14, <1>15, <1>16, <1>17, <1>18
    DEF Next, ShellStep, vars

LEMMA LoginComes ==
  ASSUME TypeOK, ShellsConsistent, [Next]_vars, NEW c \in Conn, conn[c] = "new", conn'[c] # "new"
  PROVE  \E v \in Vm : AuthPublickey(c, v)
<1> DEFINE Comes == \E v \in Vm : AuthPublickey(c, v)
<1>0. conn[c] = "new" /\ conn'[c] # "new"
  OBVIOUS
<1> HIDE DEF Comes
<1>1. ASSUME NEW d \in Conn, NEW v \in Vm, AuthPublickey(d, v) PROVE Comes
  BY <1>1, <1>0 DEF AuthPublickey, Comes, TypeOK
<1>2. ASSUME NEW d \in Conn, NEW ch \in Channel, ShellRequest(d, ch) PROVE Comes
  BY <1>2, <1>0 DEF ShellRequest, TypeOK
<1>3. ASSUME NEW d \in Conn, NEW ch \in Channel, Data(d, ch) PROVE Comes
  BY <1>3, <1>0 DEF Data, TypeOK
<1>4. ASSUME NEW d \in Conn, ChannelOpenSession(d) PROVE Comes
  BY <1>4, <1>0 DEF ChannelOpenSession, TypeOK
<1>5. ASSUME NEW d \in Conn, ShellLookup(d) PROVE Comes
  BY <1>5, <1>0 DEF ShellLookup, Fail, Close, ShellsConsistent, TypeOK
<1>6. ASSUME NEW d \in Conn, ShellConnect(d) PROVE Comes
  BY <1>6, <1>0 DEF ShellConnect, Fail, Close, ShellsConsistent, TypeOK
<1>7. ASSUME NEW d \in Conn, ShellAttach(d) PROVE Comes
  BY <1>7, <1>0 DEF ShellAttach, TypeOK
<1>8. ASSUME NEW d \in Conn, ShellRefused(d) PROVE Comes
  BY <1>8, <1>0 DEF ShellRefused, Fail, Close, ShellsConsistent, TypeOK
<1>9. ASSUME NEW d \in Conn, Disconnect(d) PROVE Comes
  BY <1>9, <1>0 DEF Disconnect, Ready, Fail, Close, TypeOK
<1>10. ASSUME NEW t \in Console, Writer(t) PROVE Comes
  BY <1>10, <1>0 DEF Writer, TypeOK
<1>11. ASSUME NEW t \in Console, ReaderCopies(t) PROVE Comes
  BY <1>11, <1>0 DEF ReaderCopies, Shows, TypeOK
<1>12. ASSUME NEW t \in Console, ReaderEnds(t) PROVE Comes
  BY <1>12, <1>0 DEF ReaderEnds, TypeOK
<1>13. ASSUME NEW t \in Console, GuestAccepts(t) PROVE Comes
  BY <1>13, <1>0 DEF GuestAccepts, Guest, TypeOK
<1>14. ASSUME NEW t \in Console, GuestRefuses(t) PROVE Comes
  BY <1>14, <1>0 DEF GuestRefuses, Guest, TypeOK
<1>15. ASSUME NEW t \in Console, GuestHangsUp(t) PROVE Comes
  BY <1>15, <1>0 DEF GuestHangsUp, Guest, TypeOK
<1>16. ASSUME NEW t \in Console, GuestWrites(t) PROVE Comes
  BY <1>16, <1>0 DEF GuestWrites, TypeOK
<1>17. CASE Machines
  BY <1>17, <1>0 DEF Machines, consoleVars
<1>18. CASE UNCHANGED vars
  BY <1>18, <1>0 DEF vars
<1>q. Comes
  BY <1>1, <1>2, <1>3, <1>4, <1>5, <1>6, <1>7, <1>8, <1>9, <1>10,
    <1>11, <1>12, <1>13, <1>14, <1>15, <1>16, <1>17, <1>18
    DEF Next, ShellStep, vars
<1> QED
  BY <1>q DEF Comes

LEMMA AuthorizedStep ==
  ASSUME TypeOK, ShellsConsistent, AttachedOnce, Authorized, [Next]_vars
  PROVE  Authorized'
<1>1. ASSUME NEW c \in Conn PROVE LoggedIn(c)'
  <2>1. CASE conn[c] # "new"
    BY <2>1, LoginKept, MachineMoves DEF Authorized, LoggedIn
  <2>2. ASSUME conn[c] = "new", conn'[c] # "new" PROVE LoggedIn(c)'
    <3>1. PICK v \in Vm : AuthPublickey(c, v)
      BY <2>2, LoginComes
    <3> QED
      BY <3>1 DEF AuthPublickey, LoggedIn, TypeOK
  <2>3. CASE conn'[c] = "new"
    BY <2>3 DEF LoggedIn
  <2> QED
    BY <2>1, <2>2, <2>3
<1>2. ASSUME NEW s \in Console PROVE Backed(s)'
  <2>1. CASE console[s].guest # "none"
    <3>1. conn[s[1]] # "new" /\ proc[Machine(s)] \in {"up", "ended"} /\ vm_id[s[1]] \in Vm
      BY <2>1 DEF Authorized, Backed, LoggedIn
    <3> QED
      BY <3>1, LoginKept, MachineMoves DEF Backed, Machine
  <2>2. ASSUME console[s].guest = "none", console'[s].guest # "none" PROVE Backed(s)'
    <3>1. conn[s[1]] = "open" /\ proc[Machine(s)] = "up"
      BY <2>2, GuestDialed
    <3>2. vm_id[s[1]] \in Vm
      BY <3>1 DEF Authorized, LoggedIn
    <3> QED
      BY <3>1, <3>2, LoginKept, MachineMoves DEF Backed, Machine
  <2>3. CASE console'[s].guest = "none"
    BY <2>3 DEF Backed
  <2> QED
    BY <2>1, <2>2, <2>3
<1> QED
  BY <1>1, <1>2 DEF Authorized

LEMMA TakeKeepsChunks ==
  ASSUME NEW S, NEW g \in Seq(S), NEW q \in Seq(S), q # <<>>
  PROVE  Append(g, Head(q)) \o Tail(q) = g \o q
<1>1. Head(q) = q[1] /\ Len(q) \in 1 .. Len(q) /\ Len(q) \in Nat
  BY NonEmpty
<1> QED
  BY <1>1

LEMMA AppendToChunks ==
  ASSUME NEW S, NEW g \in Seq(S), NEW q \in Seq(S), NEW x
  PROVE  g \o Append(q, x) = Append(g \o q, x)
OBVIOUS

LEMMA RunGrows ==
  ASSUME NEW S, NEW q \in Seq(S), NEW x, NEW n \in Nat,
         \A i \in 1 .. Len(q) - 1 : q[i + 1][2] = q[i][2] + 1,
         q # <<>> => q[Len(q)][2] = n,
         x[2] = n + 1
  PROVE  /\ \A i \in 1 .. Len(Append(q, x)) - 1 : Append(q, x)[i + 1][2] = Append(q, x)[i][2] + 1
         /\ Append(q, x)[Len(Append(q, x))][2] = n + 1
<1>1. /\ Len(q) \in Nat /\ Len(Append(q, x)) = Len(q) + 1 /\ Append(q, x)[Len(q) + 1] = x
      /\ \A i \in 1 .. Len(q) : Append(q, x)[i] = q[i]
  OBVIOUS
<1>2. Len(q) # 0 => q # <<>>
  OBVIOUS
<1>3. ASSUME NEW i \in 1 .. Len(q) PROVE Append(q, x)[i + 1][2] = Append(q, x)[i][2] + 1
  <2>1. CASE i = Len(q)
    BY <1>1, <1>2, <2>1
  <2>2. CASE i # Len(q)
    <3>1. i \in 1 .. Len(q) - 1 /\ i + 1 \in 1 .. Len(q)
      BY <1>1, <2>2
    <3> QED
      BY <1>1, <3>1
  <2> QED
    BY <2>1, <2>2
<1> QED
  BY <1>1, <1>3

LEMMA InputFrame ==
  ASSUME NEW s \in Console, InputRun(s), console'[s] = console[s] \/ InputKept(s),
         sent'[s[1]] = sent[s[1]], Fed(s)' => Fed(s)
  PROVE  InputRun(s)'
<1>1. InputKept(s)
  BY DEF InputKept
<1>2. Chunks(s)' = Chunks(s)
  BY <1>1 DEF InputKept, Chunks
<1> QED
  BY <1>1, <1>2 DEF InputRun, InputKept

(* A console that is closed with its sender is fed by nobody.              *)
LEMMA InputFail ==
  ASSUME TypeOK, NEW c \in Conn, NEW s \in Console, InputRun(s), Fail(c)
  PROVE  InputRun(s)'
<1>1. s[2] # 0
  BY Bounds
<1>2. UNCHANGED <<console, sent>> /\ uds_writer' = [uds_writer EXCEPT ![c] = 0]
  BY DEF Fail, Close
<1>3. Fed(s)' => Fed(s)
  BY <1>1, <1>2 DEF Fed, TypeOK
<1> QED
  BY <1>2, <1>3, InputFrame

LEMMA InputStep ==
  ASSUME TypeOK, ShellsConsistent, AttachedOnce, [Next]_vars, NEW s \in Console, InputRun(s)
  PROVE  InputRun(s)'
<1>1. ASSUME NEW c \in Conn, NEW v \in Vm, AuthPublickey(c, v) PROVE InputRun(s)'
  BY <1>1, InputFrame DEF AuthPublickey, InputKept, Fed
<1>2. ASSUME NEW c \in Conn, NEW ch \in Channel, ShellRequest(c, ch) PROVE InputRun(s)'
  BY <1>2, InputFrame DEF ShellRequest, InputKept, Fed
<1>3. ASSUME NEW c \in Conn, NEW ch \in Channel, Data(c, ch) PROVE InputRun(s)'
  <2>1. UNCHANGED uds_writer /\ sent' = [sent EXCEPT ![c] = sent[c] + 1] /\ sent[c] \in Nat
    <3>1. sent[c] \in Nat
      BY Bounds DEF TypeOK
    <3> QED
      BY <1>3, <3>1 DEF Data
  <2>2. CASE console'[s] = console[s] /\ (s[1] # c \/ ~Fed(s) \/ console[s].writer # "waiting")
    <3>1. s[1] # c => sent'[s[1]] = sent[s[1]]
      BY <2>1 DEF TypeOK
    <3> QED
      BY <2>1, <2>2, <3>1 DEF InputRun, Chunks, Fed
  <2>3. CASE /\ s[1] = c /\ Fed(s) /\ console[s].writer = "waiting"
             /\ console'[s].got = console[s].got
             /\ console'[s].queue = Append(console[s].queue, <<ch, sent[c] + 1>>)
    <3>1. console[s].got \in Seq(Input) /\ console[s].queue \in Seq(Input)
      BY DEF TypeOK, ConsoleRecord
    <3>2. Chunks(s)' = Append(Chunks(s), <<ch, sent[c] + 1>>)
      <4>1. PICK x : x = <<ch, sent[c] + 1>>
        OBVIOUS
      <4>2. PICK g \in Seq(Input), q \in Seq(Input) : g = console[s].got /\ q = console[s].queue
        BY <3>1
      <4>3. g \o Append(q, x) = Append(g \o q, x)
        BY AppendToChunks
      <4> QED
        BY <2>3, <4>1, <4>2, <4>3 DEF Chunks
    <3>3. Chunks(s) \in Seq(Input)
      BY <3>1 DEF Chunks
    <3>4. sent'[s[1]] = sent[c] + 1
      BY <2>1, <2>3 DEF TypeOK
    <3>5. PICK q \in Seq(Input) : q = Chunks(s)
      BY <3>3
    <3>6. PICK x : x = <<ch, sent[c] + 1>>
      OBVIOUS
    <3>7. /\ \A i \in 1 .. Len(q) - 1 : q[i + 1][2] = q[i][2] + 1
          /\ q # <<>> => q[Len(q)][2] = sent[c]
      BY <2>3, <3>5 DEF InputRun
    <3>8. /\ \A i \in 1 .. Len(Append(q, x)) - 1 : Append(q, x)[i + 1][2] = Append(q, x)[i][2] + 1
          /\ Append(q, x)[Len(Append(q, x))][2] = sent[c] + 1
      BY <2>1, <3>6, <3>7, RunGrows
    <3> QED
      BY <3>2, <3>4, <3>5, <3>6, <3>8 DEF InputRun
  <2>4. \/ console'[s] = console[s] /\ (s[1] # c \/ ~Fed(s) \/ console[s].writer # "waiting")
        \/ /\ s[1] = c /\ Fed(s) /\ console[s].writer = "waiting"
           /\ console'[s].got = console[s].got
           /\ console'[s].queue = Append(console[s].queue, <<ch, sent[c] + 1>>)
    <3>1. s = <<s[1], s[2]>> /\ s[2] # 0
      BY Bounds
    <3>2. s[1] = c /\ Fed(s) => s = <<c, uds_writer[c]>> /\ uds_writer[c] # 0
      BY <3>1 DEF Fed
    <3>3. \A t \in Console : t = <<c, uds_writer[c]>> => t[1] = c /\ Fed(t)
      BY DEF Fed
    <3>4. CASE console' = console /\ ~(uds_writer[c] # 0 /\ console[<<c, uds_writer[c]>>].writer = "waiting")
      BY <3>2, <3>4
    <3>5. ASSUME NEW t \in Console, t = <<c, uds_writer[c]>>, console[t].writer = "waiting",
                 Only(t), console'[t].got = console[t].got,
                 console'[t].queue = Append(console[t].queue, <<ch, sent[c] + 1>>)
          PROVE  \/ console'[s] = console[s] /\ (s[1] # c \/ ~Fed(s) \/ console[s].writer # "waiting")
                 \/ /\ s[1] = c /\ Fed(s) /\ console[s].writer = "waiting"
                    /\ console'[s].got = console[s].got
                    /\ console'[s].queue = Append(console[s].queue, <<ch, sent[c] + 1>>)
      <4>1. CASE s = t
        BY <3>3, <3>5, <4>1
      <4>2. CASE s # t
        BY <3>2, <3>5, <4>2 DEF Only
      <4> QED
        BY <4>1, <4>2
    <3> QED
      BY <1>3, <3>4, <3>5, DataEffect
  <2> QED
    BY <2>2, <2>3, <2>4
<1>4. ASSUME NEW c \in Conn, ChannelOpenSession(c) PROVE InputRun(s)'
  BY <1>4, InputFrame DEF ChannelOpenSession, InputKept, Fed
<1>5. ASSUME NEW c \in Conn, ShellLookup(c) PROVE InputRun(s)'
  <2>1. CASE Fail(c)
    BY <2>1, InputFail
  <2>2. CASE ~Fail(c)
    BY <1>5, <2>2, InputFrame DEF ShellLookup, InputKept, Fed
  <2> QED
    BY <2>1, <2>2
<1>6. ASSUME NEW c \in Conn, ShellConnect(c) PROVE InputRun(s)'
  <2>1. CASE Fail(c)
    BY <2>1, InputFail
  <2>2. CASE ~Fail(c)
    BY <1>6, <2>2, ConnectEffect, InputFrame DEF Only, InputKept, Fed
  <2> QED
    BY <2>1, <2>2
<1>7. ASSUME NEW c \in Conn, ShellAttach(c) PROVE InputRun(s)'
  <2>1. Current(c) \in Console /\ Current(c)[1] = c /\ handler[c] = "handshake"
    BY <1>7, CurrentConsole DEF ShellAttach, ShellsConsistent
  <2>2. CASE s = Current(c)
    <3>1. console[s].queue = <<>> /\ console[s].got = <<>>
      BY <2>1, <2>2 DEF AttachedOnce, Unattached
    <3>2. console'[s].queue = <<>> /\ console'[s].got = <<>>
      BY <1>7, <2>2, <3>1, AttachEffect
    <3>3. Chunks(s)' = <<>>
      BY <3>2 DEF Chunks
    <3>4. Len(Chunks(s)') = 0
      BY <3>3
    <3> QED
      BY <3>3, <3>4 DEF InputRun
  <2>3. CASE s # Current(c)
    <3>1. console'[s] = console[s] /\ sent' = sent
      BY <1>7, <2>3, AttachEffect DEF Only, ShellAttach
    <3>2. Fed(s)' => Fed(s)
      <4>1. uds_writer' = [uds_writer EXCEPT ![c] = Current(c)[2]]
        BY <1>7 DEF ShellAttach
      <4>2. CASE s[1] = c
        <5>1. s = <<s[1], s[2]>> /\ Current(c) = <<c, Current(c)[2]>>
          BY <2>1
        <5>2. s[2] # Current(c)[2]
          BY <2>3, <4>2, <5>1
        <5>3. uds_writer'[c] = Current(c)[2]
          BY <4>1 DEF TypeOK
        <5> QED
          BY <4>2, <5>2, <5>3 DEF Fed
      <4>3. CASE s[1] # c
        BY <4>1, <4>3 DEF Fed, TypeOK
      <4> QED
        BY <4>2, <4>3
    <3> QED
      BY <3>1, <3>2, InputFrame DEF InputKept
  <2> QED
    BY <2>2, <2>3
<1>8. ASSUME NEW c \in Conn, ShellRefused(c) PROVE InputRun(s)'
  BY <1>8, InputFail DEF ShellRefused
<1>9. ASSUME NEW c \in Conn, Disconnect(c) PROVE InputRun(s)'
  BY <1>9, InputFail DEF Disconnect
<1>10. ASSUME NEW t \in Console, Writer(t) PROVE InputRun(s)'
  <2>1. UNCHANGED <<uds_writer, sent>> /\ (Fed(s)' <=> Fed(s))
    BY <1>10 DEF Writer, Fed
  <2>2. CASE s # t
    BY <1>10, <2>1, <2>2, WriterEffect, InputFrame DEF Only, InputKept
  <2>3. CASE s = t
    <3>1. console[s].got \in Seq(Input) /\ console[s].queue \in Seq(Input)
      BY DEF TypeOK, ConsoleRecord
    <3>2. CASE console'[s].got = console[s].got /\ console'[s].queue = console[s].queue
      <4>1. Chunks(s)' = Chunks(s)
        BY <3>2 DEF Chunks
      <4> QED
        BY <1>10, <2>1, <2>3, <4>1, WriterEffect DEF InputRun
    <3>3. CASE /\ console[s].queue # <<>>
               /\ console'[s].got = Append(console[s].got, Head(console[s].queue))
               /\ console'[s].queue = Tail(console[s].queue)
      <4>1. Chunks(s)' = Chunks(s)
        BY <3>1, <3>3, TakeKeepsChunks DEF Chunks
      <4> QED
        BY <1>10, <2>1, <2>3, <4>1, WriterEffect DEF InputRun
    <3> QED
      BY <1>10, <2>3, <3>2, <3>3, WriterEffect
  <2> QED
    BY <2>2, <2>3
<1>11. ASSUME NEW t \in Console, ReaderCopies(t) PROVE InputRun(s)'
  <2>1. UNCHANGED <<uds_writer, sent>> /\ InputKept(s)
    BY <1>11, CopyEffect DEF ReaderCopies, Shows, Only, InputKept
  <2> QED
    BY <2>1, InputFrame DEF Fed
<1>12. ASSUME NEW t \in Console, ReaderEnds(t) PROVE InputRun(s)'
  <2>1. UNCHANGED <<uds_writer, sent>> /\ InputKept(s)
    BY <1>12, EndEffect DEF ReaderEnds, Only, InputKept
  <2> QED
    BY <2>1, InputFrame DEF Fed
<1>13. ASSUME NEW t \in Console, GuestAccepts(t) PROVE InputRun(s)'
  <2>1. UNCHANGED <<uds_writer, sent>> /\ InputKept(s)
    BY <1>13, GuestEffect DEF GuestAccepts, Guest, Only, InputKept
  <2> QED
    BY <2>1, InputFrame DEF Fed
<1>14. ASSUME NEW t \in Console, GuestRefuses(t) PROVE InputRun(s)'
  <2>1. UNCHANGED <<uds_writer, sent>> /\ InputKept(s)
    BY <1>14, GuestEffect DEF GuestRefuses, Guest, Only, InputKept
  <2> QED
    BY <2>1, InputFrame DEF Fed
<1>15. ASSUME NEW t \in Console, GuestHangsUp(t) PROVE InputRun(s)'
  <2>1. UNCHANGED <<uds_writer, sent>> /\ InputKept(s)
    BY <1>15, GuestEffect DEF GuestHangsUp, Guest, Only, InputKept
  <2> QED
    BY <2>1, InputFrame DEF Fed
<1>16. ASSUME NEW t \in Console, GuestWrites(t) PROVE InputRun(s)'
  <2>1. UNCHANGED <<uds_writer, sent>> /\ InputKept(s)
    BY <1>16, WriteEffect DEF GuestWrites, Only, InputKept
  <2> QED
    BY <2>1, InputFrame DEF Fed
<1>17. CASE Machines
  BY <1>17, InputFrame DEF Machines, consoleVars, InputKept, Fed
<1>18. CASE UNCHANGED vars
  BY <1>18, InputFrame DEF vars, InputKept, Fed
<1> QED
  BY <1>1, <1>2, <1>3, <1>4, <1>5, <1>6, <1>7, <1>8, <1>9, <1>10,
    <1>11, <1>12, <1>13, <1>14, <1>15, <1>16, <1>17, <1>18
    DEF Next, ShellStep, vars

LEMMA ChannelKept ==
  ASSUME TypeOK, ShellsConsistent, AttachedOnce, [Next]_vars, NEW s \in Console
  PROVE  console'[s].channel = console[s].channel \/ console[s].channel = 0
<1>1. ASSUME NEW c \in Conn, NEW v \in Vm, AuthPublickey(c, v) PROVE console'[s].channel = console[s].channel \/ console[s].channel = 0
  BY <1>1 DEF AuthPublickey
<1>2. ASSUME NEW c \in Conn, NEW ch \in Channel, ShellRequest(c, ch) PROVE console'[s].channel = console[s].channel \/ console[s].channel = 0
  BY <1>2 DEF ShellRequest
<1>3. ASSUME NEW c \in Conn, NEW ch \in Channel, Data(c, ch) PROVE console'[s].channel = console[s].channel \/ console[s].channel = 0
  BY <1>3, DataKeeps DEF OutputKept
<1>4. ASSUME NEW c \in Conn, ChannelOpenSession(c) PROVE console'[s].channel = console[s].channel \/ console[s].channel = 0
  BY <1>4 DEF ChannelOpenSession
<1>5. ASSUME NEW c \in Conn, ShellLookup(c) PROVE console'[s].channel = console[s].channel \/ console[s].channel = 0
  BY <1>5 DEF ShellLookup, Fail
<1>6. ASSUME NEW c \in Conn, ShellConnect(c) PROVE console'[s].channel = console[s].channel \/ console[s].channel = 0
  BY <1>6, ConnectEffect DEF Only, Fail, OutputKept, InputKept
<1>7. ASSUME NEW c \in Conn, ShellAttach(c) PROVE console'[s].channel = console[s].channel \/ console[s].channel = 0
  <2>1. CASE s = Current(c)
    <3>1. Current(c) \in Console /\ Current(c)[1] = c /\ handler[c] = "handshake"
      BY <1>7, CurrentConsole DEF ShellAttach, ShellsConsistent
    <3>2. console[s].writer = "none"
      BY <2>1, <3>1 DEF AttachedOnce, Unattached
    <3> QED
      BY <3>2 DEF AttachedOnce, Unattached
  <2>2. CASE s # Current(c)
    BY <1>7, <2>2, AttachEffect DEF Only
  <2> QED
    BY <2>1, <2>2
<1>8. ASSUME NEW c \in Conn, ShellRefused(c) PROVE console'[s].channel = console[s].channel \/ console[s].channel = 0
  BY <1>8 DEF ShellRefused, Fail
<1>9. ASSUME NEW c \in Conn, Disconnect(c) PROVE console'[s].channel = console[s].channel \/ console[s].channel = 0
  BY <1>9 DEF Disconnect, Fail
<1>10. ASSUME NEW t \in Console, Writer(t) PROVE console'[s].channel = console[s].channel \/ console[s].channel = 0
  BY <1>10, WriterEffect DEF Writer, Only, OutputKept, InputKept, GuestKept
<1>11. ASSUME NEW t \in Console, ReaderCopies(t) PROVE console'[s].channel = console[s].channel \/ console[s].channel = 0
  BY <1>11, CopyEffect DEF ReaderCopies, Only, OutputKept, InputKept, GuestKept
<1>12. ASSUME NEW t \in Console, ReaderEnds(t) PROVE console'[s].channel = console[s].channel \/ console[s].channel = 0
  BY <1>12, EndEffect DEF ReaderEnds, Only, OutputKept, InputKept, GuestKept
<1>13. ASSUME NEW t \in Console, GuestAccepts(t) PROVE console'[s].channel = console[s].channel \/ console[s].channel = 0
  BY <1>13, GuestEffect DEF GuestAccepts, Guest, Only, OutputKept, InputKept, GuestKept
<1>14. ASSUME NEW t \in Console, GuestRefuses(t) PROVE console'[s].channel = console[s].channel \/ console[s].channel = 0
  BY <1>14, GuestEffect DEF GuestRefuses, Guest, Only, OutputKept, InputKept, GuestKept
<1>15. ASSUME NEW t \in Console, GuestHangsUp(t) PROVE console'[s].channel = console[s].channel \/ console[s].channel = 0
  BY <1>15, GuestEffect DEF GuestHangsUp, Guest, Only, OutputKept, InputKept, GuestKept
<1>16. ASSUME NEW t \in Console, GuestWrites(t) PROVE console'[s].channel = console[s].channel \/ console[s].channel = 0
  BY <1>16, WriteEffect DEF GuestWrites, Only, OutputKept, InputKept, GuestKept
<1>17. CASE Machines
  BY <1>17 DEF Machines, consoleVars
<1>18. CASE UNCHANGED vars
  BY <1>18 DEF vars
<1> QED
  BY <1>1, <1>2, <1>3, <1>4, <1>5, <1>6, <1>7, <1>8, <1>9, <1>10,
    <1>11, <1>12, <1>13, <1>14, <1>15, <1>16, <1>17, <1>18
    DEF Next, ShellStep, vars

LEMMA ClosedGuestKept ==
  ASSUME TypeOK, ShellsConsistent, AttachedOnce, [Next]_vars, NEW s \in Console,
         console[s].guest \in {"refused", "hungup"}
  PROVE  console'[s].guest \in {"refused", "hungup"}
<1>0. console[s].guest \in {"refused", "hungup"}
  OBVIOUS
<1>1. ASSUME NEW c \in Conn, NEW v \in Vm, AuthPublickey(c, v) PROVE console'[s].guest \in {"refused", "hungup"}
  BY <1>1, <1>0 DEF AuthPublickey
<1>2. ASSUME NEW c \in Conn, NEW ch \in Channel, ShellRequest(c, ch) PROVE console'[s].guest \in {"refused", "hungup"}
  BY <1>2, <1>0 DEF ShellRequest
<1>3. ASSUME NEW c \in Conn, NEW ch \in Channel, Data(c, ch) PROVE console'[s].guest \in {"refused", "hungup"}
  <2>1. console'[s].guest = console[s].guest
    BY <1>3, DataKeeps DEF GuestKept
  <2> QED
    BY <1>0, <2>1
<1>4. ASSUME NEW c \in Conn, ChannelOpenSession(c) PROVE console'[s].guest \in {"refused", "hungup"}
  BY <1>4, <1>0 DEF ChannelOpenSession
<1>5. ASSUME NEW c \in Conn, ShellLookup(c) PROVE console'[s].guest \in {"refused", "hungup"}
  BY <1>5, <1>0 DEF ShellLookup, Fail
<1>6. ASSUME NEW c \in Conn, ShellConnect(c) PROVE console'[s].guest \in {"refused", "hungup"}
  <2>1. CASE Fail(c)
    BY <1>0, <2>1 DEF Fail
  <2>2. CASE ~Fail(c) /\ s = Current(c)
    <3>1. handler[c] = "connect" /\ shells[c] # <<>>
      BY <1>6 DEF ShellConnect, ShellsConsistent
    <3>2. s[1] = c /\ s[2] = shells[c][Len(shells[c])] /\ Len(shells[c]) \in 1 .. Len(shells[c])
      BY <2>2, <3>1, CurrentConsole, NonEmpty DEF TypeOK
    <3>3. \A i, j \in 1 .. Len(shells[c]) : shells[c][i] = shells[c][j] => i = j
      BY DEF ShellsConsistent
    <3>4. Dialed(s) /\ console[s].guest # "none"
      BY <1>0 DEF AttachedOnce
    <3>5. PICK i \in 1 .. Len(shells[c]) :
            /\ shells[c][i] = s[2]
            /\ i = Len(shells[c]) => handler[c] \in {"idle", "handshake"}
      BY <3>2, <3>4 DEF Dialed
    <3>6. i = Len(shells[c])
      BY <3>2, <3>3, <3>5
    <3> QED
      BY <3>1, <3>5, <3>6
  <2>3. CASE ~Fail(c) /\ s # Current(c)
    BY <1>6, <1>0, <2>3, ConnectEffect DEF Only
  <2> QED
    BY <2>1, <2>2, <2>3
<1>7. ASSUME NEW c \in Conn, ShellAttach(c) PROVE console'[s].guest \in {"refused", "hungup"}
  BY <1>7, <1>0, AttachEffect DEF ShellAttach, Only, OutputKept, InputKept, GuestKept
<1>8. ASSUME NEW c \in Conn, ShellRefused(c) PROVE console'[s].guest \in {"refused", "hungup"}
  BY <1>8, <1>0 DEF ShellRefused, Fail
<1>9. ASSUME NEW c \in Conn, Disconnect(c) PROVE console'[s].guest \in {"refused", "hungup"}
  BY <1>9, <1>0 DEF Disconnect, Fail
<1>10. ASSUME NEW t \in Console, Writer(t) PROVE console'[s].guest \in {"refused", "hungup"}
  BY <1>10, <1>0, WriterEffect DEF Only, GuestKept
<1>11. ASSUME NEW t \in Console, ReaderCopies(t) PROVE console'[s].guest \in {"refused", "hungup"}
  BY <1>11, <1>0, CopyEffect DEF ReaderCopies, Only, OutputKept, InputKept, GuestKept
<1>12. ASSUME NEW t \in Console, ReaderEnds(t) PROVE console'[s].guest \in {"refused", "hungup"}
  BY <1>12, <1>0, EndEffect DEF ReaderEnds, Only, OutputKept, InputKept, GuestKept
<1>13. ASSUME NEW t \in Console, GuestAccepts(t) PROVE console'[s].guest \in {"refused", "hungup"}
  BY <1>13, <1>0, GuestEffect DEF GuestAccepts, Guest, Only
<1>14. ASSUME NEW t \in Console, GuestRefuses(t) PROVE console'[s].guest \in {"refused", "hungup"}
  BY <1>14, <1>0, GuestEffect DEF GuestRefuses, Guest, Only
<1>15. ASSUME NEW t \in Console, GuestHangsUp(t) PROVE console'[s].guest \in {"refused", "hungup"}
  BY <1>15, <1>0, GuestEffect DEF GuestHangsUp, Guest, Only
<1>16. ASSUME NEW t \in Console, GuestWrites(t) PROVE console'[s].guest \in {"refused", "hungup"}
  BY <1>16, <1>0, WriteEffect DEF GuestWrites, Only, OutputKept, InputKept, GuestKept
<1>17. CASE Machines
  BY <1>17, <1>0 DEF Machines, consoleVars
<1>18. CASE UNCHANGED vars
  BY <1>18, <1>0 DEF vars
<1> QED
  BY <1>1, <1>2, <1>3, <1>4, <1>5, <1>6, <1>7, <1>8, <1>9, <1>10,
    <1>11, <1>12, <1>13, <1>14, <1>15, <1>16, <1>17, <1>18
    DEF Next, ShellStep, vars

LEMMA AttachedFacts ==
  ASSUME TypeOK, AttachedOnce, Authorized, NEW s \in Console, console[s].reader # "none"
  PROVE  /\ console[s].guest # "none" /\ console[s].channel \in Channel /\ console[s].channel # 0
         /\ conn[s[1]] # "new" /\ vm_id[s[1]] \in Vm /\ proc[Machine(s)] \in {"up", "ended"}
<1>1. console[s].guest # "none" /\ console[s].channel \in Channel
  BY DEF AttachedOnce, Unattached
<1>2. conn[s[1]] # "new" /\ proc[Machine(s)] \in {"up", "ended"}
  BY <1>1 DEF Authorized, Backed
<1>3. vm_id[s[1]] \in Vm
  BY <1>2 DEF Authorized, LoggedIn
<1> QED
  BY <1>1, <1>2, <1>3, Bounds

LEMMA PeerClosedKept ==
  ASSUME TypeOK, ShellsConsistent, AttachedOnce, Authorized, [Next]_vars, NEW s \in Console,
         console[s].reader # "none", PeerClosed(s)
  PROVE  PeerClosed(s)'
<1>1. CASE console[s].guest \in {"refused", "hungup"}
  BY <1>1, ClosedGuestKept DEF PeerClosed
<1>2. CASE ~Up(Machine(s))
  <2>1. proc[vm_id[s[1]]] = "ended" /\ vm_id[s[1]] \in Vm /\ conn[s[1]] # "new"
    BY <1>2, AttachedFacts DEF Up, Machine
  <2>2. proc'[vm_id[s[1]]] = "ended" /\ vm_id'[s[1]] = vm_id[s[1]]
    BY <2>1, MachineMoves, LoginKept
  <2> QED
    BY <2>2 DEF PeerClosed, Up, Machine
<1> QED
  BY <1>1, <1>2 DEF PeerClosed

LEMMA AloneKept ==
  ASSUME TypeOK, ShellsConsistent, AttachedOnce, Authorized, [Next]_vars, NEW s \in Console,
         console[s].reader # "none", Alone(s)'
  PROVE  Alone(s) /\ console'[s].channel = console[s].channel
<1>1. console[s].channel # 0 /\ console'[s].channel = console[s].channel
  BY AttachedFacts, ChannelKept
<1>2. \A t \in Console : console'[t].channel = console[t].channel \/ console[t].channel = 0
  BY ChannelKept
<1> QED
  BY <1>1, <1>2 DEF Alone

LEMMA SubSeqDrops ==
  ASSUME NEW S, NEW q \in Seq(S), NEW n \in 0 .. Len(q)
  PROVE  /\ Len(SubSeq(q, 1 + n, Len(q))) = Len(q) - n
         /\ \A i \in 1 .. Len(q) - n : SubSeq(q, 1 + n, Len(q))[i] = q[n + i]
OBVIOUS

LEMMA OutputTypes ==
  ASSUME TypeOK, NEW s \in Console
  PROVE  /\ console[s].out \in Seq(1 .. MaxOutput) /\ console[s].said \in Nat
         /\ console[s].missed \in Nat /\ Len(console[s].out) \in Nat
<1>1. console[s] \in ConsoleRecord
  BY DEF TypeOK
<1>2. console[s].out \in Seq(1 .. MaxOutput) /\ console[s].said \in 0 .. MaxOutput
      /\ console[s].missed \in 0 .. MaxOutput
  BY <1>1 DEF ConsoleRecord
<1> QED
  BY <1>2, Bounds, Seqs!LenProperties

LEMMA WaitsStep ==
  ASSUME TypeOK, ShellsConsistent, [Next]_vars, NEW s \in Console, Waits(s)
  PROVE  Waits(s)'
<1>p. PICK o, m : o = console[s].out /\ m = console[s].said
  OBVIOUS
<1>0. /\ o = console[s].out /\ m = console[s].said /\ o \in Seq(1 .. MaxOutput) /\ m \in Nat
      /\ Len(o) <= m
      /\ \A i \in 1 .. Len(o) : o[i] = m - Len(o) + i
  BY <1>p, OutputTypes DEF Waits
<1>n. m \in Nat
  BY <1>0
<1>1. ASSUME NEW c \in Conn, NEW v \in Vm, AuthPublickey(c, v) PROVE Waits(s)'
  <2>1. console'[s].out = console[s].out /\ console'[s].said = console[s].said
    BY <1>1 DEF AuthPublickey
  <2> QED
    BY <2>1 DEF Waits
<1>2. ASSUME NEW c \in Conn, NEW ch \in Channel, ShellRequest(c, ch) PROVE Waits(s)'
  <2>1. console'[s].out = console[s].out /\ console'[s].said = console[s].said
    BY <1>2 DEF ShellRequest
  <2> QED
    BY <2>1 DEF Waits
<1>3. ASSUME NEW c \in Conn, NEW ch \in Channel, Data(c, ch) PROVE Waits(s)'
  <2>1. console'[s].out = console[s].out /\ console'[s].said = console[s].said
    BY <1>3, DataKeeps DEF OutputKept
  <2> QED
    BY <2>1 DEF Waits
<1>4. ASSUME NEW c \in Conn, ChannelOpenSession(c) PROVE Waits(s)'
  <2>1. console'[s].out = console[s].out /\ console'[s].said = console[s].said
    BY <1>4 DEF ChannelOpenSession
  <2> QED
    BY <2>1 DEF Waits
<1>5. ASSUME NEW c \in Conn, ShellLookup(c) PROVE Waits(s)'
  <2>1. console'[s].out = console[s].out /\ console'[s].said = console[s].said
    BY <1>5 DEF ShellLookup, Fail
  <2> QED
    BY <2>1 DEF Waits
<1>6. ASSUME NEW c \in Conn, ShellConnect(c) PROVE Waits(s)'
  <2>1. console'[s].out = console[s].out /\ console'[s].said = console[s].said
    BY <1>6, ConnectEffect DEF Only, OutputKept, Fail
  <2> QED
    BY <2>1 DEF Waits
<1>7. ASSUME NEW c \in Conn, ShellAttach(c) PROVE Waits(s)'
  <2>1. CASE s # Current(c)
    <3>1. console'[s] = console[s]
      BY <1>7, <2>1, AttachEffect DEF Only
    <3> QED
      BY <3>1 DEF Waits
  <2>2. CASE s = Current(c)
    <3>1. PICK n : n = Swallowed(s)
      OBVIOUS
    <3>2. n \in 0 .. Len(o)
      BY <1>0, <3>1, Seqs!LenProperties DEF Swallowed, Least
    <3>3. console'[s].out = SubSeq(o, 1 + n, Len(o)) /\ console'[s].said = m
      BY <1>7, <1>0, <2>2, <3>1, AttachEffect
    <3>4. /\ Len(SubSeq(o, 1 + n, Len(o))) = Len(o) - n
          /\ \A i \in 1 .. Len(o) - n : SubSeq(o, 1 + n, Len(o))[i] = o[n + i]
      BY <1>0, <3>2, SubSeqDrops
    <3>5. PICK k \in Nat : k = Len(o)
      BY <1>0, Seqs!LenProperties
    <3>6. n \in 0 .. k /\ k <= m /\ \A i \in 1 .. k : o[i] = m - k + i
      BY <1>0, <3>2, <3>5
    <3>7. \A i \in 1 .. k - n : o[n + i] = m - (k - n) + i
      <4>1. ASSUME NEW i \in 1 .. k - n PROVE o[n + i] = m - (k - n) + i
        <5>1. n + i \in 1 .. k
          BY <3>6
        <5>2. o[n + i] = m - k + (n + i)
          BY <3>6, <5>1
        <5> QED
          BY <1>0, <3>6, <5>2
      <4> QED
        BY <4>1
    <3>8. PICK r : r = console'[s].out
      OBVIOUS
    <3>9. Len(r) = k - n /\ (\A i \in 1 .. k - n : r[i] = m - (k - n) + i) /\ k - n <= m
      BY <1>0, <3>3, <3>4, <3>5, <3>6, <3>7, <3>8
    <3> QED
      BY <3>3, <3>8, <3>9 DEF Waits
  <2> QED
    BY <2>1, <2>2
<1>8. ASSUME NEW c \in Conn, ShellRefused(c) PROVE Waits(s)'
  <2>1. console'[s].out = console[s].out /\ console'[s].said = console[s].said
    BY <1>8 DEF ShellRefused, Fail
  <2> QED
    BY <2>1 DEF Waits
<1>9. ASSUME NEW c \in Conn, Disconnect(c) PROVE Waits(s)'
  <2>1. console'[s].out = console[s].out /\ console'[s].said = console[s].said
    BY <1>9 DEF Disconnect, Fail
  <2> QED
    BY <2>1 DEF Waits
<1>10. ASSUME NEW t \in Console, Writer(t) PROVE Waits(s)'
  <2>1. console'[s].out = console[s].out /\ console'[s].said = console[s].said
    BY <1>10, WriterEffect DEF Only, OutputKept
  <2> QED
    BY <2>1 DEF Waits
<1>11. ASSUME NEW t \in Console, ReaderCopies(t) PROVE Waits(s)'
  <2>1. CASE s # t
    <3>1. console'[s] = console[s]
      BY <1>11, <2>1, CopyEffect DEF Only
    <3> QED
      BY <3>1 DEF Waits
  <2>2. CASE s = t
    <3>1. o # <<>> /\ console'[s].out = Tail(o) /\ console'[s].said = m
      BY <1>11, <1>0, <2>2, CopyEffect DEF ReaderCopies, Shows
    <3>2. /\ Len(o) \in Nat /\ Len(Tail(o)) = Len(o) - 1
          /\ \A i \in 1 .. Len(o) - 1 : Tail(o)[i] = o[i + 1] /\ i + 1 \in 1 .. Len(o)
      BY <1>0, <3>1
    <3>3. PICK k \in Nat : k = Len(o)
      BY <3>2
    <3>4. k # 0 /\ k <= m /\ \A i \in 1 .. k : o[i] = m - k + i
      BY <1>0, <3>1, <3>3
    <3>6. \A i \in 1 .. k - 1 : o[1 + i] = m - (k - 1) + i
      <4>1. ASSUME NEW i \in 1 .. k - 1 PROVE o[1 + i] = m - (k - 1) + i
        <5>1. PICK j \in 1 .. k : j = 1 + i
          BY <3>4
        <5>2. o[j] = m - k + j
          BY <3>4
        <5>3. o[j] = m - (k - 1) + i
          BY <1>n, <5>1, <5>2
        <5> QED
          BY <5>1, <5>3
      <4> QED
        BY <4>1
    <3>7. PICK r : r = console'[s].out
      OBVIOUS
    <3>8. Len(r) = k - 1 /\ (\A i \in 1 .. k - 1 : r[i] = m - (k - 1) + i) /\ k - 1 <= m
      BY <1>0, <3>1, <3>2, <3>3, <3>4, <3>6, <3>7
    <3> QED
      BY <3>1, <3>7, <3>8 DEF Waits
  <2> QED
    BY <2>1, <2>2
<1>12. ASSUME NEW t \in Console, ReaderEnds(t) PROVE Waits(s)'
  <2>1. console'[s].out = console[s].out /\ console'[s].said = console[s].said
    BY <1>12, EndEffect DEF Only, OutputKept
  <2> QED
    BY <2>1 DEF Waits
<1>13. ASSUME NEW t \in Console, GuestAccepts(t) PROVE Waits(s)'
  <2>1. console'[s].out = console[s].out /\ console'[s].said = console[s].said
    BY <1>13, GuestEffect DEF Only, OutputKept, GuestAccepts
  <2> QED
    BY <2>1 DEF Waits
<1>14. ASSUME NEW t \in Console, GuestRefuses(t) PROVE Waits(s)'
  <2>1. console'[s].out = console[s].out /\ console'[s].said = console[s].said
    BY <1>14, GuestEffect DEF Only, OutputKept, GuestRefuses
  <2> QED
    BY <2>1 DEF Waits
<1>15. ASSUME NEW t \in Console, GuestHangsUp(t) PROVE Waits(s)'
  <2>1. console'[s].out = console[s].out /\ console'[s].said = console[s].said
    BY <1>15, GuestEffect DEF Only, OutputKept, GuestHangsUp
  <2> QED
    BY <2>1 DEF Waits
<1>16. ASSUME NEW t \in Console, GuestWrites(t) PROVE Waits(s)'
  <2>1. CASE s # t
    <3>1. console'[s] = console[s]
      BY <1>16, <2>1, WriteEffect DEF Only
    <3> QED
      BY <3>1 DEF Waits
  <2>2. CASE s = t
    <3>1. console'[s].out = Append(o, m + 1) /\ console'[s].said = m + 1
      BY <1>16, <1>0, <2>2, WriteEffect
    <3>2. /\ Len(o) \in Nat /\ Len(Append(o, m + 1)) = Len(o) + 1
          /\ \A i \in 1 .. Len(o) : Append(o, m + 1)[i] = o[i]
          /\ Append(o, m + 1)[Len(o) + 1] = m + 1
      BY <1>0
    <3>3. PICK k \in Nat : k = Len(o)
      BY <3>2
    <3>4. PICK r : r = console'[s].out
      OBVIOUS
    <3>5. /\ Len(r) = k + 1 /\ r[k + 1] = m + 1 /\ k <= m
          /\ \A i \in 1 .. k : r[i] = m - k + i
      BY <1>0, <3>1, <3>2, <3>3, <3>4
    <3>6. PICK w \in Nat : w = m + 1
      BY <1>n
    <3>7. \A i \in 1 .. k + 1 : r[i] = w - (k + 1) + i
      <4>1. ASSUME NEW i \in 1 .. k + 1 PROVE r[i] = w - (k + 1) + i
        <5>1. CASE i = k + 1
          BY <1>n, <3>5, <3>6, <5>1
        <5>2. CASE i \in 1 .. k
          <6>1. r[i] = m - k + i
            BY <3>5, <5>2
          <6> QED
            BY <1>n, <3>6, <5>2, <6>1
        <5> QED
          BY <5>1, <5>2
      <4> QED
        BY <4>1
    <3>8. Len(r) <= w /\ \A i \in 1 .. Len(r) : r[i] = w - Len(r) + i
      <4>1. k + 1 <= w /\ Len(r) = k + 1
        BY <1>n, <3>5, <3>6
      <4> QED
        BY <3>7, <4>1
    <3>9. console'[s].said = w
      BY <3>1, <3>6
    <3> QED
      BY <3>4, <3>8, <3>9 DEF Waits
  <2> QED
    BY <2>1, <2>2
<1>17. CASE Machines
  <2>1. console'[s].out = console[s].out /\ console'[s].said = console[s].said
    BY <1>17 DEF Machines, consoleVars
  <2> QED
    BY <2>1 DEF Waits
<1>18. CASE UNCHANGED vars
  <2>1. console'[s].out = console[s].out /\ console'[s].said = console[s].said
    BY <1>18 DEF vars
  <2> QED
    BY <2>1 DEF Waits
<1> QED
  BY <1>1, <1>2, <1>3, <1>4, <1>5, <1>6, <1>7, <1>8, <1>9, <1>10,
    <1>11, <1>12, <1>13, <1>14, <1>15, <1>16, <1>17, <1>18
    DEF Next, ShellStep, vars

LEMMA EndsDryFrame ==
  ASSUME TypeOK, ShellsConsistent, AttachedOnce, Authorized, [Next]_vars, NEW s \in Console,
         EndsDry(s), console'[s].reader = "ended", conn'[s[1]] = "open",
         console'[s].reader = console[s].reader, console'[s].out = console[s].out
  PROVE  console'[s].out = <<>> /\ PeerClosed(s)'
<1>1. conn[s[1]] = "open"
  BY AttachedFacts, LoginKept DEF TypeOK
<1> QED
  BY <1>1, PeerClosedKept DEF EndsDry

LEMMA EndsDryStep ==
  ASSUME TypeOK, ShellsConsistent, AttachedOnce, Authorized, [Next]_vars, NEW s \in Console, EndsDry(s)
  PROVE  EndsDry(s)'
<1> DEFINE Dry == console'[s].out = <<>> /\ PeerClosed(s)'
<1>0. SUFFICES ASSUME console'[s].reader = "ended", conn'[s[1]] = "open" PROVE Dry
  BY DEF EndsDry
<1>1. ASSUME NEW c \in Conn, NEW v \in Vm, AuthPublickey(c, v) PROVE Dry
  <2>1. UNCHANGED console
    BY <1>1 DEF AuthPublickey
  <2> QED
    BY <1>0, <2>1, EndsDryFrame
<1>2. ASSUME NEW c \in Conn, NEW ch \in Channel, ShellRequest(c, ch) PROVE Dry
  <2>1. UNCHANGED console
    BY <1>2 DEF ShellRequest
  <2> QED
    BY <1>0, <2>1, EndsDryFrame
<1>3. ASSUME NEW c \in Conn, NEW ch \in Channel, Data(c, ch) PROVE Dry
  <2>1. console'[s].reader = console[s].reader /\ console'[s].out = console[s].out
    BY <1>3, DataKeeps DEF OutputKept
  <2> QED
    BY <1>0, <2>1, EndsDryFrame
<1>4. ASSUME NEW c \in Conn, ChannelOpenSession(c) PROVE Dry
  <2>1. UNCHANGED console
    BY <1>4 DEF ChannelOpenSession
  <2> QED
    BY <1>0, <2>1, EndsDryFrame
<1>5. ASSUME NEW c \in Conn, ShellLookup(c) PROVE Dry
  <2>1. UNCHANGED console
    BY <1>5 DEF ShellLookup, Fail
  <2> QED
    BY <1>0, <2>1, EndsDryFrame
<1>6. ASSUME NEW c \in Conn, ShellConnect(c) PROVE Dry
  <2>1. console'[s].reader = console[s].reader /\ console'[s].out = console[s].out
    BY <1>6, ConnectEffect DEF Only, OutputKept, Fail
  <2> QED
    BY <1>0, <2>1, EndsDryFrame
<1>7. ASSUME NEW c \in Conn, ShellAttach(c) PROVE Dry
  <2>1. CASE s # Current(c)
    <3>1. console'[s] = console[s]
      BY <1>7, <2>1, AttachEffect DEF Only
    <3> QED
      BY <1>0, <3>1, EndsDryFrame
  <2>2. CASE s = Current(c)
    BY <1>7, <1>0, <2>2, AttachEffect
  <2> QED
    BY <2>1, <2>2
<1>8. ASSUME NEW c \in Conn, ShellRefused(c) PROVE Dry
  <2>1. UNCHANGED console
    BY <1>8 DEF ShellRefused, Fail
  <2> QED
    BY <1>0, <2>1, EndsDryFrame
<1>9. ASSUME NEW c \in Conn, Disconnect(c) PROVE Dry
  <2>1. UNCHANGED console
    BY <1>9 DEF Disconnect, Fail
  <2> QED
    BY <1>0, <2>1, EndsDryFrame
<1>10. ASSUME NEW t \in Console, Writer(t) PROVE Dry
  <2>1. console'[s].reader = console[s].reader /\ console'[s].out = console[s].out
    BY <1>10, WriterEffect DEF Only, OutputKept
  <2> QED
    BY <1>0, <2>1, EndsDryFrame
<1>11. ASSUME NEW t \in Console, ReaderCopies(t) PROVE Dry
  <2>1. CASE s # t
    <3>1. console'[s] = console[s]
      BY <1>11, <2>1, CopyEffect DEF Only
    <3> QED
      BY <1>0, <3>1, EndsDryFrame
  <2>2. CASE s = t
    <3>1. console'[s].reader = "ended" /\ conn'[s[1]] = conn[s[1]]
      BY <1>11, <1>0, <2>2 DEF ReaderCopies, Shows
    <3>2. conn[s[1]] # "open"
      BY <1>11, <2>2, <3>1, CopyEffect
    <3> QED
      BY <1>0, <3>1, <3>2
  <2> QED
    BY <2>1, <2>2
<1>12. ASSUME NEW t \in Console, ReaderEnds(t) PROVE Dry
  <2>1. CASE s # t
    <3>1. console'[s] = console[s]
      BY <1>12, <2>1, EndEffect DEF Only
    <3> QED
      BY <1>0, <3>1, EndsDryFrame
  <2>2. CASE s = t
    <3>1. console'[s].out = console[s].out /\ console[s].out = <<>> /\ PeerClosed(s)
          /\ console[s].reader = "reading"
      BY <1>12, <2>2, EndEffect DEF ReaderEnds, AtEnd
    <3> QED
      BY <3>1, PeerClosedKept
  <2> QED
    BY <2>1, <2>2
<1>13. ASSUME NEW t \in Console, GuestAccepts(t) PROVE Dry
  <2>1. console'[s].reader = console[s].reader /\ console'[s].out = console[s].out
    BY <1>13, GuestEffect DEF Only, OutputKept, GuestAccepts
  <2> QED
    BY <1>0, <2>1, EndsDryFrame
<1>14. ASSUME NEW t \in Console, GuestRefuses(t) PROVE Dry
  <2>1. console'[s].reader = console[s].reader /\ console'[s].out = console[s].out
    BY <1>14, GuestEffect DEF Only, OutputKept, GuestRefuses
  <2> QED
    BY <1>0, <2>1, EndsDryFrame
<1>15. ASSUME NEW t \in Console, GuestHangsUp(t) PROVE Dry
  <2>1. console'[s].reader = console[s].reader /\ console'[s].out = console[s].out
    BY <1>15, GuestEffect DEF Only, OutputKept, GuestHangsUp
  <2> QED
    BY <1>0, <2>1, EndsDryFrame
<1>16. ASSUME NEW t \in Console, GuestWrites(t) PROVE Dry
  <2>1. CASE s # t
    <3>1. console'[s] = console[s]
      BY <1>16, <2>1, WriteEffect DEF Only
    <3> QED
      BY <1>0, <3>1, EndsDryFrame
  <2>2. CASE s = t
    <3>1. console'[s].reader = console[s].reader /\ ~PeerClosed(s) /\ conn' = conn
      BY <1>16, <2>2, WriteEffect DEF GuestWrites, PeerClosed
    <3> QED
      BY <1>0, <3>1 DEF EndsDry
  <2> QED
    BY <2>1, <2>2
<1>17. CASE Machines
  BY <1>17, <1>0, EndsDryFrame DEF Machines, consoleVars
<1>18. CASE UNCHANGED vars
  BY <1>18, <1>0, EndsDryFrame DEF vars
<1> QED
  BY <1>1, <1>2, <1>3, <1>4, <1>5, <1>6, <1>7, <1>8, <1>9, <1>10,
    <1>11, <1>12, <1>13, <1>14, <1>15, <1>16, <1>17, <1>18
    DEF Next, ShellStep, vars

LEMMA ReaderStarts ==
  ASSUME TypeOK, ShellsConsistent, [Next]_vars, NEW s \in Console,
         console[s].reader = "none", console'[s].reader # "none"
  PROVE  \E c \in Conn : ShellAttach(c) /\ s = Current(c)
<1> DEFINE Starts == \E c \in Conn : ShellAttach(c) /\ s = Current(c)
<1> HIDE DEF Starts
<1>0. console[s].reader = "none" /\ console'[s].reader # "none"
  OBVIOUS
<1>1. ASSUME NEW c \in Conn, NEW v \in Vm, AuthPublickey(c, v) PROVE Starts
  BY <1>1, <1>0 DEF AuthPublickey
<1>2. ASSUME NEW c \in Conn, NEW ch \in Channel, ShellRequest(c, ch) PROVE Starts
  BY <1>2, <1>0 DEF ShellRequest
<1>3. ASSUME NEW c \in Conn, NEW ch \in Channel, Data(c, ch) PROVE Starts
  <2>1. console'[s].reader = console[s].reader
    BY <1>3, DataKeeps DEF OutputKept
  <2> QED
    BY <1>0, <2>1
<1>4. ASSUME NEW c \in Conn, ChannelOpenSession(c) PROVE Starts
  BY <1>4, <1>0 DEF ChannelOpenSession
<1>5. ASSUME NEW c \in Conn, ShellLookup(c) PROVE Starts
  BY <1>5, <1>0 DEF ShellLookup, Fail
<1>6. ASSUME NEW c \in Conn, ShellConnect(c) PROVE Starts
  BY <1>6, <1>0, ConnectEffect DEF Only, OutputKept, Fail
<1>7. ASSUME NEW c \in Conn, ShellAttach(c) PROVE Starts
  <2>1. s = Current(c)
    BY <1>7, <1>0, AttachEffect DEF Only
  <2> QED
    BY <1>7, <2>1 DEF Starts
<1>8. ASSUME NEW c \in Conn, ShellRefused(c) PROVE Starts
  BY <1>8, <1>0 DEF ShellRefused, Fail
<1>9. ASSUME NEW c \in Conn, Disconnect(c) PROVE Starts
  BY <1>9, <1>0 DEF Disconnect, Fail
<1>10. ASSUME NEW t \in Console, Writer(t) PROVE Starts
  <2>1. console'[s].reader = console[s].reader
    BY <1>10, WriterEffect DEF Only, OutputKept
  <2> QED
    BY <1>0, <2>1
<1>11. ASSUME NEW t \in Console, ReaderCopies(t) PROVE Starts
  <2>1. console[t].reader = "reading"
    BY <1>11 DEF ReaderCopies, Shows
  <2> QED
    BY <1>11, <1>0, <2>1, CopyEffect DEF Only
<1>12. ASSUME NEW t \in Console, ReaderEnds(t) PROVE Starts
  <2>1. console[t].reader = "reading"
    BY <1>12 DEF ReaderEnds
  <2> QED
    BY <1>12, <1>0, <2>1, EndEffect DEF Only
<1>13. ASSUME NEW t \in Console, GuestAccepts(t) PROVE Starts
  <2>1. console'[s].reader = console[s].reader
    BY <1>13, GuestEffect DEF Only, OutputKept, GuestAccepts
  <2> QED
    BY <1>0, <2>1
<1>14. ASSUME NEW t \in Console, GuestRefuses(t) PROVE Starts
  <2>1. console'[s].reader = console[s].reader
    BY <1>14, GuestEffect DEF Only, OutputKept, GuestRefuses
  <2> QED
    BY <1>0, <2>1
<1>15. ASSUME NEW t \in Console, GuestHangsUp(t) PROVE Starts
  <2>1. console'[s].reader = console[s].reader
    BY <1>15, GuestEffect DEF Only, OutputKept, GuestHangsUp
  <2> QED
    BY <1>0, <2>1
<1>16. ASSUME NEW t \in Console, GuestWrites(t) PROVE Starts
  <2>1. console'[s].reader = console[s].reader
    BY <1>16, WriteEffect DEF Only, OutputKept
  <2> QED
    BY <1>0, <2>1
<1>17. CASE Machines
  BY <1>17, <1>0 DEF Machines, consoleVars
<1>18. CASE UNCHANGED vars
  BY <1>18, <1>0 DEF vars
<1>q. Starts
  BY <1>1, <1>2, <1>3, <1>4, <1>5, <1>6, <1>7, <1>8, <1>9, <1>10,
    <1>11, <1>12, <1>13, <1>14, <1>15, <1>16, <1>17, <1>18
    DEF Next, ShellStep, vars
<1> QED
  BY <1>q DEF Starts

LEMMA ShownFrame ==
  ASSUME NEW s \in Console, Shown(s), console[s].reader # "none", conn[s[1]] = "open", Alone(s),
         OutputKept(s),
         screen'[<<s[1], console[s].channel>>] = screen[<<s[1], console[s].channel>>],
         console[s].channel \in closed'[s[1]] => console[s].channel \in closed[s[1]]
  PROVE  Shown(s)'
<1>1. Screen(s)' = Screen(s)
  BY DEF Screen, OutputKept
<1> QED
  BY <1>1 DEF Shown, OutputKept

(* A console that has its channel to itself shows what follows.            *)
LEMMA ShownGoesOn ==
  ASSUME TypeOK, ShellsConsistent, AttachedOnce, Authorized, [Next]_vars, NEW s \in Console,
         Waits(s), Shown(s), console[s].reader # "none", conn'[s[1]] = "open", Alone(s)'
  PROVE  Shown(s)'
<1>0. /\ Shown(s) /\ console[s].reader # "none" /\ conn[s[1]] = "open" /\ Alone(s)
      /\ console[s].channel \in Channel
  BY AttachedFacts, LoginKept, AloneKept DEF TypeOK
<1>1. ASSUME NEW c \in Conn, NEW v \in Vm, AuthPublickey(c, v) PROVE Shown(s)'
  <2>1. UNCHANGED <<console, closed, screen>>
    BY <1>1 DEF AuthPublickey
  <2> QED
    BY <1>0, <2>1, ShownFrame DEF OutputKept
<1>2. ASSUME NEW c \in Conn, NEW ch \in Channel, ShellRequest(c, ch) PROVE Shown(s)'
  <2>1. UNCHANGED <<console, closed, screen>>
    BY <1>2 DEF ShellRequest
  <2> QED
    BY <1>0, <2>1, ShownFrame DEF OutputKept
<1>3. ASSUME NEW c \in Conn, NEW ch \in Channel, Data(c, ch) PROVE Shown(s)'
  <2>1. OutputKept(s)
    <3>1. console'[s] = console[s] \/ OutputKept(s)
      BY <1>3, DataEffect DEF Only
    <3> QED
      BY <3>1 DEF OutputKept
  <2>2. UNCHANGED <<closed, screen>>
    BY <1>3 DEF Data
  <2> QED
    BY <1>0, <2>1, <2>2, ShownFrame
<1>4. ASSUME NEW c \in Conn, ChannelOpenSession(c) PROVE Shown(s)'
  <2>1. UNCHANGED <<console, closed, screen>>
    BY <1>4 DEF ChannelOpenSession
  <2> QED
    BY <1>0, <2>1, ShownFrame DEF OutputKept
<1>5. ASSUME NEW c \in Conn, ShellLookup(c) PROVE Shown(s)'
  <2>1. UNCHANGED <<console, closed, screen>>
    BY <1>5 DEF ShellLookup, Fail
  <2> QED
    BY <1>0, <2>1, ShownFrame DEF OutputKept
<1>6. ASSUME NEW c \in Conn, ShellConnect(c) PROVE Shown(s)'
  <2>1. OutputKept(s) /\ UNCHANGED <<closed, screen>>
    BY <1>6, ConnectEffect DEF Only, OutputKept, Fail
  <2> QED
    BY <1>0, <2>1, ShownFrame
<1>7. ASSUME NEW c \in Conn, ShellAttach(c) PROVE Shown(s)'
  <2>1. s # Current(c)
    <3>1. handler[c] = "handshake" /\ Current(c) \in Console /\ Current(c)[1] = c
      BY <1>7, CurrentConsole DEF ShellAttach, ShellsConsistent
    <3>2. console[Current(c)].writer = "none"
      BY <3>1 DEF AttachedOnce, Unattached
    <3>3. console[Current(c)].reader = "none"
      BY <3>1, <3>2 DEF AttachedOnce, Unattached
    <3> QED
      BY <1>0, <3>3
  <2>2. OutputKept(s) /\ UNCHANGED <<closed, screen>>
    BY <1>7, <2>1, AttachEffect DEF ShellAttach, Only, OutputKept
  <2> QED
    BY <1>0, <2>2, ShownFrame
<1>8. ASSUME NEW c \in Conn, ShellRefused(c) PROVE Shown(s)'
  <2>1. UNCHANGED <<console, closed, screen>>
    BY <1>8 DEF ShellRefused, Fail
  <2> QED
    BY <1>0, <2>1, ShownFrame DEF OutputKept
<1>9. ASSUME NEW c \in Conn, Disconnect(c) PROVE Shown(s)'
  <2>1. UNCHANGED <<console, closed, screen>>
    BY <1>9 DEF Disconnect, Fail
  <2> QED
    BY <1>0, <2>1, ShownFrame DEF OutputKept
<1>10. ASSUME NEW t \in Console, Writer(t) PROVE Shown(s)'
  <2>1. OutputKept(s) /\ UNCHANGED <<closed, screen>>
    BY <1>10, WriterEffect DEF Writer, Only, OutputKept
  <2> QED
    BY <1>0, <2>1, ShownFrame
<1>11. ASSUME NEW t \in Console, ReaderCopies(t) PROVE Shown(s)'
  <2>1. CASE s # t
    <3>1. OutputKept(s) /\ closed' = closed
      BY <1>11, <2>1, CopyEffect DEF ReaderCopies, Shows, Only, OutputKept
    <3>2. <<t[1], console[t].channel>> # <<s[1], console[s].channel>>
      BY <1>0, <2>1 DEF Alone
    <3>3. screen'[<<s[1], console[s].channel>>] = screen[<<s[1], console[s].channel>>]
      BY <1>11, <1>0, <3>2 DEF ReaderCopies, Shows, TypeOK
    <3> QED
      BY <1>0, <3>1, <3>3, ShownFrame
  <2>2. CASE s = t
    <3>1. /\ console[s].reader = "reading" /\ console[s].out # <<>> /\ closed' = closed /\ conn' = conn
          /\ screen' = IF conn[s[1]] = "open" /\ console[s].channel \notin closed[s[1]]
                         THEN [screen EXCEPT ![<<s[1], console[s].channel>>] =
                                 Append(@, <<s, Head(console[s].out)>>)]
                         ELSE screen
      BY <1>11, <2>2 DEF ReaderCopies, Shows
    <3>2. PICK x \in Conn \X Channel : x = <<s[1], console[s].channel>>
      BY <1>0
    <3>3. console[s].channel \notin closed[s[1]]
      BY <1>0, <3>1 DEF Shown
    <3>4. PICK q \in Seq(Output) : q = screen[x]
      BY DEF TypeOK
    <3>5. PICK o \in Seq(1 .. MaxOutput) : o = console[s].out
      BY OutputTypes
    <3>6. PICK m \in Nat, k \in Nat : m = console[s].said /\ k = console[s].missed
      BY OutputTypes
    <3>7. screen'[x] = Append(q, <<s, Head(o)>>)
      BY <1>0, <3>1, <3>2, <3>3, <3>4, <3>5 DEF TypeOK
    <3>8. /\ console'[s].out = Tail(o) /\ console'[s].said = m /\ console'[s].missed = k
          /\ console'[s].channel = console[s].channel
      BY <1>11, <2>2, <3>5, <3>6, CopyEffect
    <3>9. Screen(s)' = Append(q, <<s, Head(o)>>)
      BY <3>2, <3>7, <3>8 DEF Screen
    <3>10. /\ Len(q) = m - k - Len(o)
           /\ \A i \in 1 .. Len(q) : q[i] = <<s, k + i>>
      BY <1>0, <3>2, <3>4, <3>5, <3>6 DEF Shown, Screen
    <3>11. Head(o) = m - Len(o) + 1 /\ Len(o) \in Nat /\ Len(o) >= 1 /\ Len(Tail(o)) = Len(o) - 1
      <4>1. o # <<>>
        BY <3>1, <3>5
      <4>2. Len(o) \in Nat /\ 1 \in 1 .. Len(o) /\ Head(o) = o[1] /\ Len(Tail(o)) = Len(o) - 1
        BY <4>1, NonEmpty, Seqs!HeadTailProperties
      <4>3. o[1] = m - Len(o) + 1
        BY <3>5, <3>6, <4>2 DEF Waits
      <4> QED
        BY <4>2, <4>3
    <3>12. PICK y : y = <<s, Head(o)>>
      OBVIOUS
    <3>13. /\ Len(Append(q, y)) = Len(q) + 1 /\ Append(q, y)[Len(q) + 1] = y
           /\ \A i \in 1 .. Len(q) : Append(q, y)[i] = q[i]
      BY DEF Output
    <3>14. Len(q) \in Nat
      BY Seqs!LenProperties
    <3>15. y = <<s, k + (Len(q) + 1)>>
      <4>1. Head(o) = k + (Len(q) + 1)
        BY <3>10, <3>11, <3>14
      <4> QED
        BY <3>12, <4>1
    <3>16. \A i \in 1 .. Len(Append(q, y)) : Append(q, y)[i] = <<s, k + i>>
      <4>1. ASSUME NEW i \in 1 .. Len(q) + 1 PROVE Append(q, y)[i] = <<s, k + i>>
        <5>1. CASE i = Len(q) + 1
          BY <3>13, <3>15, <5>1
        <5>2. CASE i \in 1 .. Len(q)
          BY <3>10, <3>13, <5>2
        <5> QED
          BY <3>14, <5>1, <5>2
      <4> QED
        BY <3>13, <4>1
    <3>17. Len(Append(q, y)) = m - k - Len(Tail(o))
      <4>1. PICK a \in Nat, b \in Nat : a = Len(q) /\ b = Len(o)
        BY <3>11, <3>14
      <4>2. a = m - k - b
        BY <3>10, <4>1
      <4>3. a + 1 = m - k - (b - 1)
        BY <4>2
      <4>4. Len(Append(q, y)) = a + 1 /\ Len(Tail(o)) = b - 1
        BY <3>11, <3>13, <4>1
      <4> QED
        BY <4>3, <4>4
    <3>18. console'[s].channel \notin closed'[s[1]]
      BY <3>1, <3>3, <3>8
    <3> QED
      BY <3>8, <3>9, <3>12, <3>16, <3>17, <3>18 DEF Shown
  <2> QED
    BY <2>1, <2>2
<1>12. ASSUME NEW t \in Console, ReaderEnds(t) PROVE Shown(s)'
  <2>1. CASE s # t
    <3>1. OutputKept(s) /\ screen' = screen
      BY <1>12, <2>1, EndEffect DEF ReaderEnds, Only, OutputKept
    <3>2. ~(t[1] = s[1] /\ console[t].channel = console[s].channel)
      BY <1>0, <2>1 DEF Alone
    <3>3. console[s].channel \in closed'[s[1]] => console[s].channel \in closed[s[1]]
      <4>1. closed' = closed \/ closed' = [closed EXCEPT ![t[1]] = closed[t[1]] \cup {console[t].channel}]
        BY <1>12 DEF ReaderEnds
      <4> QED
        BY <3>2, <4>1 DEF TypeOK
    <3> QED
      BY <1>0, <3>1, <3>3, ShownFrame
  <2>2. CASE s = t
    <3>1. /\ console'[s].reader = "ended" /\ console'[s].out = console[s].out /\ screen' = screen
          /\ console'[s].said = console[s].said /\ console'[s].missed = console[s].missed
          /\ console'[s].channel = console[s].channel
      BY <1>12, <2>2, EndEffect DEF ReaderEnds
    <3>2. Screen(s)' = Screen(s)
      BY <3>1 DEF Screen
    <3> QED
      BY <1>0, <3>1, <3>2 DEF Shown
  <2> QED
    BY <2>1, <2>2
<1>13. ASSUME NEW t \in Console, GuestAccepts(t) PROVE Shown(s)'
  <2>1. OutputKept(s) /\ UNCHANGED <<closed, screen>>
    BY <1>13, GuestEffect DEF GuestAccepts, Guest, Only, OutputKept
  <2> QED
    BY <1>0, <2>1, ShownFrame
<1>14. ASSUME NEW t \in Console, GuestRefuses(t) PROVE Shown(s)'
  <2>1. OutputKept(s) /\ UNCHANGED <<closed, screen>>
    BY <1>14, GuestEffect DEF GuestRefuses, Guest, Only, OutputKept
  <2> QED
    BY <1>0, <2>1, ShownFrame
<1>15. ASSUME NEW t \in Console, GuestHangsUp(t) PROVE Shown(s)'
  <2>1. OutputKept(s) /\ UNCHANGED <<closed, screen>>
    BY <1>15, GuestEffect DEF GuestHangsUp, Guest, Only, OutputKept
  <2> QED
    BY <1>0, <2>1, ShownFrame
<1>16. ASSUME NEW t \in Console, GuestWrites(t) PROVE Shown(s)'
  <2>1. CASE s # t
    <3>1. OutputKept(s) /\ UNCHANGED <<closed, screen>>
      BY <1>16, <2>1, WriteEffect DEF GuestWrites, Only, OutputKept
    <3> QED
      BY <1>0, <3>1, ShownFrame
  <2>2. CASE s = t
    <3>1. /\ console'[s].reader = console[s].reader /\ console'[s].channel = console[s].channel
          /\ console'[s].missed = console[s].missed /\ console'[s].said = console[s].said + 1
          /\ console'[s].out = Append(console[s].out, console[s].said + 1)
          /\ UNCHANGED <<closed, screen>>
      BY <1>16, <2>2, WriteEffect DEF GuestWrites
    <3>2. Screen(s)' = Screen(s)
      BY <3>1 DEF Screen
    <3>3. console'[s].said - console'[s].missed - Len(console'[s].out)
            = console[s].said - console[s].missed - Len(console[s].out)
      <4>1. Len(console'[s].out) = Len(console[s].out) + 1
        <5>1. PICK o \in Seq(1 .. MaxOutput), e \in Nat : o = console[s].out /\ e = console[s].said + 1
          BY OutputTypes
        <5>2. Len(Append(o, e)) = Len(o) + 1
          OBVIOUS
        <5> QED
          BY <3>1, <5>1, <5>2
      <4>2. PICK m \in Nat, k \in Nat, n \in Nat :
              m = console[s].said /\ k = console[s].missed /\ n = Len(console[s].out)
        BY OutputTypes
      <4>3. (m + 1) - k - (n + 1) = m - k - n
        OBVIOUS
      <4> QED
        BY <3>1, <4>1, <4>2, <4>3
    <3> QED
      BY <1>0, <3>1, <3>2, <3>3 DEF Shown
  <2> QED
    BY <2>1, <2>2
<1>17. CASE Machines
  BY <1>17, <1>0, ShownFrame DEF Machines, consoleVars, OutputKept
<1>18. CASE UNCHANGED vars
  BY <1>18, <1>0, ShownFrame DEF vars, OutputKept
<1> QED
  BY <1>1, <1>2, <1>3, <1>4, <1>5, <1>6, <1>7, <1>8, <1>9, <1>10,
    <1>11, <1>12, <1>13, <1>14, <1>15, <1>16, <1>17, <1>18
    DEF Next, ShellStep, vars

(* The channel that a console is given was used by no other.               *)
LEMMA ShownBegins ==
  ASSUME TypeOK, ShellsConsistent, AttachedOnce, [Next]_vars, NEW c \in Conn, ShellAttach(c),
         Alone(Current(c))', \A d \in Conn, ch \in Channel : UnusedChannel(d, ch)
  PROVE  Shown(Current(c))'
<1>1. PICK s \in Console : s = Current(c) /\ s[1] = c /\ handler[c] = "handshake"
  BY CurrentConsole DEF ShellAttach, ShellsConsistent
<1>2. console[s].writer = "none"
  BY <1>1 DEF AttachedOnce, Unattached
<1>3. console[s].channel = 0 /\ Len(console[s].out) = console[s].said
  BY <1>2 DEF AttachedOnce, Unattached
<1>4. PICK ch : ch = channel_id[c]
  OBVIOUS
<1>5. ch \in Channel
  <2>1. shells[c] # <<>> /\ channel_id[c] \in 0 .. MaxChannels
    BY DEF ShellAttach, ShellsConsistent, TypeOK
  <2>2. channel_id[c] # 0
    BY <2>1 DEF ShellsConsistent
  <2> QED
    BY <1>4, <2>1, <2>2, Bounds
<1>6. /\ Only(s) /\ console'[s].channel = ch /\ console'[s].missed = Swallowed(s)
      /\ console'[s].said = console[s].said
      /\ console'[s].out = SubSeq(console[s].out, 1 + Swallowed(s), Len(console[s].out))
      /\ UNCHANGED <<closed, screen>>
  <2>1. UNCHANGED <<closed, screen>>
    BY DEF ShellAttach
  <2> QED
    BY <1>1, <1>4, <2>1, AttachEffect
<1>7. \A t \in Console : t[1] = c => console[t].channel # ch
  <2>1. Alone(s)'
    <3>1. shells' = shells
      BY DEF ShellAttach
    <3> QED
      BY <1>1, <3>1 DEF Alone, Current
  <2>2. ASSUME NEW t \in Console, t[1] = c, t # s PROVE console[t].channel # ch
    BY <1>1, <1>6, <2>1, <2>2 DEF Alone, Only
  <2>3. console[s].channel # ch
    BY <1>3, <1>5
  <2> QED
    BY <2>2, <2>3
<1>8. screen[<<c, ch>>] = <<>> /\ ch \notin closed[c]
  BY <1>5, <1>7 DEF UnusedChannel
<1>9. Screen(s)' = <<>>
  BY <1>1, <1>6, <1>8 DEF Screen
<1>10. console'[s].said - console'[s].missed - Len(console'[s].out) = 0
  <2>0. PICK n : n = Swallowed(s)
    OBVIOUS
  <2>1. PICK o \in Seq(1 .. MaxOutput) : o = console[s].out
    BY OutputTypes
  <2>2. n \in 0 .. Len(o)
    BY <2>0, <2>1, Seqs!LenProperties DEF Swallowed, Least
  <2>3. Len(SubSeq(o, 1 + n, Len(o))) = Len(o) - n /\ Len(o) \in Nat
    BY <2>2, SubSeqDrops, Seqs!LenProperties
  <2>4. /\ console'[s].said = Len(o) /\ console'[s].missed = n
        /\ Len(console'[s].out) = Len(o) - n
    BY <1>3, <1>6, <2>0, <2>1, <2>3
  <2> QED
    BY <2>2, <2>3, <2>4
<1>11. Shown(s)'
  <2>1. Len(Screen(s)') = 0
    BY <1>9
  <2>2. \A i \in 1 .. Len(Screen(s)') : Screen(s)'[i] = <<s, console'[s].missed + i>>
    BY <2>1
  <2>3. console'[s].channel \notin closed'[s[1]]
    BY <1>1, <1>6, <1>8
  <2> QED
    BY <1>10, <2>1, <2>2, <2>3 DEF Shown
<1>12. Current(c)' = Current(c)
  BY DEF ShellAttach, Current
<1> QED
  BY <1>1, <1>11, <1>12

LEMMA UnusedStep ==
  ASSUME TypeOK, ShellsConsistent, AttachedOnce, [Next]_vars, NEW d \in Conn, NEW x \in Channel,
         UnusedChannel(d, x)
  PROVE  UnusedChannel(d, x)'
<1> DEFINE Unshown == screen'[<<d, x>>] = <<>> /\ x \notin closed'[d]
<1>u. SUFFICES ASSUME \A s \in Console : s[1] = d => console'[s].channel # x PROVE Unshown
  BY DEF UnusedChannel
<1>0. /\ \A s \in Console : s[1] = d => console[s].channel # x
      /\ screen[<<d, x>>] = <<>> /\ x \notin closed[d]
  <2>1. \A s \in Console : s[1] = d => console[s].channel # x
    BY <1>u, ChannelKept, Bounds
  <2> QED
    BY <2>1 DEF UnusedChannel
<1>1. ASSUME NEW c \in Conn, NEW v \in Vm, AuthPublickey(c, v) PROVE Unshown
  BY <1>1, <1>0 DEF AuthPublickey
<1>2. ASSUME NEW c \in Conn, NEW ch \in Channel, ShellRequest(c, ch) PROVE Unshown
  BY <1>2, <1>0 DEF ShellRequest
<1>3. ASSUME NEW c \in Conn, NEW ch \in Channel, Data(c, ch) PROVE Unshown
  BY <1>3, <1>0 DEF Data
<1>4. ASSUME NEW c \in Conn, ChannelOpenSession(c) PROVE Unshown
  BY <1>4, <1>0 DEF ChannelOpenSession
<1>5. ASSUME NEW c \in Conn, ShellLookup(c) PROVE Unshown
  BY <1>5, <1>0 DEF ShellLookup, Fail
<1>6. ASSUME NEW c \in Conn, ShellConnect(c) PROVE Unshown
  <2>1. UNCHANGED <<closed, screen>>
    BY <1>6, ConnectEffect DEF Fail
  <2> QED
    BY <1>0, <2>1
<1>7. ASSUME NEW c \in Conn, ShellAttach(c) PROVE Unshown
  BY <1>7, <1>0 DEF ShellAttach
<1>8. ASSUME NEW c \in Conn, ShellRefused(c) PROVE Unshown
  BY <1>8, <1>0 DEF ShellRefused, Fail
<1>9. ASSUME NEW c \in Conn, Disconnect(c) PROVE Unshown
  BY <1>9, <1>0 DEF Disconnect, Fail
<1>10. ASSUME NEW t \in Console, Writer(t) PROVE Unshown
  BY <1>10, <1>0 DEF Writer
<1>11. ASSUME NEW t \in Console, ReaderCopies(t) PROVE Unshown
  <2>1. <<t[1], console[t].channel>> # <<d, x>>
    BY <1>0
  <2>2. screen'[<<d, x>>] = screen[<<d, x>>] /\ closed' = closed
    BY <1>11, <2>1 DEF ReaderCopies, Shows, TypeOK
  <2> QED
    BY <1>0, <2>2
<1>12. ASSUME NEW t \in Console, ReaderEnds(t) PROVE Unshown
  <2>1. /\ screen' = screen
        /\ \/ closed' = closed
           \/ closed' = [closed EXCEPT ![t[1]] = closed[t[1]] \cup {console[t].channel}]
    BY <1>12 DEF ReaderEnds
  <2>2. t[1] = d => console[t].channel # x
    BY <1>0
  <2>3. x \notin closed'[d]
    <3>1. CASE closed' = closed
      BY <1>0, <3>1
    <3>2. CASE closed' = [closed EXCEPT ![t[1]] = closed[t[1]] \cup {console[t].channel}]
      BY <1>0, <2>2, <3>2 DEF TypeOK
    <3> QED
      BY <2>1, <3>1, <3>2
  <2> QED
    BY <1>0, <2>1, <2>3
<1>13. ASSUME NEW t \in Console, GuestAccepts(t) PROVE Unshown
  BY <1>13, <1>0 DEF GuestAccepts, Guest
<1>14. ASSUME NEW t \in Console, GuestRefuses(t) PROVE Unshown
  BY <1>14, <1>0 DEF GuestRefuses, Guest
<1>15. ASSUME NEW t \in Console, GuestHangsUp(t) PROVE Unshown
  BY <1>15, <1>0 DEF GuestHangsUp, Guest
<1>16. ASSUME NEW t \in Console, GuestWrites(t) PROVE Unshown
  BY <1>16, <1>0 DEF GuestWrites
<1>17. CASE Machines
  BY <1>17, <1>0 DEF Machines, consoleVars
<1>18. CASE UNCHANGED vars
  BY <1>18, <1>0 DEF vars
<1> QED
  BY <1>1, <1>2, <1>3, <1>4, <1>5, <1>6, <1>7, <1>8, <1>9, <1>10,
    <1>11, <1>12, <1>13, <1>14, <1>15, <1>16, <1>17, <1>18
    DEF Next, ShellStep, vars

LEMMA OutputStep ==
  ASSUME TypeOK, ShellsConsistent, AttachedOnce, Authorized, OutputKeepsOrder, [Next]_vars
  PROVE  OutputKeepsOrder'
<1>1. ASSUME NEW s \in Console PROVE Waits(s)' /\ EndsDry(s)'
  BY WaitsStep, EndsDryStep DEF OutputKeepsOrder
<1>2. ASSUME NEW s \in Console PROVE Shown(s)'
  <2>1. SUFFICES ASSUME console'[s].reader # "none", conn'[s[1]] = "open", Alone(s)' PROVE Shown(s)'
    BY DEF Shown
  <2>2. CASE console[s].reader # "none"
    BY <2>1, <2>2, ShownGoesOn DEF OutputKeepsOrder
  <2>3. CASE console[s].reader = "none"
    <3>1. PICK c \in Conn : ShellAttach(c) /\ s = Current(c)
      BY <2>1, <2>3, ReaderStarts
    <3>2. Current(c)' = Current(c)
      BY <3>1 DEF ShellAttach, Current
    <3>3. Alone(Current(c))'
      BY <2>1, <3>1, <3>2 DEF Alone
    <3>4. Shown(Current(c))'
      BY <3>1, <3>3, ShownBegins DEF OutputKeepsOrder
    <3> QED
      BY <3>1, <3>2, <3>4 DEF Shown, Screen, Alone
  <2> QED
    BY <2>2, <2>3
<1>3. ASSUME NEW c \in Conn, NEW ch \in Channel PROVE UnusedChannel(c, ch)'
  BY UnusedStep DEF OutputKeepsOrder
<1> QED
  BY <1>1, <1>2, <1>3 DEF OutputKeepsOrder

-----------------------------------------------------------------------------
SInv ==
  /\ TypeOK /\ ShellsConsistent /\ AttachedOnce /\ Authorized
  /\ \A s \in Console : InputRun(s)
  /\ OutputKeepsOrder

LEMMA SInvInit == Init => SInv
<1> SUFFICES ASSUME Init PROVE SInv
  OBVIOUS
<1>1. TypeOK /\ ShellsConsistent
  BY ConsoleInit
<1>2. ASSUME NEW s \in Console
      PROVE  /\ console[s].guest = "none" /\ console[s].reader = "none" /\ console[s].writer = "none"
             /\ console[s].channel = 0 /\ console[s].queue = <<>> /\ console[s].got = <<>>
             /\ console[s].out = <<>> /\ console[s].said = 0 /\ console[s].missed = 0
             /\ handler[s[1]] = "idle"
  BY DEF Init, NoConsole
<1>3. Len(<<>>) = 0
  OBVIOUS
<1>4. AttachedOnce
  BY <1>2, <1>3 DEF AttachedOnce, Dialed, Unattached
<1>5. Authorized
  BY <1>2 DEF Authorized, LoggedIn, Backed, Init
<1>6. ASSUME NEW s \in Console PROVE InputRun(s)
  <2>1. Chunks(s) = <<>>
    BY <1>2 DEF Chunks
  <2>2. Len(Chunks(s)) = 0
    BY <2>1
  <2> QED
    BY <2>1, <2>2 DEF InputRun
<1>7. OutputKeepsOrder
  <2>1. ASSUME NEW s \in Console PROVE Waits(s) /\ EndsDry(s) /\ Shown(s)
    BY <1>2, <1>3 DEF Waits, EndsDry, Shown
  <2>2. ASSUME NEW c \in Conn, NEW ch \in Channel PROVE UnusedChannel(c, ch)
    BY DEF UnusedChannel, Init
  <2> QED
    BY <2>1, <2>2 DEF OutputKeepsOrder
<1> QED
  BY <1>1, <1>4, <1>5, <1>6, <1>7 DEF SInv

LEMMA SInvStep == SInv /\ [Next]_vars => SInv'
<1> SUFFICES ASSUME SInv, [Next]_vars PROVE SInv'
  OBVIOUS
<1> USE DEF SInv
<1>1. TypeOK'
  BY ConsoleTypeStep
<1>2. ShellsConsistent' /\ AttachedOnce'
  BY ShellsStep, AttachedStep
<1>3. Authorized'
  BY AuthorizedStep
<1>4. \A s \in Console : InputRun(s)'
  BY InputStep
<1>5. OutputKeepsOrder'
  BY OutputStep
<1> QED
  BY <1>1, <1>2, <1>3, <1>4, <1>5

LEMMA ConsoleInvariant == Spec => []SInv
BY SInvInit, SInvStep, PTL DEF Spec

(* No handler, task or guest leaves the state of the console ill-typed: a  *)
(* handler that waits has its connection open, and a sender is dropped     *)
(* with its connection.                                                    *)
THEOREM ConsoleTypeCorrect == Spec => []TypeOK
<1>1. SInv => TypeOK
  BY DEF SInv
<1> QED
  BY <1>1, ConsoleInvariant, PTL

(* A socket is only opened to a machine that was created and that lists    *)
(* the key of the client, whatever happens to the machine between the      *)
(* login, the lookup and the connect (auth_publickey, shell_request).      *)
THEOREM ConsolesAuthorized == Spec => []ConsoleAuthorized
<1>1. SInv => ConsoleAuthorized
  <2> SUFFICES ASSUME SInv, NEW s \in Console, console[s].guest # "none"
               PROVE  /\ life[Machine(s)] \in {"running", "gone"}
                      /\ [kind |-> "key", key |-> key[s[1]]] \in Range(SshKeys[Machine(s)])
    BY DEF ConsoleAuthorized
  <2>1. /\ Machine(s) \in Vm /\ life[Machine(s)] \in {"running", "gone"}
        /\ IsKeyAuthorized(key[s[1]], SshKeys[Machine(s)])
    BY DEF SInv, Authorized, Backed, LoggedIn, Machine
  <2>2. PICK lines \in Seq(Line) : lines = SshKeys[Machine(s)]
    BY <2>1, ConsoleAssumption
  <2>3. PICK i \in DOMAIN lines : lines[i].kind = "key" /\ lines[i].key = key[s[1]]
    BY <2>1, <2>2 DEF IsKeyAuthorized
  <2>4. lines[i] \in Line
    BY Seqs!LenProperties, Seqs!ElementOfSeq
  <2>5. lines[i] = [kind |-> "key", key |-> key[s[1]]]
    BY <2>3, <2>4 DEF Line
  <2> QED
    BY <2>1, <2>2, <2>5 DEF Range
<1> QED
  BY <1>1, ConsoleInvariant, PTL

(* What a guest has read and will read is what the client sent in one go,  *)
(* through any number of consoles of its connection (data, the writer      *)
(* task).                                                                  *)
THEOREM InputsInOrder == Spec => []InputInOrder
<1>1. SInv => InputInOrder
  BY DEF SInv, InputRun, Chunks, InputInOrder
<1> QED
  BY <1>1, ConsoleInvariant, PTL

(* The reader task closes no channel and stops for no open one before all  *)
(* that the guest wrote is on it, in order (shell_request, the reader      *)
(* task).                                                                  *)
THEOREM OutputsBeforeClose == Spec => []OutputBeforeClose
<1>1. SInv => OutputBeforeClose
  <2> SUFFICES ASSUME SInv, NEW s \in Console, console[s].reader = "ended", conn[s[1]] = "open", Alone(s)
               PROVE  screen[<<s[1], console[s].channel>>] =
                        [i \in 1 .. console[s].said - console[s].missed |-> <<s, console[s].missed + i>>]
    BY DEF OutputBeforeClose
  <2>1. console[s].out = <<>> /\ Len(console[s].out) = 0
    BY DEF SInv, OutputKeepsOrder, EndsDry
  <2>2. /\ Len(Screen(s)) = console[s].said - console[s].missed - Len(console[s].out)
        /\ \A i \in 1 .. Len(Screen(s)) : Screen(s)[i] = <<s, console[s].missed + i>>
    BY DEF SInv, OutputKeepsOrder, Shown
  <2>3. console[s].said \in Nat /\ console[s].missed \in Nat
    BY OutputTypes DEF SInv
  <2>4. Len(Screen(s)) = console[s].said - console[s].missed
    BY <2>1, <2>2, <2>3
  <2>5. Screen(s) \in Seq(Output)
    BY DEF SInv, AttachedOnce, Unattached, TypeOK, Screen
  <2>6. Screen(s) = [i \in 1 .. Len(Screen(s)) |-> <<s, console[s].missed + i>>]
    BY <2>2, <2>5
  <2> QED
    BY <2>4, <2>6 DEF Screen
<1> QED
  BY <1>1, ConsoleInvariant, PTL
=============================================================================
