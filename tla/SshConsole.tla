----------------------------- MODULE SshConsole ------------------------------
(***************************************************************************)
(* The SSH console (src/ssh/session.rs, src/ssh/server.rs): a client       *)
(* authenticates as vm-{uuid}, opens channels and asks for a shell;        *)
(* Warlock connects to the machine's vsock socket, shakes hands with       *)
(* Firecracker and then copies bytes both ways with two spawned tasks.     *)
(*                                                                         *)
(* The handlers of one connection run one after another, those of          *)
(* different connections interleave at every await, and the two tasks of   *)
(* a console run beside all of them: they outlive the handler, a second    *)
(* shell of the same connection, and the connection.  A console is named   *)
(* by the connection and the channel it was asked for on; a client asks    *)
(* for one shell on a channel, as RFC 4254 has it.                         *)
(*                                                                         *)
(* The map of machines moves as VmMap says, which VmLifecycle implements.  *)
(* Requests that change nothing (a rejected key, pty_request) are          *)
(* stuttering steps.  A chunk of data is one item of a sequence.           *)
(***************************************************************************)
EXTENDS VmMap, Integers, Sequences, FiniteSets

CONSTANTS
  Conn,         \* connections that clients make
  NoVm,         \* not a Uuid
  Key,          \* public keys that clients hold
  SshKeys,      \* VmResources::ssh_keys: for each machine, a sequence of lines
  MaxChannels,  \* bound: channels of a connection
  MaxInput,     \* bound: chunks that the client of a connection sends
  MaxOutput     \* bound: chunks that the guest end of a console writes

(* A line of authorized_keys: a key, or one of the lines that are skipped: *)
(* blank, commented out, of fewer than two words, or of undecodable data.  *)
Line == [kind : {"key", "blank", "comment", "short", "garbled"}, key : Key]

ASSUME ConsoleAssumption ==
  /\ NoVm \notin Vm
  /\ SshKeys \in [Vm -> Seq(Line)]
  /\ {MaxChannels, MaxInput, MaxOutput} \subseteq Nat

VARIABLES
  conn,        \* connections: "new" (not authenticated), "open", "closed"
  key,         \* the key each connection offered
  vm_id,       \* SessionHandler::vm_id
  channel_id,  \* SessionHandler::channel_id: the latest channel; 0 is None
  closed,      \* channels the server has closed
  uds_writer,  \* SessionHandler::uds_writer: the console it feeds; 0 is None
  handler,     \* where the running handler of each connection is
  shells,      \* channels each connection has asked for a shell on, in order
  sent,        \* chunks the client of each connection has sent so far
  console,     \* the consoles: sockets and tasks
  screen       \* what each channel has shown to its client

sshVars == <<conn, key, vm_id, channel_id, closed, uds_writer, handler, shells, sent>>
consoleVars == <<conn, key, vm_id, channel_id, closed, uds_writer, handler,
                 shells, sent, console, screen>>
vars == <<life, locked, proc, conn, key, vm_id, channel_id, closed, uds_writer,
          handler, shells, sent, console, screen>>

Channel == 1 .. MaxChannels
Console == Conn \X Channel
Input   == Channel \X (1 .. MaxInput)    \* where it was typed, and when
Output  == Console \X (1 .. MaxOutput)   \* who wrote it, and when

(* guest: the other end, "dialed" until Firecracker answers the handshake; *)
(* missed: chunks that the handshake swallowed.                            *)
ConsoleRecord ==
  [reader  : {"none", "reading", "ended"},
   writer  : {"none", "waiting", "ended"},
   guest   : {"none", "dialed", "open", "refused", "hungup"},
   channel : 0 .. MaxChannels,
   queue   : Seq(Input),
   got     : Seq(Input),
   out     : Seq(1 .. MaxOutput),
   said    : 0 .. MaxOutput,
   missed  : 0 .. MaxOutput]

TypeOK ==
  /\ MapTypeOK
  /\ conn \in [Conn -> {"new", "open", "closed"}]
  /\ key \in [Conn -> Key]
  /\ vm_id \in [Conn -> Vm \cup {NoVm}]
  /\ channel_id \in [Conn -> 0 .. MaxChannels]
  /\ closed \in [Conn -> SUBSET Channel]
  /\ uds_writer \in [Conn -> 0 .. MaxChannels]
  /\ handler \in [Conn -> {"idle", "lookup", "connect", "handshake"}]
  /\ shells \in [Conn -> Seq(Channel)]
  /\ sent \in [Conn -> 0 .. MaxInput]
  /\ console \in [Console -> ConsoleRecord]
  /\ screen \in [Conn \X Channel -> Seq(Output)]
  /\ \A c \in Conn : conn[c] # "open" => handler[c] = "idle" /\ uds_writer[c] = 0

NoConsole ==
  [reader |-> "none", writer |-> "none", guest |-> "none", channel |-> 0,
   queue |-> <<>>, got |-> <<>>, out |-> <<>>, said |-> 0, missed |-> 0]

Init ==
  /\ MapInit
  /\ conn = [c \in Conn |-> "new"]
  /\ key \in [Conn -> Key]
  /\ vm_id = [c \in Conn |-> NoVm]
  /\ channel_id = [c \in Conn |-> 0]
  /\ closed = [c \in Conn |-> {}]
  /\ uds_writer = [c \in Conn |-> 0]
  /\ handler = [c \in Conn |-> "idle"]
  /\ shells = [c \in Conn |-> <<>>]
  /\ sent = [c \in Conn |-> 0]
  /\ console = [s \in Console |-> NoConsole]
  /\ screen = [x \in Conn \X Channel |-> <<>>]

-----------------------------------------------------------------------------
(* Helpers. *)

Range(f) == {f[x] : x \in DOMAIN f}

Up(v) == proc[v] = "up"

Current(c) == <<c, shells[c][Len(shells[c])]>>

Machine(s) == vm_id[s[1]]

(* Mutant: a line that is commented out counts. *)
ListsAnyLine(k, lines) == \E i \in DOMAIN lines : lines[i].key = k

(* Whatever else a list holds, a key is accepted iff one good line is it.  *)
IsKeyAuthorized(k, lines) ==
  \E i \in DOMAIN lines : lines[i].kind = "key" /\ lines[i].key = k

(* The other end has closed the socket: Firecracker refused the handshake, *)
(* the guest's shell exited, or the process ended.                         *)
PeerClosed(s) == console[s].guest \in {"refused", "hungup"} \/ ~Up(Machine(s))

(* Mutant: the sender lives on, as a task with a clone of it would have it.*)
CloseKeepsSender(c) ==
  /\ conn' = [conn EXCEPT ![c] = "closed"]
  /\ handler' = [handler EXCEPT ![c] = "idle"]
  /\ UNCHANGED uds_writer

(* The end of a connection drops its handler, and with it the sender of    *)
(* the queue.                                                              *)
Close(c) ==
  /\ conn' = [conn EXCEPT ![c] = "closed"]
  /\ handler' = [handler EXCEPT ![c] = "idle"]
  /\ uds_writer' = [uds_writer EXCEPT ![c] = 0]

(* A handler that returns an error ends the connection. *)
Fail(c) ==
  /\ Close(c)
  /\ UNCHANGED <<mapVars, key, vm_id, channel_id, closed, shells, sent, console, screen>>

-----------------------------------------------------------------------------
(* The handlers of a connection. *)

(* The lock of the map is taken for an instant; any key or machine that is *)
(* not accepted is rejected, and the client may try again.  (A connection  *)
(* that ends before its login, as one does over a name whose Uuid does not *)
(* parse, stays "new": it has nothing.)                                    *)
AuthPublickey(c, v) ==
  /\ conn[c] = "new" /\ ~locked
  /\ life[v] = "running"
  /\ IsKeyAuthorized(key[c], SshKeys[v])
  /\ conn' = [conn EXCEPT ![c] = "open"]
  /\ vm_id' = [vm_id EXCEPT ![c] = v]
  /\ UNCHANGED <<mapVars, key, channel_id, closed, uds_writer, handler, shells, sent,
                 console, screen>>

Ready(c) == conn[c] = "open" /\ handler[c] = "idle"

ChannelOpenSession(c) ==
  /\ Ready(c)
  /\ channel_id[c] < MaxChannels
  /\ channel_id' = [channel_id EXCEPT ![c] = @ + 1]
  /\ UNCHANGED <<mapVars, conn, key, vm_id, closed, uds_writer, handler, shells, sent,
                 console, screen>>

Open(c) == 1 .. channel_id[c] \ closed[c]

ShellRequest(c, ch) ==
  /\ Ready(c)
  /\ ch \in Open(c) \ Range(shells[c])
  /\ shells' = [shells EXCEPT ![c] = Append(@, ch)]
  /\ handler' = [handler EXCEPT ![c] = "lookup"]
  /\ UNCHANGED <<mapVars, conn, key, vm_id, channel_id, closed, uds_writer, sent,
                 console, screen>>

(* The path of the socket is cloned and the lock released. *)
ShellLookup(c) ==
  /\ handler[c] = "lookup" /\ ~locked
  /\ IF life[vm_id[c]] = "running"
       THEN /\ handler' = [handler EXCEPT ![c] = "connect"]
            /\ UNCHANGED <<mapVars, conn, key, vm_id, channel_id, closed, uds_writer,
                           shells, sent, console, screen>>
       ELSE Fail(c)

(* Connects and sends CONNECT; nobody listens once the process has ended.  *)
ShellConnect(c) ==
  /\ handler[c] = "connect"
  /\ IF Up(vm_id[c])
       THEN /\ handler' = [handler EXCEPT ![c] = "handshake"]
            /\ console' = [console EXCEPT ![Current(c)].guest = "dialed"]
            /\ UNCHANGED <<mapVars, conn, key, vm_id, channel_id, closed, uds_writer,
                           shells, sent, screen>>
       ELSE Fail(c)

Least(m, n) == IF m < n THEN m ELSE n

(* One `read` of 32 bytes takes the OK and, if the guest has written, what *)
(* fits behind it, here one chunk; nothing but the OK is looked at.        *)
Swallowed(s) == Least(1, Len(console[s].out))

Attached(s, ch) ==
  [console[s] EXCEPT
     !.reader = "reading", !.writer = "waiting", !.channel = ch,
     !.missed = Swallowed(s),
     !.out = SubSeq(@, 1 + Swallowed(s), Len(@))]

(* Mutant: the tasks of the previous console are aborted. *)
ShellAttachAborts(c) ==
  /\ handler[c] = "handshake"
  /\ console[Current(c)].guest \in {"open", "hungup"}
  /\ handler' = [handler EXCEPT ![c] = "idle"]
  /\ uds_writer' = [uds_writer EXCEPT ![c] = Current(c)[2]]
  /\ console' = [s \in Console |->
       IF s = Current(c) THEN Attached(s, channel_id[c])
       ELSE IF s = <<c, uds_writer[c]>> THEN [console[s] EXCEPT !.writer = "ended"]
       ELSE console[s]]
  /\ UNCHANGED <<mapVars, conn, key, vm_id, channel_id, closed, shells, sent, screen>>

(* The guest has answered OK: the two tasks are spawned and the sender     *)
(* replaces the one of the connection's previous console.  The channel of  *)
(* the request is ignored: the console gets the latest one.                *)
ShellAttach(c) ==
  /\ handler[c] = "handshake"
  /\ console[Current(c)].guest \in {"open", "hungup"}
  /\ handler' = [handler EXCEPT ![c] = "idle"]
  /\ uds_writer' = [uds_writer EXCEPT ![c] = Current(c)[2]]
  /\ console' = [console EXCEPT ![Current(c)] = Attached(Current(c), channel_id[c])]
  /\ UNCHANGED <<mapVars, conn, key, vm_id, channel_id, closed, shells, sent, screen>>

(* The socket is closed before any OK; or the one read takes only a part   *)
(* of the OK, or bytes behind it that are no text.                         *)
ShellRefused(c) ==
  /\ handler[c] = "handshake"
  /\ console[Current(c)].guest # "dialed" \/ PeerClosed(Current(c))
  /\ Fail(c)

(* `data` and `window_change_request` use one queue; without a console, or *)
(* once its writer has ended, what they send is dropped.                   *)
Data(c, ch) ==
  /\ Ready(c)
  /\ ch \in Open(c)
  /\ sent[c] < MaxInput
  /\ sent' = [sent EXCEPT ![c] = @ + 1]
  /\ console' =
       IF uds_writer[c] # 0 /\ console[<<c, uds_writer[c]>>].writer = "waiting"
         THEN [console EXCEPT ![<<c, uds_writer[c]>>].queue = Append(@, <<ch, sent'[c]>>)]
         ELSE console
  /\ UNCHANGED <<mapVars, conn, key, vm_id, channel_id, closed, uds_writer, handler,
                 shells, screen>>

(* The client leaves, or an hour passes without traffic.  The session is   *)
(* not looked at while one of its handlers runs.                           *)
Disconnect(c) ==
  /\ Ready(c)
  /\ Fail(c)

-----------------------------------------------------------------------------
(* The two tasks of a console. *)

Fed(s) == uds_writer[s[1]] = s[2]

(* Mutants: takes the latest chunk; ends as soon as its sender is gone.    *)
WriterTakesLatest(s) ==
  /\ console[s].writer = "waiting"
  /\ console[s].queue # <<>> /\ ~PeerClosed(s)
  /\ console' = [console EXCEPT
       ![s].got = Append(@, console[s].queue[Len(console[s].queue)]),
       ![s].queue = SubSeq(@, 1, Len(@) - 1)]
  /\ UNCHANGED <<mapVars, sshVars, screen>>

WriterStopsUnfed(s) ==
  /\ console[s].writer = "waiting"
  /\ console[s].queue # <<>> \/ ~Fed(s)
  /\ console' =
       IF ~Fed(s) THEN [console EXCEPT ![s].writer = "ended"]
       ELSE [console EXCEPT ![s].got = Append(@, Head(console[s].queue)), ![s].queue = Tail(@)]
  /\ UNCHANGED <<mapVars, sshVars, screen>>

(* SSH to guest: a write to a closed socket ends the task, and so does the *)
(* end of the queue once its sender is gone.                               *)
Writer(s) ==
  /\ console[s].writer = "waiting"
  /\ \/ /\ console[s].queue # <<>> /\ ~PeerClosed(s)
        /\ console' = [console EXCEPT
             ![s].got = Append(@, Head(console[s].queue)), ![s].queue = Tail(@)]
     \/ /\ IF console[s].queue = <<>> THEN ~Fed(s) ELSE PeerClosed(s)
        /\ console' = [console EXCEPT ![s].writer = "ended"]
  /\ UNCHANGED <<mapVars, sshVars, screen>>

(* What a console shows goes through the session, which looks at it        *)
(* between two handlers; a chunk for a channel that is closed is discarded.*)
Shows(s) ==
  /\ console[s].reader = "reading" /\ handler[s[1]] = "idle"
  /\ console[s].out # <<>>
  /\ screen' =
       IF conn[s[1]] = "open" /\ console[s].channel \notin closed[s[1]]
         THEN [screen EXCEPT ![<<s[1], console[s].channel>>] =
                 Append(@, <<s, Head(console[s].out)>>)]
         ELSE screen
  /\ UNCHANGED <<mapVars, sshVars>>

(* Mutant: an error of `handle.data` is only logged. *)
ReaderCopiesOn(s) ==
  /\ Shows(s)
  /\ console' = [console EXCEPT ![s].out = Tail(@)]

(* Guest to SSH: a chunk for a connection that is closed ends the task.    *)
ReaderCopies(s) ==
  /\ Shows(s)
  /\ console' = [console EXCEPT
       ![s].out = Tail(@),
       ![s].reader = IF conn[s[1]] = "open" THEN @ ELSE "ended"]

(* Mutants: the socket is not read to its end; its end closes no channel.  *)
AtEndUnread(s) == PeerClosed(s)

AtEnd(s) == PeerClosed(s) /\ console[s].out = <<>>

ReaderEndsSilently(s) ==
  /\ console[s].reader = "reading" /\ handler[s[1]] = "idle"
  /\ AtEnd(s)
  /\ console' = [console EXCEPT ![s].reader = "ended"]
  /\ UNCHANGED <<mapVars, sshVars, screen>>

(* At the end of the socket the task closes the channel it was given.      *)
ReaderEnds(s) ==
  /\ console[s].reader = "reading" /\ handler[s[1]] = "idle"
  /\ AtEnd(s)
  /\ console' = [console EXCEPT ![s].reader = "ended"]
  /\ closed' = IF conn[s[1]] = "open"
                 THEN [closed EXCEPT ![s[1]] = @ \cup {console[s].channel}] ELSE closed
  /\ UNCHANGED <<mapVars, conn, key, vm_id, channel_id, uds_writer, handler, shells,
                 sent, screen>>

-----------------------------------------------------------------------------
(* External: Firecracker's vsock proxy and the guest's shell (socat).      *)

Guest(s, from, to) ==
  /\ console[s].guest = from /\ Up(Machine(s))
  /\ console' = [console EXCEPT ![s].guest = to]
  /\ UNCHANGED <<mapVars, sshVars, screen>>

GuestAccepts(s)  == Guest(s, "dialed", "open")
GuestRefuses(s)  == Guest(s, "dialed", "refused")
GuestHangsUp(s)  == Guest(s, "open", "hungup")

GuestWrites(s) ==
  /\ console[s].guest = "open" /\ Up(Machine(s))
  /\ console[s].said < MaxOutput
  /\ console' = [console EXCEPT
       ![s].said = @ + 1, ![s].out = Append(@, console[s].said + 1)]
  /\ UNCHANGED <<mapVars, sshVars, screen>>

(* The rest of the program. *)
Machines == MapStep /\ UNCHANGED consoleVars

-----------------------------------------------------------------------------
ShellStep(c) == ShellConnect(c) \/ ShellAttach(c) \/ ShellRefused(c)

Next ==
  \/ \E c \in Conn :
       \/ \E v \in Vm : AuthPublickey(c, v)
       \/ \E ch \in Channel : ShellRequest(c, ch) \/ Data(c, ch)
       \/ ChannelOpenSession(c) \/ ShellLookup(c) \/ ShellStep(c)
       \/ Disconnect(c)
  \/ \E s \in Console :
       \/ Writer(s) \/ ReaderCopies(s) \/ ReaderEnds(s)
       \/ GuestAccepts(s) \/ GuestRefuses(s) \/ GuestHangsUp(s) \/ GuestWrites(s)
  \/ Machines

Spec == Init /\ [][Next]_vars

(* The runtime polls tasks that can go on, and the lock is FIFO.  Of the   *)
(* map the console relies on LockReleased and RemovedProcessEnds, which    *)
(* VmLifecycle's runs check.  Nothing makes a guest answer the handshake,  *)
(* write or hang up; a write to its socket succeeds in the end.            *)
LockIsReleased == Unlock /\ UNCHANGED consoleVars

ProcessEnds(v) ==
  /\ life[v] = "gone" /\ proc[v] # "ended"
  /\ proc' = [proc EXCEPT ![v] = "ended"]
  /\ UNCHANGED <<life, locked, consoleVars>>

Fairness ==
  /\ \A c \in Conn : SF_vars(ShellLookup(c)) /\ WF_vars(ShellStep(c))
  /\ \A s \in Console : WF_vars(Writer(s)) /\ SF_vars(ReaderCopies(s) \/ ReaderEnds(s))
  /\ WF_vars(LockIsReleased) /\ \A v \in Vm : WF_vars(ProcessEnds(v))

FairSpec == Spec /\ Fairness

-----------------------------------------------------------------------------
(* Safety. *)

(* `Validates offered SSH key against VM's authorized keys`: a socket is   *)
(* only ever opened to a machine whose create has finished and that lists  *)
(* the client's key, although the key is compared once, at the login, and  *)
(* the machine looked up again, later, for the shell.                      *)
ConsoleAuthorized ==
  \A s \in Console : console[s].guest # "none" =>
    /\ life[Machine(s)] \in {"running", "gone"}
    /\ [kind |-> "key", key |-> key[s[1]]] \in Range(SshKeys[Machine(s)])

(* What a guest has read, followed by what is queued for it, is what the   *)
(* client sent in one go: nothing is lost, doubled or swapped on the way,  *)
(* even when a second shell of the connection takes the queue over.        *)
InputInOrder ==
  \A s \in Console :
    LET chunks == console[s].got \o console[s].queue
    IN  \A i \in 1 .. Len(chunks) - 1 : chunks[i + 1][2] = chunks[i][2] + 1

(* Once the task of a console that has its channel to itself has ended,    *)
(* the channel has shown all that the guest wrote, in order, but for what  *)
(* the handshake swallowed.  (The docs promise the latter too, and that a  *)
(* channel has the console that was asked for on it; the code does not     *)
(* keep to either, see ShellAttach.)                                       *)
Alone(s) ==
  \A t \in Console \ {s} : t[1] = s[1] => console[t].channel # console[s].channel

OutputBeforeClose ==
  \A s \in Console :
    console[s].reader = "ended" /\ conn[s[1]] = "open" /\ Alone(s) =>
      screen[<<s[1], console[s].channel>>] =
        [i \in 1 .. console[s].said - console[s].missed |-> <<s, console[s].missed + i>>]

-----------------------------------------------------------------------------
(* Liveness. *)

(* When the machine is deleted under a console, or its shell exits, the    *)
(* client's channel is closed; and a shell request that waits for such a   *)
(* machine to answer ends, although nothing times it out.                  *)
ConsoleOfGoneMachineEnds ==
  /\ \A s \in Console :
       console[s].reader = "reading" /\ (life[Machine(s)] = "gone" \/ console[s].guest = "hungup")
         ~> conn[s[1]] = "closed" \/ console[s].channel \in closed[s[1]]
  /\ \A c \in Conn :
       handler[c] # "idle" /\ life[vm_id[c]] = "gone" ~> handler[c] = "idle"

(* Every chunk that was queued for a console is written to that console,   *)
(* although the client has left or has another console by then, unless the *)
(* guest's end is closed.                                                  *)
Queued(s, n)  == \E ch \in Channel : <<ch, n>> \in Range(console[s].queue)
Written(s, n) == \E ch \in Channel : <<ch, n>> \in Range(console[s].got)

InputDelivered ==
  \A s \in Console : \A n \in 1 .. MaxInput :
    Queued(s, n) ~> Written(s, n) \/ (vm_id[s[1]] # NoVm /\ PeerClosed(s))

(* The socket of a client that has left is let go of once the guest writes *)
(* or closes it: no abandoned console reads on.                            *)
AbandonedConsoleReleased ==
  \A s \in Console :
    conn[s[1]] = "closed" /\ (console[s].out # <<>> \/ PeerClosed(s))
      ~> console[s].reader # "reading"
=============================================================================
