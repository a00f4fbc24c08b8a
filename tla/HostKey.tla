------------------------------- MODULE HostKey ------------------------------
(***************************************************************************)
(* The host key of the SSH server over restarts (src/ssh/host_key.rs).     *)
(* Every start loads the key from disk, or generates one and saves it, and *)
(* then serves it.  Each step of `load_or_generate_host_key` and           *)
(* `save_host_key` that touches the disk is an action: the process may die *)
(* before each of them, and each may fail.  A file that is written in      *)
(* place is cut first and complete a step later.  Making a key and binding *)
(* the port are taken to succeed.                                          *)
(***************************************************************************)
EXTENDS Integers

CONSTANTS
  MaxStarts,  \* bound: starts of the server, and so generated keys
  Faults      \* crash: the process dies anywhere; disk: a write, a mkdir or
              \* a chmod fails; read: a load fails though the file is good

ASSUME HostKeyAssumption ==
  MaxStarts \in Nat /\ Faults \subseteq {"crash", "disk", "read"}

Key  == 1 .. MaxStarts
None == 0    \* no such file
Torn == -1   \* a file that does not decode

VARIABLES
  pc,       \* what the start is doing
  starts,   \* starts so far
  private,  \* the key file: None, Torn or a key
  public,   \* the .pub file, likewise
  host_key, \* the key in memory; None while there is none
  saved,    \* whether the latest save_host_key returned Ok
  settled   \* the first key that was served and known to be on disk

diskVars == <<private, public>>
vars == <<pc, starts, private, public, host_key, saved, settled>>

Step == {"load", "generate", "mkdir", "truncate", "write", "chmod",
         "truncate_pub", "write_pub", "chmod_pub", "return"}

(* A process that ended, or that died. *)
Over == {"down", "crashed"}

TypeOK ==
  /\ pc \in Step \cup Over \cup {"serving"}
  /\ starts \in 0 .. MaxStarts
  /\ private \in Key \cup {None, Torn}
  /\ public \in Key \cup {None, Torn}
  /\ host_key \in Key \cup {None}
  /\ saved \in BOOLEAN
  /\ settled \in Key \cup {None}
  /\ pc # "down" => starts > 0
  /\ pc \notin Over \cup {"load", "generate"} => host_key # None

Init ==
  /\ pc = "down" /\ starts = 0
  /\ private = None /\ public = None
  /\ host_key = None /\ saved = FALSE
  /\ settled = None

Goes(from, to) == pc = from /\ pc' = to

Start ==
  /\ pc \in Over /\ pc' = "load"
  /\ starts < MaxStarts
  /\ starts' = starts + 1
  /\ host_key' = None /\ saved' = FALSE
  /\ UNCHANGED <<private, public, settled>>

(* Mutants: the file is not looked for; it is there, and taken as it is.   *)
LoadableNever == FALSE
LoadableIfPresent == private # None

(* The file is there and `load_secret_key` can decode it. *)
Loadable == private \in Key

Load ==
  /\ \/ /\ Loadable
        /\ Goes("load", "return")
        /\ host_key' = private /\ saved' = TRUE
     \/ /\ ~Loadable \/ "read" \in Faults
        /\ Goes("load", "generate")
        /\ UNCHANGED <<host_key, saved>>
  /\ UNCHANGED <<starts, private, public, settled>>

Generate ==
  /\ Goes("generate", "mkdir")
  /\ host_key' = starts
  /\ UNCHANGED <<starts, private, public, saved, settled>>

(* Mutant: `?` instead of the warning. *)
GivesUp(from) == Goes(from, "down")

(* Whatever fails in save_host_key, its caller warns and goes on. *)
FallsBack(from) == Goes(from, "return")

Saves(from, to) ==
  /\ \/ Goes(from, to)
     \/ "disk" \in Faults /\ FallsBack(from)
  /\ UNCHANGED <<starts, host_key, saved, settled>>

MakeDir == Saves("mkdir", "truncate") /\ UNCHANGED diskVars

(* `fs::write` opens the file with truncation, ... *)
TruncatePrivate ==
  /\ Saves("truncate", "write")
  /\ private' = IF pc' = "write" THEN Torn ELSE private
  /\ UNCHANGED public

(* ... and writes it; an error leaves it torn. *)
WritePrivate ==
  /\ Saves("write", "chmod")
  /\ private' = IF pc' = "chmod" THEN host_key ELSE private
  /\ UNCHANGED public

ChmodPrivate == Saves("chmod", "truncate_pub") /\ UNCHANGED diskVars

TruncatePublic ==
  /\ Saves("truncate_pub", "write_pub")
  /\ public' = IF pc' = "write_pub" THEN Torn ELSE public
  /\ UNCHANGED private

WritePublic ==
  /\ Saves("write_pub", "chmod_pub")
  /\ public' = IF pc' = "chmod_pub" THEN host_key ELSE public
  /\ UNCHANGED private

(* The last step; only now is the save known to have succeeded. *)
ChmodPublic ==
  /\ Goes("chmod_pub", "return")
  /\ saved' \in (IF "disk" \in Faults THEN BOOLEAN ELSE {TRUE})
  /\ UNCHANGED <<starts, private, public, host_key, settled>>

(* The key is returned to the server, which listens with it.               *)
Serve ==
  /\ Goes("return", "serving")
  /\ settled' = IF settled = None /\ saved THEN host_key ELSE settled
  /\ UNCHANGED <<starts, private, public, host_key, saved>>

(* The servers stop. *)
Stop ==
  /\ Goes("serving", "down")
  /\ UNCHANGED <<starts, private, public, host_key, saved, settled>>

(* The process dies. *)
Crash ==
  /\ "crash" \in Faults
  /\ pc \notin Over /\ pc' = "crashed"
  /\ UNCHANGED <<starts, private, public, host_key, saved, settled>>

Starting ==
  \/ Load \/ Generate \/ MakeDir \/ TruncatePrivate \/ WritePrivate \/ ChmodPrivate
  \/ TruncatePublic \/ WritePublic \/ ChmodPublic \/ Serve

Next == Start \/ Starting \/ Stop \/ Crash

Spec == Init /\ [][Next]_vars

(* A start is a straight line of system calls. *)
FairSpec == Spec /\ WF_vars(Starting)

-----------------------------------------------------------------------------
(* What HostKeyStable rests on: once a key is settled it is on disk and no *)
(* start is past the load, and a key counts as saved only while the file   *)
(* holds it.                                                               *)
SettledOnDisk ==
  /\ settled # None =>
       /\ private = settled
       /\ pc \in Over \cup {"load", "return", "serving"}
       /\ pc \in {"return", "serving"} => host_key = settled
  /\ pc \in {"chmod", "truncate_pub", "write_pub", "chmod_pub"} => private = host_key
  /\ saved /\ pc \notin Over => pc \in {"return", "serving"} /\ private = host_key

(* `This ensures the SSH server uses a persistent host key, preventing     *)
(* "REMOTE HOST IDENTIFICATION HAS CHANGED" errors when the server         *)
(* restarts`: once a key was served and known to be saved, every start     *)
(* serves it, whatever dies or fails in between.                           *)
HostKeyStable == pc = "serving" /\ settled # None => host_key = settled

(* `This allows the server to start even in restricted environments`: a    *)
(* start ends up serving some key, whatever fails on the way, unless the   *)
(* process dies.                                                           *)
StartServes == pc \in Step ~> pc \in {"serving", "crashed"}
=============================================================================
