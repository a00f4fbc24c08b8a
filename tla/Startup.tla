------------------------------- MODULE Startup -------------------------------
(***************************************************************************)
(* What a Warlock process does before it serves (src/main.rs): the         *)
(* preflight checks, the sweep of what earlier processes left behind       *)
(* (src/firecracker/orphan.rs), the gateway, the port.  VmLifecycle takes  *)
(* all of it as one step, Boot; here it is taken apart, a process may die  *)
(* between any two steps, and another may be started at the same time.     *)
(*                                                                         *)
(* A machine leaves one item of every kind on the host.  What a serving    *)
(* process does with its machines is left to VmLifecycle: here it makes    *)
(* and deletes them in one step.                                           *)
(***************************************************************************)
EXTENDS Preflight

CONSTANTS
  Instance,   \* processes of Warlock; one that has ended may be started again
  NoInstance, \* not one
  Machine,    \* Uuids that may be drawn; bounds the number of creates
  Hosts,      \* what the host may be like
  Dev,        \* the instances that run with WARLOCK_DEV=true
  Faults      \* crash: a process dies; probe: a write or a copy of the probe
              \* fails; unlink: a removal of its files does; cmd: a step of
              \* the sweep does

ASSUME StartupAssumption ==
  /\ NoInstance \notin Instance
  /\ Hosts \subseteq Host
  /\ Dev \subseteq Instance
  /\ Faults \subseteq {"crash", "probe", "unlink", "cmd"}

Kind == {"process", "workspace", "rootfs", "tap", "rule", "log"}
Item == Kind \X Machine

VARIABLES
  host,     \* what the host is like
  pc,       \* what each process is doing
  strategy, \* JailerConfig::copy_strategy of each process
  probe,    \* the probe files in the vm-images directory
  port,     \* the process that listens on port 3000
  vms,      \* the machines of each process
  drawn,    \* Uuids that were drawn
  left      \* what is on the host of machines

vars == <<host, pc, strategy, probe, port, vms, drawn, left>>

Phase == {"preflight", "vsock", "probe", "copy", "unprobe", "network", "term", "kill",
          "workspaces", "copies", "taps", "rules", "logs", "register", "bind"}

(* Past the probe every process knows how to copy. *)
TypeOK ==
  /\ host \in Hosts
  /\ pc \in [Instance -> Phase \cup {"off", "serving"}]
  /\ strategy \in [Instance -> {"none", "reflink", "sparse"}]
  /\ probe \subseteq {"source", "reflink"}
  /\ port \in Instance \cup {NoInstance}
  /\ vms \in [Instance -> SUBSET Machine]
  /\ drawn \subseteq Machine
  /\ left \subseteq Item
  /\ \A i \in Instance :
       /\ pc[i] = "serving" <=> port = i
       /\ strategy[i] = "none" => pc[i] \in {"off", "preflight", "vsock", "probe", "copy"}

Init ==
  /\ host \in Hosts
  /\ pc = [i \in Instance |-> "off"]
  /\ strategy = [i \in Instance |-> "none"]
  /\ probe = {}
  /\ port = NoInstance
  /\ vms = [i \in Instance |-> {}] /\ drawn = {}
  /\ left = {}

GoTo(i, label) == pc' = [pc EXCEPT ![i] = label]

Goes(i, from, to) == pc[i] = from /\ GoTo(i, to)

(* main() returns an error. *)
Aborts(i) == GoTo(i, "off")

-----------------------------------------------------------------------------
(* Preflight. *)

Start(i) ==
  /\ Goes(i, "off", IF i \in Dev THEN "term" ELSE "preflight")
  /\ strategy' = [strategy EXCEPT ![i] = IF i \in Dev THEN "sparse" ELSE "none"]
  /\ UNCHANGED <<host, probe, port, vms, drawn, left>>

CheckHost(i) ==
  /\ pc[i] = "preflight"
  /\ IF HostChecks(host) THEN GoTo(i, "vsock") ELSE Aborts(i)
  /\ UNCHANGED <<host, strategy, probe, port, vms, drawn, left>>

(* A probe file that cannot be removed is left, and nobody is told. *)
RemovesProbeFiles ==
  probe' \in IF "unlink" \in Faults THEN SUBSET probe ELSE {{}}

(* The directory of the vsock sockets is made if it is missing, and stale  *)
(* probe files are removed.                                                *)
PrepareProbe(i) ==
  /\ Goes(i, "vsock", "probe")
  /\ RemovesProbeFiles
  /\ UNCHANGED <<host, strategy, port, vms, drawn, left>>

(* Mutant: the failing write is forgotten about. *)
WriteProbeUndecided(i) ==
  /\ \/ Goes(i, "probe", "copy") /\ probe' = probe \cup {"source"}
     \/ "probe" \in Faults /\ Goes(i, "probe", "network") /\ UNCHANGED probe
  /\ UNCHANGED <<host, strategy, port, vms, drawn, left>>

(* Creates the file and writes to it.  When either fails the copies will   *)
(* be sparse, and nothing is removed, not even the file that was created.  *)
WriteProbe(i) ==
  /\ \/ Goes(i, "probe", "copy") /\ probe' = probe \cup {"source"} /\ UNCHANGED strategy
     \/ /\ "probe" \in Faults
        /\ Goes(i, "probe", "network")
        /\ strategy' = [strategy EXCEPT ![i] = "sparse"]
        /\ probe' \in {probe, probe \cup {"source"}}
  /\ UNCHANGED <<host, port, vms, drawn, left>>

CanClone == host.reflink /\ "cp" \in host.programs /\ "source" \in probe

(* `cp --reflink=always`; one that fails may leave the file it opened. *)
CopyProbe(i) ==
  /\ Goes(i, "copy", "unprobe")
  /\ \/ /\ CanClone
        /\ probe' = probe \cup {"reflink"}
        /\ strategy' = [strategy EXCEPT ![i] = "reflink"]
     \/ /\ ~CanClone \/ "probe" \in Faults
        /\ probe' \in {probe} \cup
             (IF "cp" \in host.programs THEN {probe \cup {"reflink"}} ELSE {})
        /\ strategy' = [strategy EXCEPT ![i] = "sparse"]
  /\ UNCHANGED <<host, port, vms, drawn, left>>

(* Mutant: the copy is forgotten. *)
RemoveProbeSource(i) ==
  /\ Goes(i, "unprobe", "network")
  /\ probe' = probe \ {"source"}
  /\ UNCHANGED <<host, strategy, port, vms, drawn, left>>

RemoveProbe(i) ==
  /\ Goes(i, "unprobe", "network")
  /\ RemovesProbeFiles
  /\ UNCHANGED <<host, strategy, port, vms, drawn, left>>

CheckNetwork(i) ==
  /\ pc[i] = "network"
  /\ IF NetworkChecks(host) THEN GoTo(i, "term") ELSE Aborts(i)
  /\ UNCHANGED <<host, strategy, probe, port, vms, drawn, left>>

-----------------------------------------------------------------------------
(* The sweep.  It looks at names and a user, never at who made an item.    *)

OfKind(kind) == {item \in left : item[1] = kind}

(* A step that cannot be done is skipped: its tool is missing, or it fails *)
(* for some of the items.                                                  *)
Removes(kind, tool) ==
  left' \in IF tool \subseteq host.programs
              THEN {left \ OfKind(kind)} \cup
                   (IF "cmd" \in Faults THEN {left \ X : X \in SUBSET OfKind(kind)} ELSE {})
              ELSE {left}

SweepStep(i, from, to, kind, tool) ==
  /\ Goes(i, from, to)
  /\ Removes(kind, tool)
  /\ UNCHANGED <<host, strategy, probe, port, vms, drawn>>

(* SIGTERM; a process may need longer than the two seconds that follow.    *)
(* Without pkill, or when nothing matched, SIGKILL is not tried.           *)
TermProcesses(i) ==
  /\ IF OfKind("process") # {} /\ "pkill" \in host.programs
       THEN /\ Goes(i, "term", "kill")
            /\ \E X \in SUBSET OfKind("process") : left' = left \ X
       ELSE Goes(i, "term", "workspaces") /\ UNCHANGED left
  /\ UNCHANGED <<host, strategy, probe, port, vms, drawn>>

(* Mutant: two seconds are always enough. *)
SkipKill(i) ==
  /\ Goes(i, "kill", "workspaces")
  /\ UNCHANGED <<host, strategy, probe, port, vms, drawn, left>>

KillProcesses(i)    == SweepStep(i, "kill", "workspaces", "process", {"pkill"})
RemoveWorkspaces(i) == SweepStep(i, "workspaces", "copies", "workspace", {})

(* In development mode the configured directory of the copies is no directory. *)
RemoveCopies(i) ==
  /\ Goes(i, "copies", "taps")
  /\ IF i \in Dev THEN UNCHANGED left ELSE Removes("rootfs", {})
  /\ UNCHANGED <<host, strategy, probe, port, vms, drawn>>

RemoveTaps(i)       == SweepStep(i, "taps", "rules", "tap", {"ip"})
FlushRules(i)       == SweepStep(i, "rules", "logs", "rule", {"nft"})
RemoveLogs(i)       == SweepStep(i, "logs", "register", "log", {})

-----------------------------------------------------------------------------
(* The servers. *)

(* The capacity is read and the worker registers with the gateway. *)
Register(i) ==
  /\ Goes(i, "register", "bind")
  /\ UNCHANGED <<host, strategy, probe, port, vms, drawn, left>>

Bind(i) ==
  /\ pc[i] = "bind"
  /\ IF port = NoInstance
       THEN GoTo(i, "serving") /\ port' = i
       ELSE Aborts(i) /\ UNCHANGED port
  /\ UNCHANGED <<host, strategy, probe, vms, drawn, left>>

(* In development mode there are no assets: no machine can be made. *)
Create(i, m) ==
  /\ pc[i] = "serving" /\ i \notin Dev
  /\ m \notin drawn /\ drawn' = drawn \cup {m}
  /\ vms' = [vms EXCEPT ![i] = @ \cup {m}]
  /\ left' = left \cup (Kind \X {m})
  /\ UNCHANGED <<host, pc, strategy, probe, port>>

(* What a teardown removes; the log of the jailer stays. *)
TornDown(M) == (Kind \ {"log"}) \X M

Delete(i, m) ==
  /\ pc[i] = "serving"
  /\ m \in vms[i] /\ vms' = [vms EXCEPT ![i] = @ \ {m}]
  /\ left' = left \ TornDown({m})
  /\ UNCHANGED <<host, pc, strategy, probe, port, drawn>>

Ends(i) ==
  /\ GoTo(i, "off")
  /\ port' = IF port = i THEN NoInstance ELSE port
  /\ vms' = [vms EXCEPT ![i] = {}]
  /\ UNCHANGED <<host, strategy, probe, drawn>>

(* The graceful shutdown takes every machine of the process down. *)
Stop(i) ==
  /\ pc[i] = "serving"
  /\ Ends(i)
  /\ left' = left \ TornDown(vms[i])

Crash(i) ==
  /\ "crash" \in Faults
  /\ pc[i] # "off"
  /\ Ends(i)
  /\ UNCHANGED left

-----------------------------------------------------------------------------
Checking(i) ==
  \/ CheckHost(i) \/ PrepareProbe(i) \/ WriteProbe(i) \/ CopyProbe(i) \/ RemoveProbe(i)
  \/ CheckNetwork(i)

Sweep(i) ==
  \/ TermProcesses(i) \/ KillProcesses(i) \/ RemoveWorkspaces(i) \/ RemoveCopies(i)
  \/ RemoveTaps(i) \/ FlushRules(i) \/ RemoveLogs(i)

Starting(i) == Checking(i) \/ Sweep(i) \/ Register(i) \/ Bind(i)

Next ==
  \E i \in Instance :
    \/ Start(i) \/ Starting(i) \/ Stop(i) \/ Crash(i)
    \/ \E m \in Machine : Create(i, m) \/ Delete(i, m)

Spec == Init /\ [][Next]_vars

-----------------------------------------------------------------------------
(* What the sweep can remove: without pkill processes stay. *)
Sweepable == {item \in left : item[1] = "process" => "pkill" \in host.programs}

Slate == INSTANCE CleanSlate WITH
  alive <- \E i \in Instance : pc[i] = "serving", left <- Sweepable

(* `A clean sweep on startup: all orphaned resources are destroyed`: a     *)
(* process begins to serve on a host where nothing is left that it could   *)
(* remove, whichever step of a life, a start or a sweep the earlier        *)
(* processes died in.                                                      *)
CleanStart == Slate!SlateSpec

(* `Returns an error if any required component is missing or               *)
(* misconfigured`, but for what no check looks at: a process that passed   *)
(* the checks and serves can do all that a create does on this host, in    *)
(* the way of copying that it chose, or it is one of those that fail it.   *)
NothingElseUnchecked ==
  \A i \in Instance \ Dev :
    pc[i] = "serving" /\ UncheckedHolds(host) => CanCreate(host, strategy[i])

(* No disk is copied with reflinks that cannot be made here, whichever     *)
(* start beside or before this one died or failed in its probe; and all    *)
(* that a probe leaves beside the disks is the file of a write that        *)
(* failed, the start that failed it being the one that serves.             *)
ProbeSound ==
  \A i \in Instance \ Dev : pc[i] = "serving" =>
    /\ strategy[i] = "reflink" => host.reflink /\ "cp" \in host.programs
    /\ "reflink" \notin probe
    /\ "source" \in probe => strategy[i] = "sparse"

(* `Stale resources from any previous Warlock instance that didn't shut    *)
(* down cleanly`: the sweep leaves the machines of a process that serves   *)
(* alone.                                                                  *)
LiveMachinesSpared ==
  [][ \A i \in Instance : \A m \in vms[i] \cap vms'[i] : Kind \X {m} \subseteq left' ]_vars
=============================================================================
