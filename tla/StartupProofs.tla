---------------------------- MODULE StartupProofs ---------------------------
(***************************************************************************)
(* What a start promises, on any host.                                     *)
(*                                                                         *)
(* The checks run once and the host does not change, so a process past     *)
(* them serves on a host that has all that was checked (Checked) and       *)
(* copies in a way that works there (Copies), however many processes start *)
(* beside it.  What the probe and the sweep leave behind depends on what   *)
(* another process does meanwhile: there the theorems are about one        *)
(* process after another (OneInstance), each of which may die anywhere.    *)
(***************************************************************************)
EXTENDS Startup, TLAPS

USE DEF Goes, GoTo, Aborts

Probing == {"vsock", "probe", "copy", "unprobe", "network"}

Sweeping == {"term", "kill", "workspaces", "copies", "taps", "rules", "logs", "register",
             "bind", "serving"}

LEMMA TypeInit == Init => TypeOK
<1> SUFFICES ASSUME Init PROVE TypeOK
  OBVIOUS
<1>1. vms \in [Instance -> SUBSET Machine] /\ drawn \subseteq Machine /\ left \subseteq Item
  BY DEF Init
<1>2. \A i \in Instance : pc[i] # "serving" /\ port # i /\ pc[i] = "off"
  BY StartupAssumption DEF Init
<1> QED
  BY <1>1, <1>2 DEF Init, TypeOK

(* What a step of the sweep may leave is on the host already.              *)
LEMMA RemovesShrinks ==
  ASSUME NEW kind, NEW tool, Removes(kind, tool)
  PROVE  left' \subseteq left
BY DEF Removes

(* What a removal may leave of the probe is there already.                 *)
LEMMA RemovalShrinks ==
  ASSUME RemovesProbeFiles
  PROVE  probe' \subseteq probe /\ ("unlink" \notin Faults => probe' = {})
BY DEF RemovesProbeFiles

(* The steps of a start, by what they touch: none makes anything on the    *)
(* host but the probe files.                                               *)
LEMMA TypeStep ==
  ASSUME TypeOK, [Next]_vars
  PROVE  TypeOK'
<1> USE StartupAssumption DEF TypeOK, Phase
<1>1. ASSUME NEW i \in Instance, Start(i) PROVE TypeOK'
  BY <1>1 DEF Start
<1>2. ASSUME NEW i \in Instance, Checking(i) PROVE TypeOK'
  <2>1. CASE CheckHost(i)
    BY <2>1 DEF CheckHost
  <2>2. CASE PrepareProbe(i)
    BY <2>2, RemovalShrinks DEF PrepareProbe
  <2>3. CASE WriteProbe(i)
    <3>1. /\ pc[i] = "probe" /\ probe' \in {probe, probe \cup {"source"}}
          /\ UNCHANGED <<host, port, vms, drawn, left>>
          /\ \/ pc' = [pc EXCEPT ![i] = "copy"] /\ UNCHANGED strategy
             \/ pc' = [pc EXCEPT ![i] = "network"] /\ strategy' = [strategy EXCEPT ![i] = "sparse"]
      BY <2>3 DEF WriteProbe
    <3>2. /\ pc' \in [Instance -> Phase \cup {"off", "serving"}]
          /\ strategy' \in [Instance -> {"none", "reflink", "sparse"}]
      BY <3>1
    <3>3. \A j \in Instance : /\ pc'[j] = "serving" <=> port' = j
                              /\ strategy'[j] = "none" => pc'[j] \in {"off", "preflight", "vsock", "probe", "copy"}
      BY <3>1
    <3> QED
      BY <3>1, <3>2, <3>3
  <2>4. CASE CopyProbe(i)
    <3>1. /\ pc' = [pc EXCEPT ![i] = "unprobe"] /\ UNCHANGED <<host, port, vms, drawn, left>>
          /\ \E s \in {"reflink", "sparse"} : strategy' = [strategy EXCEPT ![i] = s]
          /\ probe' \subseteq {"source", "reflink"}
      BY <2>4 DEF CopyProbe
    <3>2. pc[i] = "copy"
      BY <2>4 DEF CopyProbe
    <3>3. /\ pc' \in [Instance -> Phase \cup {"off", "serving"}]
          /\ strategy' \in [Instance -> {"none", "reflink", "sparse"}]
      BY <3>1
    <3>4. \A j \in Instance : /\ pc'[j] = "serving" <=> port' = j
                              /\ strategy'[j] = "none" => pc'[j] \in {"off", "preflight", "vsock", "probe", "copy"}
      BY <3>1, <3>2
    <3> QED
      BY <3>1, <3>3, <3>4
  <2>5. CASE RemoveProbe(i)
    BY <2>5, RemovalShrinks DEF RemoveProbe
  <2>6. CASE CheckNetwork(i)
    BY <2>6 DEF CheckNetwork
  <2> QED
    BY <1>2, <2>1, <2>2, <2>3, <2>4, <2>5, <2>6 DEF Checking
<1>3. ASSUME NEW i \in Instance, Sweep(i) PROVE TypeOK'
  <2>1. CASE TermProcesses(i)
    BY <2>1 DEF TermProcesses
  <2>2. ASSUME NEW from \in {"kill", "workspaces", "taps", "rules", "logs"},
               NEW to \in {"workspaces", "copies", "rules", "logs", "register"}, NEW kind, NEW tool,
               SweepStep(i, from, to, kind, tool)
        PROVE  TypeOK'
    BY <2>2, RemovesShrinks DEF SweepStep
  <2>3. CASE RemoveCopies(i)
    BY <2>3, RemovesShrinks DEF RemoveCopies
  <2> QED
    BY <1>3, <2>1, <2>2, <2>3 DEF Sweep, KillProcesses, RemoveWorkspaces, RemoveTaps, FlushRules, RemoveLogs
<1>4. ASSUME NEW i \in Instance, Register(i) \/ Bind(i) PROVE TypeOK'
  <2>1. CASE Register(i)
    BY <2>1 DEF Register
  <2>2. CASE Bind(i) /\ port = NoInstance
    BY <2>2 DEF Bind
  <2>3. CASE Bind(i) /\ port # NoInstance
    BY <2>3 DEF Bind
  <2> QED
    BY <1>4, <2>1, <2>2, <2>3
<1>5. ASSUME NEW i \in Instance, NEW m \in Machine, Create(i, m) \/ Delete(i, m) PROVE TypeOK'
  <2>1. Kind \X {m} \subseteq Item
    BY DEF Item
  <2>2. vms' \in [Instance -> SUBSET Machine] /\ drawn' \subseteq Machine
    BY <1>5 DEF Create, Delete
  <2>3. left' \subseteq Item
    BY <1>5, <2>1 DEF Create, Delete
  <2>4. UNCHANGED <<host, pc, strategy, probe, port>>
    BY <1>5 DEF Create, Delete
  <2> QED
    BY <2>2, <2>3, <2>4
<1>6. ASSUME NEW i \in Instance, Stop(i) \/ Crash(i) PROVE TypeOK'
  <2>1. left' \subseteq left
    BY <1>6 DEF Stop, Crash
  <2>2. pc' = [pc EXCEPT ![i] = "off"] /\ vms' = [vms EXCEPT ![i] = {}]
        /\ port' = (IF port = i THEN NoInstance ELSE port)
        /\ UNCHANGED <<host, strategy, probe, drawn>>
    BY <1>6 DEF Stop, Crash, Ends
  <2> QED
    BY <2>1, <2>2
<1>7. CASE UNCHANGED vars
  BY <1>7 DEF vars
<1> QED
  BY <1>1, <1>2, <1>3, <1>4, <1>5, <1>6, <1>7 DEF Next, Starting

(* The types, with what they say of the port and of the copy strategy, for *)
(* any number of processes.                                                *)
THEOREM StartupTypeCorrect == Spec => []TypeOK
BY TypeInit, TypeStep, PTL DEF Spec

-----------------------------------------------------------------------------
(* The checks. *)

Checked ==
  \A i \in Instance \ Dev :
    /\ pc[i] \in Probing \cup Sweeping => HostChecks(host)
    /\ pc[i] \in Sweeping => NetworkChecks(host)

(* The checks ask for all that a create needs but for what they do not     *)
(* look at; the version is compared part by part there, and as one number  *)
(* here.                                                                   *)
LEMMA ChecksSuffice ==
  ASSUME NEW h \in Host, HostChecks(h), NetworkChecks(h), UncheckedHolds(h),
         NEW way, way = "reflink" => h.reflink
  PROVE  CanCreate(h, way)
<1>1. h.version \in Nat \X Nat \X Nat
  BY DEF Host, Version
<1> DEFINE a == h.version[1]
           b == h.version[2]
           c == h.version[3]
<1>2. a \in Nat /\ b \in Nat /\ c \in Nat
  BY <1>1
<1>3. a > 1 \/ (a = 1 /\ b > 14) \/ (a = 1 /\ b = 14 /\ c >= 1)
  <2>1. PICK i \in 0 .. 3 :
          /\ \A j \in 1 .. i : h.version[j] = <<1, 14, 1>>[j]
          /\ i < 3 => h.version[i + 1] > <<1, 14, 1>>[i + 1]
    BY DEF HostChecks, FirecrackerBinary, AtLeast, MIN_FIRECRACKER_VERSION
  <2>2. CASE i = 0
    BY <2>1, <2>2
  <2>3. CASE i = 1
    BY <2>1, <2>3
  <2>4. CASE i = 2
    BY <1>2, <2>1, <2>4
  <2>5. CASE i = 3
    BY <1>2, <2>1, <2>5
  <2> QED
    BY <2>2, <2>3, <2>4, <2>5
<1>4. (a * 100 + b) * 100 + c >= 11401
  <2> HIDE DEF a, b, c
  <2> QED
    BY <1>2, <1>3
<1> QED
  BY <1>4 DEF CanCreate, UncheckedHolds, HostChecks, NetworkChecks, FirecrackerBinary, JailerBinary,
    JailerFilesystem, NetworkingPrerequisites

LEMMA CheckedStep ==
  ASSUME TypeOK, Checked, [Next]_vars
  PROVE  Checked'
<1> USE DEF TypeOK, Checked, Probing, Sweeping
<1> HIDE DEF HostChecks, NetworkChecks
<1>1. ASSUME NEW i \in Instance, Start(i) \/ Register(i) \/ Bind(i) PROVE Checked'
  BY <1>1 DEF Start, Register, Bind
<1>2. ASSUME NEW i \in Instance, Checking(i) PROVE Checked'
  BY <1>2 DEF Checking, CheckHost, PrepareProbe, WriteProbe, CopyProbe, RemoveProbe, CheckNetwork
<1>3. ASSUME NEW i \in Instance, Sweep(i) PROVE Checked'
  BY <1>3 DEF Sweep, TermProcesses, KillProcesses, RemoveWorkspaces, RemoveCopies, RemoveTaps,
    FlushRules, RemoveLogs, SweepStep
<1>4. ASSUME NEW i \in Instance, NEW m \in Machine, Create(i, m) \/ Delete(i, m) PROVE Checked'
  BY <1>4 DEF Create, Delete
<1>5. ASSUME NEW i \in Instance, Stop(i) \/ Crash(i) PROVE Checked'
  BY <1>5 DEF Stop, Crash, Ends
<1>6. CASE UNCHANGED vars
  BY <1>6 DEF vars
<1> QED
  BY <1>1, <1>2, <1>3, <1>4, <1>5, <1>6 DEF Next, Starting

(* Reflinks were seen to work. *)
Copies ==
  \A i \in Instance : strategy[i] = "reflink" => host.reflink /\ "cp" \in host.programs

LEMMA CopiesStep ==
  ASSUME TypeOK, Copies, [Next]_vars
  PROVE  Copies'
<1> USE DEF TypeOK, Copies
<1>1. ASSUME NEW i \in Instance, host' = host,
             \/ strategy' = strategy
             \/ strategy' = [strategy EXCEPT ![i] = IF i \in Dev THEN "sparse" ELSE "none"]
             \/ strategy' = [strategy EXCEPT ![i] = "sparse"]
             \/ CanClone /\ strategy' = [strategy EXCEPT ![i] = "reflink"]
      PROVE  Copies'
  BY <1>1 DEF CanClone
<1>2. ASSUME NEW i \in Instance, Start(i) \/ Starting(i) \/ Stop(i) \/ Crash(i) PROVE Copies'
  <2>1. CASE Start(i)
    BY <1>1, <2>1 DEF Start
  <2>2. CASE Checking(i)
    <3> HIDE DEF Copies, TypeOK
    <3>1. CASE WriteProbe(i)
      BY <1>1, <3>1 DEF WriteProbe
    <3>2. CASE CopyProbe(i)
      BY <1>1, <3>2 DEF CopyProbe
    <3>3. CASE CheckHost(i) \/ PrepareProbe(i) \/ RemoveProbe(i) \/ CheckNetwork(i)
      BY <1>1, <3>3 DEF CheckHost, PrepareProbe, RemoveProbe, CheckNetwork
    <3> QED
      BY <2>2, <3>1, <3>2, <3>3 DEF Checking
  <2>3. CASE Sweep(i)
    BY <2>3 DEF Sweep, TermProcesses, KillProcesses, RemoveWorkspaces, RemoveCopies, RemoveTaps,
      FlushRules, RemoveLogs, SweepStep
  <2>4. CASE Register(i) \/ Bind(i) \/ Stop(i) \/ Crash(i)
    BY <2>4 DEF Register, Bind, Stop, Crash, Ends
  <2> QED
    BY <1>2, <2>1, <2>2, <2>3, <2>4 DEF Starting
<1>3. ASSUME NEW i \in Instance, NEW m \in Machine, Create(i, m) \/ Delete(i, m) PROVE Copies'
  BY <1>3 DEF Create, Delete
<1>4. CASE UNCHANGED vars
  BY <1>4 DEF vars
<1> QED
  BY <1>2, <1>3, <1>4 DEF Next

LEMMA CheckedInvariant == Spec => [](TypeOK /\ Checked /\ Copies)
<1>1. Init => Checked /\ Copies
  BY DEF Init, Checked, Copies, Probing, Sweeping
<1> QED
  BY <1>1, TypeInit, TypeStep, CheckedStep, CopiesStep, PTL DEF Spec

(* A process that serves has passed the checks, and they suffice for all   *)
(* that a create does but for the two programs and the places of the files *)
(* that UncheckedHolds lists, for every host, every failure of the probe   *)
(* and any number of processes.                                            *)
THEOREM ServingIsCapable == Spec => []NothingElseUnchecked
<1>1. TypeOK /\ Checked /\ Copies => NothingElseUnchecked
  <2> SUFFICES ASSUME TypeOK, Checked, Copies, NEW i \in Instance \ Dev, pc[i] = "serving",
                      UncheckedHolds(host)
               PROVE  CanCreate(host, strategy[i])
    BY DEF NothingElseUnchecked
  <2>1. host \in Host
    BY StartupAssumption DEF TypeOK
  <2>2. HostChecks(host) /\ NetworkChecks(host)
    BY DEF Checked, Sweeping
  <2>3. strategy[i] = "reflink" => host.reflink
    BY DEF Copies
  <2> QED
    BY <2>1, <2>2, <2>3, ChecksSuffice
<1> QED
  BY <1>1, CheckedInvariant, PTL

-----------------------------------------------------------------------------
(* The probe. *)

OneInstance == \A i, j \in Instance : i = j

(* The probe cleans up before and after, unless its write failed. *)
Probed ==
  \A i \in Instance \ Dev :
    /\ pc[i] = "probe" => probe = {}
    /\ pc[i] \in {"copy", "network"} \cup Sweeping => "reflink" \notin probe
    /\ pc[i] \in {"network"} \cup Sweeping /\ "source" \in probe => strategy[i] = "sparse"

LEMMA ProbedStep ==
  ASSUME OneInstance, "unlink" \notin Faults, TypeOK, Probed, [Next]_vars
  PROVE  Probed'
<1> USE DEF TypeOK, Probed, Sweeping, Phase
<1>0. ASSUME NEW i \in Instance
      PROVE  Instance = {i} /\ pc[i] \in Phase \cup {"off", "serving"}
  BY DEF OneInstance
<1>1. ASSUME NEW i \in Instance, Start(i) \/ Register(i) \/ Bind(i) PROVE Probed'
  <2>1. CASE Start(i)
    BY <1>0, <2>1 DEF Start
  <2>2. CASE Register(i)
    BY <1>0, <2>2 DEF Register
  <2>3. CASE Bind(i)
    BY <1>0, <2>3 DEF Bind
  <2> QED
    BY <1>1, <2>1, <2>2, <2>3
<1>2. ASSUME NEW i \in Instance, Checking(i) PROVE Probed'
  <2>1. CASE CheckHost(i)
    BY <1>0, <2>1 DEF CheckHost
  <2>2. CASE PrepareProbe(i)
    BY <1>0, <2>2, RemovalShrinks DEF PrepareProbe
  <2>3. CASE WriteProbe(i)
    <3>1. CASE Goes(i, "probe", "copy") /\ probe' = probe \cup {"source"} /\ UNCHANGED strategy
      BY <1>0, <3>1
    <3>2. CASE /\ Goes(i, "probe", "network") /\ probe' \in {probe, probe \cup {"source"}}
               /\ strategy' = [strategy EXCEPT ![i] = "sparse"]
      BY <1>0, <3>2
    <3> QED
      BY <2>3, <3>1, <3>2 DEF WriteProbe
  <2>4. CASE CopyProbe(i)
    <3>1. pc' = [pc EXCEPT ![i] = "unprobe"]
      BY <2>4 DEF CopyProbe
    <3> QED
      BY <1>0, <3>1
  <2>5. CASE RemoveProbe(i)
    BY <1>0, <2>5, RemovalShrinks DEF RemoveProbe
  <2>6. CASE CheckNetwork(i)
    BY <1>0, <2>6 DEF CheckNetwork
  <2> QED
    BY <1>2, <2>1, <2>2, <2>3, <2>4, <2>5, <2>6 DEF Checking
<1>3. ASSUME NEW i \in Instance, Sweep(i) PROVE Probed'
  <2>1. UNCHANGED <<host, strategy, probe>>
    BY <1>3 DEF Sweep, TermProcesses, KillProcesses, RemoveWorkspaces, RemoveCopies, RemoveTaps,
      FlushRules, RemoveLogs, SweepStep
  <2>2. pc[i] \in Sweeping /\ \E to \in Sweeping : pc' = [pc EXCEPT ![i] = to]
    BY <1>3 DEF Sweep, TermProcesses, KillProcesses, RemoveWorkspaces, RemoveCopies, RemoveTaps,
      FlushRules, RemoveLogs, SweepStep
  <2> QED
    BY <1>0, <2>1, <2>2
<1>4. ASSUME NEW i \in Instance, NEW m \in Machine, Create(i, m) \/ Delete(i, m) PROVE Probed'
  <2>1. UNCHANGED <<host, pc, strategy, probe>>
    BY <1>4 DEF Create, Delete
  <2> QED
    BY <2>1
<1>5. ASSUME NEW i \in Instance, Stop(i) \/ Crash(i) PROVE Probed'
  <2>1. pc' = [pc EXCEPT ![i] = "off"] /\ UNCHANGED <<host, strategy, probe>>
    BY <1>5 DEF Stop, Crash, Ends
  <2> QED
    BY <1>0, <2>1
<1>6. CASE UNCHANGED vars
  BY <1>6 DEF vars
<1> QED
  BY <1>1, <1>2, <1>3, <1>4, <1>5, <1>6 DEF Next, Starting

(* One process after another, on a host where files can be removed: all    *)
(* that a probe leaves beside the disks is the file of the write that the  *)
(* serving process failed, and no disk is copied with reflinks that cannot *)
(* be made, wherever the earlier starts died or failed.                    *)
THEOREM ProbeIsSound ==
  ASSUME OneInstance, "unlink" \notin Faults
  PROVE  Spec => []ProbeSound
<1>1. Init => Probed
  BY DEF Init, Probed, Sweeping
<1>2. TypeOK /\ Probed /\ [Next]_vars => Probed'
  BY ProbedStep
<1>3. Copies /\ Probed => ProbeSound
  BY DEF Copies, Probed, ProbeSound, Sweeping
<1> QED
  BY <1>1, <1>2, <1>3, CheckedInvariant, PTL DEF Spec

-----------------------------------------------------------------------------
(* The sweep. *)

(* The kinds that are swept when a process has got this far. *)
SweptKinds(phase) ==
  CASE phase = "workspaces" -> {"process"}
    [] phase = "copies"     -> {"process", "workspace"}
    [] phase = "taps"       -> {"process", "workspace", "rootfs"}
    [] phase = "rules"      -> {"process", "workspace", "rootfs", "tap"}
    [] phase = "logs"       -> {"process", "workspace", "rootfs", "tap", "rule"}
    [] phase \in {"register", "bind"} -> Kind
    [] OTHER -> {}

(* Only a process that serves makes machines, in development mode none. *)
Swept ==
  \A i \in Instance :
    /\ i \in Dev => left = {}
    /\ \A item \in Sweepable : item[1] \notin SweptKinds(pc[i])

(* While the only process does not serve nothing is made, and what a step  *)
(* has swept stays so.                                                     *)
LEMMA SweptStays ==
  ASSUME OneInstance, TypeOK, Swept, NEW i \in Instance, host' = host, left' \subseteq left,
         SweptKinds(pc'[i]) \subseteq SweptKinds(pc[i])
  PROVE  Swept'
BY DEF OneInstance, Swept, Sweepable

(* A step of the sweep takes the items of its kind.                        *)
LEMMA SweptMore ==
  ASSUME OneInstance, TypeOK, Swept, "cmd" \notin Faults, NEW i \in Instance, NEW kind, NEW tool,
         host' = host, tool \subseteq host.programs \/ (kind = "process" /\ "pkill" \notin host.programs),
         Removes(kind, tool), SweptKinds(pc'[i]) \subseteq SweptKinds(pc[i]) \cup {kind}
  PROVE  Swept'
<1>1. CASE tool \subseteq host.programs
  <2>1. left' = left \ OfKind(kind)
    BY <1>1 DEF Removes
  <2> QED
    BY <2>1 DEF OneInstance, Swept, Sweepable, OfKind
<1>2. CASE kind = "process" /\ "pkill" \notin host.programs
  BY <1>2, RemovesShrinks DEF OneInstance, Swept, Sweepable
<1> QED
  BY <1>1, <1>2

LEMMA SweptStep ==
  ASSUME OneInstance, TypeOK, Checked, Swept, [Next]_vars, "cmd" \notin Faults
  PROVE  Swept'
<1> USE DEF TypeOK
<1>0. ASSUME NEW i \in Instance
      PROVE  Instance = {i}
  BY DEF OneInstance
<1>a. ASSUME NEW i \in Instance, NEW from, NEW to, NEW kind, NEW tool,
             SweepStep(i, from, to, kind, tool), SweptKinds(to) \subseteq SweptKinds(from) \cup {kind},
             tool \subseteq host.programs \/ (kind = "process" /\ "pkill" \notin host.programs)
      PROVE  Swept'
  <2>1. pc'[i] = to /\ pc[i] = from /\ host' = host /\ Removes(kind, tool)
    BY <1>a DEF SweepStep
  <2> HIDE DEF Swept, TypeOK, Removes, SweptKinds
  <2> QED
    BY <1>a, <2>1, SweptMore
<1>1. ASSUME NEW i \in Instance, Start(i) \/ Checking(i) PROVE Swept'
  <2>1. UNCHANGED <<host, left>> /\ SweptKinds(pc'[i]) = {}
    BY <1>1 DEF Start, Checking, CheckHost, PrepareProbe, WriteProbe, CopyProbe, RemoveProbe,
      CheckNetwork, SweptKinds
  <2> QED
    BY <2>1, SweptStays
<1>2. ASSUME NEW i \in Instance, Sweep(i) PROVE Swept'
  <2>1. CASE TermProcesses(i)
    <3>1. host' = host /\ left' \subseteq left
      BY <2>1 DEF TermProcesses
    <3>2. CASE pc'[i] = "kill"
      BY <3>1, <3>2, SweptStays DEF SweptKinds
    <3>3. CASE pc'[i] = "workspaces" /\ (OfKind("process") = {} \/ "pkill" \notin host.programs)
      BY <1>0, <3>1, <3>3 DEF Swept, Sweepable, OfKind, SweptKinds
    <3> QED
      BY <2>1, <3>2, <3>3 DEF TermProcesses
  <2>2. CASE KillProcesses(i)
    BY <1>a, <2>2 DEF KillProcesses, SweptKinds
  <2>3. CASE RemoveWorkspaces(i)
    BY <1>a, <2>3 DEF RemoveWorkspaces, SweptKinds
  <2>4. CASE RemoveCopies(i)
    <3>1. CASE i \in Dev
      BY <1>0, <2>4, <3>1 DEF RemoveCopies, Swept, Sweepable
    <3>2. CASE i \notin Dev
      <4>1. pc'[i] = "taps" /\ pc[i] = "copies" /\ host' = host /\ Removes("rootfs", {})
        BY <2>4, <3>2 DEF RemoveCopies
      <4>2. SweptKinds("taps") \subseteq SweptKinds("copies") \cup {"rootfs"}
        BY DEF SweptKinds
      <4> QED
        BY <4>1, <4>2, SweptMore
    <3> QED
      BY <3>1, <3>2
  <2>5. CASE RemoveTaps(i) \/ FlushRules(i)
    <3>1. CASE i \in Dev
      <4>1. left' \subseteq left
        BY <2>5, RemovesShrinks DEF RemoveTaps, FlushRules, SweepStep
      <4> QED
        BY <1>0, <3>1, <4>1 DEF Swept, Sweepable
    <3>2. CASE i \notin Dev
      <4>1. pc[i] \in {"taps", "rules"}
        BY <2>5 DEF RemoveTaps, FlushRules, SweepStep
      <4>2. {"ip"} \subseteq host.programs /\ {"nft"} \subseteq host.programs
        BY <3>2, <4>1 DEF Checked, Sweeping, NetworkChecks, NetworkingPrerequisites
      <4> QED
        BY <1>a, <2>5, <4>2 DEF RemoveTaps, FlushRules, SweptKinds
    <3> QED
      BY <3>1, <3>2
  <2>6. CASE RemoveLogs(i)
    BY <1>a, <2>6 DEF RemoveLogs, SweptKinds, Kind
  <2> QED
    BY <1>2, <2>1, <2>2, <2>3, <2>4, <2>5, <2>6 DEF Sweep
<1>3. ASSUME NEW i \in Instance, Register(i) \/ Bind(i) \/ Stop(i) \/ Crash(i) PROVE Swept'
  <2>1. host' = host /\ left' \subseteq left
    BY <1>3 DEF Register, Bind, Stop, Crash, Ends
  <2>2. pc'[i] \in {"serving", "off"} \/ (pc[i] = "register" /\ pc'[i] = "bind")
    BY <1>3 DEF Register, Bind, Stop, Crash, Ends
  <2>3. SweptKinds(pc'[i]) \subseteq SweptKinds(pc[i])
    BY <2>2 DEF SweptKinds
  <2> QED
    BY <2>1, <2>3, SweptStays
<1>4. ASSUME NEW i \in Instance, NEW m \in Machine, Create(i, m) \/ Delete(i, m) PROVE Swept'
  <2>1. pc[i] = "serving" /\ pc'[i] = "serving"
    BY <1>4 DEF Create, Delete
  <2>2. SweptKinds(pc'[i]) = {}
    BY <2>1 DEF SweptKinds
  <2>3. i \in Dev => left' \subseteq left
    BY <1>4 DEF Create, Delete
  <2> QED
    BY <1>0, <2>2, <2>3 DEF Swept
<1>5. CASE UNCHANGED vars
  BY <1>5 DEF vars, Swept, Sweepable
<1> QED
  BY <1>1, <1>2, <1>3, <1>4, <1>5 DEF Next, Starting

(* What a step is to the slate.                                            *)
LEMMA SlateKept ==
  ASSUME OneInstance, TypeOK, Swept, [Next]_vars
  PROVE  LET alive == \E i \in Instance : pc[i] = "serving"
         IN  alive \/ (~alive' /\ Sweepable' \subseteq Sweepable) \/ Sweepable' = {}
<1> USE DEF TypeOK
<1> DEFINE Alive == \E i \in Instance : pc[i] = "serving"
<1> SUFFICES ASSUME ~Alive PROVE (~Alive' /\ Sweepable' \subseteq Sweepable) \/ Sweepable' = {}
  OBVIOUS
<1>0. ASSUME NEW i \in Instance
      PROVE  Instance = {i}
  BY DEF OneInstance
<1>1. ASSUME NEW i \in Instance, Start(i) \/ Checking(i) \/ Register(i) PROVE ~Alive' /\ Sweepable' \subseteq Sweepable
  <2>1. UNCHANGED <<host, left>> /\ pc'[i] # "serving"
    BY <1>1 DEF Start, Checking, CheckHost, PrepareProbe, WriteProbe, CopyProbe, RemoveProbe,
      CheckNetwork, Register
  <2> QED
    BY <1>0, <2>1 DEF Sweepable
<1>2. ASSUME NEW i \in Instance, Sweep(i) PROVE ~Alive' /\ Sweepable' \subseteq Sweepable
  <2>1. host' = host /\ pc'[i] # "serving"
    BY <1>2 DEF Sweep, TermProcesses, KillProcesses, RemoveWorkspaces, RemoveCopies, RemoveTaps,
      FlushRules, RemoveLogs, SweepStep
  <2>2. left' \subseteq left
    BY <1>2, RemovesShrinks DEF Sweep, TermProcesses, KillProcesses, RemoveWorkspaces, RemoveCopies,
      RemoveTaps, FlushRules, RemoveLogs, SweepStep
  <2> QED
    BY <1>0, <2>1, <2>2 DEF Sweepable
<1>3. ASSUME NEW i \in Instance, Bind(i) PROVE (~Alive' /\ Sweepable' \subseteq Sweepable) \/ Sweepable' = {}
  <2>1. UNCHANGED <<host, left>> /\ pc[i] = "bind"
    BY <1>3 DEF Bind
  <2>2. \A item \in Sweepable : item[1] \in Kind
    BY DEF Sweepable, Item
  <2>3. Sweepable = {}
    BY <2>1, <2>2 DEF Swept, SweptKinds
  <2> QED
    BY <2>1, <2>3 DEF Sweepable
<1>4. ASSUME NEW i \in Instance, Crash(i) PROVE ~Alive' /\ Sweepable' \subseteq Sweepable
  BY <1>0, <1>4 DEF Crash, Ends, Sweepable
<1>5. ASSUME NEW i \in Instance, NEW m \in Machine
      PROVE  ~Create(i, m) /\ ~Delete(i, m) /\ ~Stop(i)
  BY DEF Create, Delete, Stop
<1>6. ASSUME NEW i \in Instance
      PROVE  ~Stop(i)
  BY DEF Stop
<1>7. CASE UNCHANGED vars
  BY <1>7 DEF vars, Sweepable
<1> QED
  BY <1>1, <1>2, <1>3, <1>4, <1>5, <1>6, <1>7 DEF Next, Starting

(* One process after another, and no step of the sweep fails: whichever    *)
(* step of a life, a start or a sweep the earlier processes died in, the   *)
(* next one begins to serve with nothing left that it could remove.        *)
THEOREM StartsAreClean ==
  ASSUME OneInstance, "cmd" \notin Faults
  PROVE  Spec => CleanStart
<1>1. Init => Swept /\ Slate!SlateInit
  BY DEF Init, Swept, Sweepable, SweptKinds, Slate!SlateInit
<1>2. TypeOK /\ Checked /\ Swept /\ [Next]_vars => Swept'
  BY SweptStep
<1>3. TypeOK /\ Swept /\ [Next]_vars
        => [Slate!SlateNext]_<<\E i \in Instance : pc[i] = "serving", Sweepable>>
  BY SlateKept DEF Slate!SlateNext, Slate!Serve, Slate!Shrink, Slate!Boot
<1> QED
  BY <1>1, <1>2, <1>3, CheckedInvariant, PTL DEF Spec, CleanStart, Slate!SlateSpec
=============================================================================
