# A verification of Warlock in TLA+

Warlock is a single-host control plane for Firecracker virtual machines: an
HTTP API creates, lists and deletes machines, an SSH server gives access to
their consoles, and an optional gateway is told which machines the host has.
This directory holds TLA+ modules that model its code under `src/`, TLC
configurations that check them on small instances, and proofs, checked by
TLAPS, that hold for every size. Paths below are relative to the repository.

## How to run it

```
tlc -workers 2 -config Lifecycle.cfg MCVmLifecycle.tla    # any .cfg below
tlapm VmLifecycleProofs.tla                               # any *Proofs.tla
```

`PROJECT.json` lists the runs with the properties they check, for every
property a plausible bug (a *mutant*) that makes its run fail, the source lines
of every definition, the hazards, the findings and the theorems.

## The system

| Component | State | Operations | Interacts with |
|---|---|---|---|
| VM lifecycle (`src/handlers/vm.rs`, `src/app.rs`) | `vms`, a map from Uuid to Creating or Running behind a tokio mutex | `create`, `delete`, `list`, `get`, `CreateGuard::drop`, `cleanup_vm_resources` | pool, host commands, Firecracker, gateway |
| Subnet pool (`src/vm/network.rs`) | bitmap of /30 slots behind a second mutex | `allocate`, `release`, the addresses of a slot | lifecycle, shutdown |
| Sizes and capacity (`src/vm/config.rs`, `src/capacity.rs`) | none; the host's totals | validation, defaults, allocatable memory | `create` |
| Host networking (`src/firecracker/network.rs`) | tap devices, nftables rules on the host | `create_tap`, `delete_tap`, `add_nat_rules`, `remove_nat_rules` | lifecycle, shutdown, sweep |
| Rootfs copies (`src/vm/rootfs.rs`) | files in the images directory | `copy_rootfs`, `cleanup_rootfs_copy` | lifecycle, shutdown, sweep |
| Main (`src/main.rs`) | none of its own | start-up, `select!` over both servers, drain, shutdown | everything |
| Orphan sweep (`src/firecracker/orphan.rs`) | none; the host | kill processes, remove workspaces, copies, taps, rules, logs | start-up only |
| Gateway client (`src/gateway_client.rs`) | `Option<GatewayClient>`; the list at the gateway | register the worker, register and deregister machines, heartbeat | lifecycle, main |
| SSH console (`src/ssh/session.rs`, `server.rs`, `auth.rs`, `authorized_keys.rs`) | per connection: the machine, one channel id, one writer | authentication, channels, shell, data, resize | `vms` under its lock, vsock |
| SSH host key (`src/ssh/host_key.rs`) | two key files, the key in memory | load or generate, save | SSH server start |
| Preflight (`src/firecracker/preflight.rs`, `version.rs`) | probe files while it runs; the copy strategy it finds | checks of the host | start-up, `copy_rootfs` |
| Health checks, errors, logging | none | answers, mappings | - |

What is hard, and what makes each part correct:

- **Lifecycle.** Handlers interleave at every `await`; a create runs for
  seconds between its placeholder and its upgrade without the lock; some
  critical sections await or run host commands with the lock held; a future may
  be dropped at any await because the client hung up; a blocking job then goes
  on without its handler. Correct means: a create never over-commits the host,
  its placeholder stays until it comes back, a running machine keeps its
  resources, and every way out of a create or a delete gives back what it took.
- **Pool.** Its bitmap does not know owners: `release` clears a bit whoever
  asks. Correct means that the callers pair each `allocate` with one `release`,
  that no slot has two users, and that a slot is clean when it is free.
- **Host commands.** Every one may fail, and failures of clean-up are only
  logged. Correct means that a failure does no harm to other machines.
- **Main.** A SIGTERM, an SSH server that stops and requests in flight race with
  the shutdown. Correct means that a drained shutdown leaves nothing on the
  host and always ends.
- **Sweep.** After a crash the host must be clean before the first create, for
  the new pool hands out the lowest slot again.
- **Gateway.** Calls time out, get lost and overtake each other, and some are
  made with the lock of `vms` held. Correct means that the worker never depends
  on them, and that the list follows the machines.
- **Console.** Several channels share one connection's state, two spawned tasks
  outlive the handler and the connection, and the machine may be deleted between
  the look-up and the connection. Correct means that only a listed key gets to a
  machine, that bytes arrive complete and in order, and that a console ends with
  its machine or its client.
- **Host key.** The file is written in place by a process that may die, and every
  step may fail. Correct means that clients see one key for ever, and that the
  server starts all the same.
- **Preflight.** What it forgets shows only in the first create; its probe leaves
  files if the process dies or the probe fails half-way. Correct means that
  nothing else is forgotten, and that copies are made in a way that works.

`PROJECT.json` lists every hazard at its line with the properties aimed at it.

## The modules

| Module | What it is |
|---|---|
| `SubnetPool` | the bitmap, first-free allocation, release, and the addresses of a slot with their casts to `u8` |
| `VmConfig` | resolution and validation of a request, the limits of a machine's cgroup, the widths of the capacity check |
| `VmLifecycle` | the core: create, delete, the guard, rollbacks, shutdown, crash and restart over `vms`, the pool and the host |
| `SubnetLedger` | abstract: subnets are lent to one machine at a time, returned or lost, lost ones not lent again before a restart |
| `VmMap` | abstract: the life of a Uuid in the map, the map's lock and the machine's process, as the rest of the program sees them |
| `CleanSlate` | abstract: a process begins to serve on a clean host, and between two processes nothing appears on it |
| `Gateway` | what the worker tells the gateway and when, with late and lost calls |
| `SshConsole` | authentication, channels, shells and the two tasks of a console, over the machines of `VmMap` |
| `HostKey` | load, generate and save of the host key, one system call at a time, over restarts |
| `Preflight` | what is asked of a host, and what a create needs of it |
| `Startup` | a start taken apart: checks, probe, sweep, port, for several processes |
| `MCVmLifecycle`, `MCGateway`, `MCSshConsole`, `MCStartup` | instances for TLC |
| `VmLifecycleProofs` | theorems: types, exclusive subnets, addresses, and the invariants that the next three build on |
| `CapacityProofs` | theorems: the capacity check and the cgroups |
| `ResourceProofs` | theorems: what keeps its resources, and what is not left behind |
| `RefinementProofs` | theorems: `VmLifecycle` implements `CleanSlate`, `VmMap` and `SubnetLedger` |
| `GatewayProofs`, `SshConsoleProofs`, `HostKeyProofs`, `StartupProofs` | theorems of those modules |

How they fit together. `VmLifecycle` implements three abstract specifications:
`SubnetLedger` (as `SubnetsLent`), `VmMap` (as `MachinesLiveOnce`) and
`CleanSlate` (as `BootsClean`). `SshConsole` extends `VmMap`: its machines move as
that specification lets them, so what is checked of consoles holds for every
interleaving with the lifecycle without a product of the two state spaces.
`Startup` implements `CleanSlate` too (as `CleanStart`): there a start is some
fifteen steps any of which may be the last, in `VmLifecycle` it is the one step
`Boot`, and both keep the same promise.

### VmLifecycle

Every create draws a fresh Uuid, so a machine `v \in Vm` stands for the request
that creates it, and `Vm` bounds how many there are. State and code:

| Variable | In the code |
|---|---|
| `pc`, `size`, `slot` | where the handler of `create` is, and its locals `vcpus`/`memory_mb` and `subnet.index` (later in `VmResources`) |
| `dropped` | handlers whose future is gone while a `spawn_blocking` job runs |
| `vms` | `AppState::vms`, with `absent` for no key |
| `pool` | `AppState::subnet_pool` |
| `holder`, `victim`, `stage` | who holds the lock of `vms` over several steps, the entry it tears down, and the next step of that |
| `mode` | `main`: serving, draining after a signal, closing (servers stopped, drained), aborting (SSH server stopped, HTTP handlers alive), exiting, exited |
| `taps`, `rules`, `rootfs`, `procs` | the host |

The order of a create is the code's: validate (`CreateBegin`), copy the rootfs
(`CopyRootfs`), allocate a subnet (`AllocateSubnet`), one blocking job for tap
and rules (`CreateTap`, `AddNatRules`), the capacity check with the placeholder
in one critical section (`Reserve`, or `Reject` with its rollback under the
lock), the Firecracker setup without the lock (`StartVmm`, `Configure`), then
`Upgrade`, or `SetupFails` and `CreateError`. `DeleteBegin` takes the entry out
and holds the lock through `StopInstance`, `TeardownTap`, `TeardownNat`,
`TeardownRelease` and `TeardownRootfs`. The error path of a create, the rollback
of a rejected one and the shutdown use the same steps in the code's order for
each (`AfterTap`, `AfterNat`, `AfterRelease`). Critical sections that await
nothing are one step; the pool's mutex is never held over an await and is not a
variable, except that a guard's `try_lock` may find it taken.

`Faults` says what may go wrong, so that a run can say what its properties rest
on: `cancel` (a future dropped at an await: the client hung up, or a panic),
`cmd` (a host command fails), `exit` (a Firecracker process ends by itself),
`crash` (the process is killed), `ssh` (the SSH server cannot bind, or ends
because an accept failed). A setup may fail in every run.

Abstractions. A blocking job is one step per host resource, not per command;
what a failing command may leave behind is a choice. A crash also ends the
commands it had started. Requests that change nothing (a 404, a 409 on DELETE, a
GET of a machine that is not running) are stuttering steps; `list` and `get` of
running machines hold the lock while Firecracker answers (`ReadLock`). Memory is
in MB as in the code; a sum over entries is the number of units of its entries,
which TLC counts and TLAPS can reason about. Memory sums do not wrap: they are
sums of `u32` in a `u64`.

### Gateway

The module keeps of a create only what matters here: the placeholder, the
upgrade, and the registration after the lock is released. A delete deregisters
with the lock held; the shutdown deregisters every key before it drains the
map. `calls` are calls sent and not served. A caller goes on when its call has
been served (`Serve`), refused or lost (`Lose`), or when 5 s are over; the call
may then still be served later. `client` is `None` when the worker could not
register. The gateway itself is external: it adds and removes what it is told.
Heartbeats change nothing at the worker and are left out. The resources of the
machines are those of `VmLifecycle`; the two modules share the map, its lock and
the phases of `main`. `unsure` is a history variable: the machines of which some
report was not sent, not served in time or cut off by the end of its caller. The
properties about the list leave exactly these out, so that they can be checked
with every fault at once.

### SshConsole

| Variable | In the code |
|---|---|
| `conn`, `key`, `vm_id`, `channel_id`, `uds_writer` | a `SessionHandler` and its connection; `uds_writer` names the console whose queue the sender feeds |
| `handler` | the handler of the connection that runs: a shell request that looks the machine up, connects, or waits in the handshake |
| `shells`, `closed`, `sent` | shell requests in order, channels closed, chunks the client sent |
| `console` | for each shell request the socket, the task that reads it, the task that writes it, the queue between, and what was read and written |
| `screen` | what each channel showed |

Handlers of one connection run one after another (russh calls them in a loop),
those of two connections and all tasks interleave at every await. While a handler
runs, the session delivers no output of the connection's other consoles; that is
why the reader waits for `handler = "idle"`. `ShellLookup` takes the lock of the
map, copies the path and lets go; the machine may be gone, and its process ended,
at `ShellConnect` or later. As in the code the channel a shell is asked for on is
ignored: the console gets the latest one. The vsock proxy of Firecracker and the
guest's listener are external: they accept or refuse, write, and hang up.

### HostKey

`Load`, `Generate` and the steps of `save_host_key` in the code's order; a file is
truncated in one step and complete in the next. The process may die before every
step (`Crash`) and each step of the save may fail, after which the caller warns
and serves the key (`FallsBack`). A generated key is named by the start that
generated it. `settled` is a history variable: the first key that was served and
saved. The fault `read`, a load that fails although the file is good, is used by
no run: with it `HostKeyStable` is false (see *Other disagreements*).

### Preflight and Startup

A host is a record of facts; `HostChecks` and `NetworkChecks` ask for them in the
order of `preflight_check`, with the directory of the vsock sockets and the probe
for reflinks between them as steps of their own. `CanCreate` is written from the
other side: from what `create` runs and links, with the way of copying that the
probe chose. The checks do not ask for all of it: nobody looks for `cp` and
`chown`, and the check of the file systems compares the directories
`/opt/firecracker` and `/srv/jailer`, while kernel and base image may be symlinks
out of the former and the images directory a mount inside the latter.
`UncheckedHolds` is that list; a host outside it is served on and every create
fails. `NothingElseUnchecked` says that the list is complete. (A host record has
no privileges, free space or `/dev/net/tun`.)

The steps of the probe may fail (`probe`), its write and its copy half-way:
`fs::write` may create the file and then fail, and returns before the clean-up.
The errors of `remove_file` are ignored: with the fault `unlink` any probe file may
stay. No run has that fault, with it the parts of `ProbeSound` about files are
false; `ServingIsCapable` holds with it all the same. `Startup` follows `main` up to the port and
treats machines coarsely: a create leaves an item of every kind on the host, a
delete or a stop takes them away but for the jailer's log. The sweep looks at
names and a user, never at who made an item. In development mode (`Dev`) the
checks are skipped, the sweep is not, and no machine can be made.

## What the runs show

| Run | Instance | States | Properties |
|---|---|---|---|
| `lifecycle` | 3 machines, exit | 148 172 | `TypeOK`, `CapacityNeverExceeded`, `CgroupsFit`, `NetworkOwned`, `CleanExit`, `DeleteReleasesEverything` |
| `lifecycle_faults` | 3 machines, cancel, crash, ssh | 397 765 | `RunningIntact`, `FreeSlotHasNoTap`, `PlaceholderStaysWhileServing`, `SubnetsLent`, `MachinesLiveOnce`, `BootsClean` |
| `lifecycle_commands` | 2 machines, cmd, ssh, fair | 116 309 | `IInv`, `SubnetExclusive`, `CreateAnswered`, `PlaceholderResolved`, `ShutdownCompletes`, `LockReleased`, `RemovedProcessEnds` |
| `gateway` | 2 machines, all faults, fair | 22 520 | `TypeOK`, `RunningListed`, `SettledMachinesLeave`, `DeleteAnswered`, `CreateAnswered`, `ShutdownCompletes` |
| `console_channels` | 1 machine, 1 connection, 2 channels, fair | 219 134 | `TypeOK`, `InputInOrder`, `InputDelivered` |
| `console_liveness` | 2 machines, 1 connection, 1 channel, fair | 300 700 | `ConsoleAuthorized`, `OutputBeforeClose`, `ConsoleOfGoneMachineEnds`, `AbandonedConsoleReleased` |
| `host_key` | 5 starts, crash, disk, fair | 472 | `TypeOK`, `HostKeyStable`, `StartServes` |
| `restarts` | 28 hosts, 2 machines, crash, probe | 12 804 | `TypeOK`, `NothingElseUnchecked`, `ProbeSound`, `CleanStart` |

- While nothing of the host fails, whatever the mix of 409s, failed setups and
  deletes: the sums over creating and running machines never exceed the host;
  what their cgroups grant fits too, for up to five machines; every bit, tap and
  rule belongs to a create under way, an entry or a teardown; a delete that
  lets go of the lock has released everything; an exit leaves the host clean.
- With handlers dropped at any await, crashes and an SSH server that stops:
  resources may leak, but a running machine keeps its process, tap, rules and
  disk, a free slot never has a stale tap (which would make every later create
  fail), a placeholder stays until the shutdown or the exit cuts in, a slot
  changes hands only through a release, a Uuid enters and leaves the map once,
  and every restart begins with a clean host.
- With failing commands subnets stay exclusive; and under fairness every create
  is answered, every placeholder resolved, the lock let go of, the process of a
  machine that left the map ended, and a SIGTERM ends the program.
- The worker survives a gateway that never answers; the list follows the
  machines whose reports arrived.
- A console is opened only to a listed key, chunks are neither lost, doubled nor
  swapped and every one that was queued is written to its console, even when a
  second shell of the connection takes the sender over while the first one's
  queue is not empty, or the client leaves; output is complete before the channel closes, a deleted machine ends its consoles, and
  an abandoned console is let go of.
- The host key survives crashes at any system call and failing writes, and a
  start that lives serves some key.
- A start that gets to serve does so on a host where a create can work, unless
  the host fails one of the few things no check looks at; with at most the file of
  its own failed write left of the probe; and with nothing left that the sweep can
  remove.

Four runs fail on purpose, each against a sentence of the repository:

| Run | What the code does |
|---|---|
| `rejected_rootfs` | a create refused for capacity (or subnets, or networking) leaves its rootfs copy until the next start; ADR 001 counts one copy per running VM |
| `dropped_delete` | a DELETE whose client hangs up during `instance.stop()` loses the only record of the tap, rules, subnet and copy; ADR 001 calls clean-up deterministic |
| `stale_registration` | a DELETE after the upgrade of a create whose call is served before the create's registration leaves the machine on the gateway's list; `docs/gateway.md` says it is removed |
| `second_instance` | a second process, here one in development mode, sweeps the machines of the one that serves before it finds the port taken; `main.rs` speaks of an instance that did not shut down cleanly |

### Other disagreements

Met while modelling; the model contains each of these behaviours, no run checks
the sentence.

- `src/handlers/vm.rs:316` says of a removed placeholder `shouldn't happen`: when
  the SSH server stops, the shutdown drains the placeholders of creates that
  still run (`SshStopped`, `ShutdownNext`).
- `docs/architecture.md:143`: `The entire create operation holds the lock to
  prevent race conditions on capacity checks`. It does not; the placeholder is
  what prevents the race (`Reserve`).
- `docs/architecture.md:145`: orphan detection is `planned but not yet
  implemented`. It is (`Startup`).
- `docs/architecture.md:149`: `Warlock prevents overcommitting host resources`.
  Each cgroup is granted 50 MB for Firecracker that the capacity check does not
  count: six machines of 128 MB on a host of 1024 MB may use 1068 MB
  (`CgroupsFit` stops at five).
- `src/capacity.rs:34`: `Returns the number of available CPU cores`. Modulo 256
  (`TotalCpus`).
- `docs/decisions/003-ssh-console-access.md:92`: `Bidirectionally proxies: SSH
  channel <-> UDS`. A second channel of a connection takes over the first one's
  input, or gets its output (`ShellAttach`, `Data`); and what the guest writes so
  early that it is read together with the `OK` of the handshake is dropped
  (`Swallowed`).
- `src/ssh/host_key.rs:12`: the host key is persistent. One failed read of a good
  file replaces it (`Load` with the fault `read`).
- `src/ssh/host_key.rs:61`: `Using ephemeral key (will change on restart)`. If the
  save failed after the private key was written, the next start loads that key
  (`ChmodPrivate` and later steps).
- `docs/decisions/003-ssh-console-access.md:140`: `Public component` next to the
  private key. After a crash between the two files it is missing or another
  key's, and no later start writes it.
- `src/firecracker/preflight.rs:16`: `Returns an error if any required component is
  missing or misconfigured`. Not for `cp` and `chown`, which every create runs
  (`src/vm/rootfs.rs:37`, `:49`), nor for a kernel or an images directory on another
  device than `/srv/jailer`, from which the jailer hard-links, nor for a base image
  on another device than the images when the probe has found reflinks
  (`UncheckedHolds`). Such a host serves and fails every create.
- `src/firecracker/preflight.rs:450` and `:465`: `Clean up any stale probe files`,
  `Clean up`. A write that fails after it has created `.warlock-probe` returns
  before the second one (`WriteProbe`), and neither looks at whether it removed
  anything (`RemovesProbeFiles`); the sweep takes `.ext4` files only. What is left
  stays at least until the next start.
- `src/firecracker/orphan.rs:12`: the tools of the sweep `are known to be
  available`. `pkill` is not checked for (`NetworkingPrerequisites`).

### Bounds, and why they are enough

- *Machines*: 3 where no command fails, 2 with every fault. Two are needed for
  every race on a slot or on the lock; the third makes it possible for a create
  to meet a delete and another create at once, and for the pool to be exhausted.
- *Slots*: 2, so that 3 machines exhaust the pool, and lowest-free differs from
  any-free. *Chains*: both.
- *Requests*: defaults (1 vCPU, 128 MB), 2 vCPUs with 130 MB, 1 vCPU with
  300 MB, and 3 vCPUs, which validation refuses; the runs with faults use a
  subset. The host has 3 vCPUs and 646 MB, 390 MB of it allocatable, so that
  some pairs fit, some fail for memory alone and some for vCPUs alone.
- `lifecycle_commands` has machines of one size (2 vCPUs), two of which do not fit:
  a create meets a full host, a delete and a shutdown, and the liveness check
  stays small. Two running machines are what the other two runs have.
- *Consoles*: two shells of one connection are what share state; connections share
  nothing but the map, which they only read. Two chunks each way show an order; a
  gap takes a third chunk, which `InputsInOrder` has for any number. In
  `console_channels` guests write nothing (what they write goes another way) so that
  the liveness of two shells can be checked; in `console_liveness` they do.
  In `console_liveness` the client has either of two keys, one of which the first
  machine lists only in a comment and in a line that cannot be decoded.
- *Host key*: after two starts the files have every shape they can have; five leave
  room for failures in between.
- *Hosts*: one that has everything, one without reflinks, with a newer version and
  an interface from the environment, one for every check that lacks just that, and
  one for each thing no check looks at.
- *Restarts and crashes* are not bounded (the host key's starts are); creates are, by `Vm`.
- *Symmetry* over machines is used in the safety runs of the lifecycle only,
  never where a liveness property is checked.

What these bounds cannot show, the width of the `u8` sum and arbitrary hosts, is
what the capacity theorem is for.

### Fairness

A step of a handler is weakly fair: tokio polls a woken task, and host commands
and Firecracker are assumed to answer. The code sets no timeout on them; a
Firecracker process that hangs in `list` would hold the lock for ever, which is
listed as a hazard. Steps that wait for the lock of `vms` are strongly fair,
because tokio's mutex is FIFO: a waiter gets it although others take it again
and again. The drain is strongly fair because no request is accepted after the
signal and those in flight, reads included, are finitely many; the model lets
reads go on, so a weakly fair drain would be starved by reads that the code
does not have. Requests, deletes, signals, drops, failures, crashes and restarts
are not fair: nothing has to happen. In `Gateway` a caller is fair because of
its 5 s timeout; the gateway is fair only in instances without lost calls.

Of the map `SshConsole` assumes what `VmLifecycle` is checked to provide: the lock
is let go of (`LockReleased`) and the process of a machine that has left the map
ends (`RemovedProcessEnds`). The latter does not hold after a crash, but then
there is no console either; that is why `lifecycle_commands` has none. Shell
requests and tasks are fair, the look-up and the reader strongly so, because the
lock and the session serve their waiters in turn. Nothing makes a guest answer,
write or hang up. A start of the host key is a straight line of system calls.

`HostKey.cfg` says `CHECK_DEADLOCK FALSE`: after the last of its bounded starts the
model stops. Everywhere else a deadlock would be an error.

## What is proved

Every safety invariant and every action property or refinement that a passing run
checks is also a theorem; only the liveness properties are left to TLC. The
theorems hold for every value of the constants that satisfies the named
assumptions of the modules:

| Assumption | What it allows |
|---|---|
| `MaxSubnetsAssumption` | 1 to 16384 subnets, what the /30s of a 172.16.0.0/16 give |
| `ConstantsAssumption` | any finite set of machines, any requests, any number of cores from one, any memory, any set of faults |
| `GatewayAssumption` | any set of machines, any set of faults |
| `ConsoleAssumption` | any connections, machines and keys, any `authorized_keys` lines, any number of channels and length of input and output |
| `HostKeyAssumption` | any number of starts, any set of faults |
| `StartupAssumption` | any processes, hosts and machines, any set of faults |

Some theorems have a hypothesis on top, of one of these three kinds, and each
because the code does not keep the promise without it:

- *No failing command* (`"cmd" \notin Faults`, for `FreeSlotsClean`, `RestartsClean`
  and `StartsAreClean`): a teardown logs a failed command and goes on, and so
  does the sweep; what the command was to remove stays. Likewise `KeyPersists`
  needs that a good key file can be read (`"read" \notin Faults`), else the code
  makes a new key, and `ProbeIsSound` that the files of the probe can be removed
  (`"unlink" \notin Faults`), for nobody looks at whether they were.
- *Nobody interferes with handlers* (`Faults \subseteq {"exit", "crash"}` for
  `NothingLeaks`, `Faults \subseteq {"exit"}` for `ExitIsClean` and
  `DeleteReleases`): a dropped handler loses what it had taken out of the map
  (`dropped_delete` shows it for a delete), and a crash is an exit or the end of
  a delete without a teardown.
- *One process after another* (`OneInstance`, for `ProbeIsSound` and
  `StartsAreClean`): a second one probes and sweeps under the first one
  (`second_instance`).

No hypothesis excludes the races between handlers, 409s, failed setups, restarts
or shutdowns.

### VmLifecycle

- `Invariant`, `TypeCorrect`, `SubnetsExclusive` (`VmLifecycleProofs`). No two
  machines share a subnet. That is not inductive by itself: a teardown releases
  its victim's slot, and this is safe only if the victim is in no map, is the
  only one being torn down, and no create will use its slot again.
  `LockConsistent` says so, from the lock of `vms` and the order of a create;
  `QuietAfterExit` is needed because a restart forgets every slot. The
  inductive invariant is `IInv == TypeOK /\ LockConsistent /\ QuietAfterExit /\
  SubnetExclusive`, also checked by TLC in `lifecycle_commands`.
- `AddressesDisjoint` (`VmLifecycleProofs`). The tap and guest addresses of a slot
  lie in its own /30, for each of up to 16384 slots: the casts lose nothing.
- `MapInvariant` (`VmLifecycleProofs`, a lemma most of the others start from):
  `MapInv == IInv /\ EntryConsistent`. A process exists only past its setup, a
  running entry has a finished create, and a rollback that holds the lock is of a
  create that waits for it.
- `CapacityRespected` (`CapacityProofs`). Racing creates never over-commit. A
  step either adds no entry and resizes none (`EntriesStep`), and then the sums
  do not grow (`UnitsSubset`), or it is `Reserve`, which adds at most the size
  it checked (`UnitsAdd`). The `u8` sum is exact because it never exceeds the
  host's vCPUs, which are its cores modulo 256 and so never more than those;
  `EntriesFit` makes the sums finite in the first place.
- `CgroupsFitHost` (`CapacityProofs`). What the cgroups grant is the sum of the
  sizes plus a fixed overhead per machine (`UnitsOverhead`), and up to five
  overheads fit in what the capacity check keeps back for the host. It needs
  `SizesValid`: only a validated size gets into the map.
- `PlaceholderKept` (`ResourceProofs`). Until the SSH server stops by itself or the
  process exits, nothing takes the placeholder of a create being set up. It needs
  that a drain leaves only creates without a handler, that those are before their
  placeholder, and that the lock is free when it ends (`PlaceholderInv`).
- `RunningStaysIntact` (`ResourceProofs`), under every set of faults. The
  invariant `MadeInOrder` says for each place of a create what it has made by
  then. It is kept because a removal takes the things of one machine, which is
  out of the map by then (`EntryConsistent`) and has its slot for itself
  (`SubnetExclusive`).
- `FreeSlotsClean` (`ResourceProofs`). Crashes and dropped handlers included, a
  free slot has no tap. `TapsAllocated` adds that a create that is about to make
  its tap finds none, and that a teardown that is about to release has removed it.
- `NothingLeaks`, `ExitIsClean` (`ResourceProofs`). Two invariants: `Calm` (the
  shutdown follows a drain that left no handler, and the exit follows a shutdown
  that left no entry) and `Owned` (a create has no rules before it adds them, a
  teardown has none left when it releases, and a process has an entry or is
  about to be stopped). `StillOwned` is the one argument for every step: owners
  stay, or leave nothing.
- `DeleteReleases` (`ResourceProofs`), from `Owned`: a delete lets go of the lock
  only in its last step, and what the earlier ones removed nobody made again.
- `MapImplemented` (`RefinementProofs`): `Spec => MachinesLiveOnce`, what lets the
  console be checked against `VmMap` alone. With `MapInv` every action is a step
  of `VmMap`, and most are stutters.
- `SubnetsAreLent` (`RefinementProofs`): `Spec => SubnetsLent`, under every set of
  faults. A step gives the subnet of one machine up, with its bit or without
  (`GivenUp`), lends one that is free and so, by `SubnetExclusive`, nobody's, or
  leaves subnets and owners alone (`Kept`); each of these is a step of the ledger.
- `RestartsClean` (`RefinementProofs`): if the commands of the sweep work,
  `Spec => BootsClean`. The point is that between two processes only a Firecracker
  process that ends by itself and the next boot have steps, which follows from
  `QuietAfterExit`.

### Gateway

- `GatewayTypeCorrect`, `RunningAreListed` (`GatewayProofs`), under every set of
  faults. The invariant `GInv` adds to the types what the holder of the lock is at
  (`LockConsistent`), that a create enters its machine once (`CreatesOnce`), and
  `CallsOrdered`: a register call is only on its way while its create waits for
  it, a deregister call only once its machine has left the map or the shutdown has
  the lock. Without that a late call could undo what a later one reported. Calls
  of which it cannot be said are those of a machine in `unsure`.
- `SettledAreForgotten` (`GatewayProofs`): once a machine is settled every later
  state satisfies `Leaves`, which follows the machine through delete or shutdown
  to the deregistration that is served, or marks it unsure.

### SshConsole

`ConsoleTypeCorrect`, `ConsolesAuthorized`, `InputsInOrder`, `OutputsBeforeClose`
(`SshConsoleProofs`) follow from one inductive invariant, `SInv`, whose parts are:

- `ShellsConsistent`, `AttachedOnce`: a console is dialed by one shell request, and
  before it is attached nothing went through its socket and no task serves it.
- `Authorized`: what a login was found to be (`LoggedIn`) stays true because
  `VmMap` lets a machine only go; a console that was dialed had such a login and
  a process (`Backed`). So the late look-up of a shell request is harmless.
- `InputRun`: what was delivered and what waits are one run of the client's chunks,
  ending with the latest while the connection's sender feeds this console. The
  sender never comes back to a console it has left, hence no gap after a second
  shell.
- `OutputKeepsOrder`: what the guest wrote is what the handshake swallowed, then
  what the channel shows, then what waits in the socket (`Waits`, `Shown`), and a
  task that ended by itself found the socket empty and its peer gone
  (`EndsDry`). It is about consoles that have their channel to themselves
  (`Alone`), as `OutputBeforeClose` is; `UnusedChannel` starts it.

The proof first says of every action what it does to one console (the lemmas
named `...Effect`), and then takes the parts of the invariant one by one.

### HostKey and Startup

- `KeyPersists`, `KeyTypeCorrect` (`HostKeyProofs`), for any number of starts.
  Persistence is inductive with `SettledOnDisk`: once a key is settled the file
  holds it and no start gets past its load, so that the save is never reached
  again. The types hold under every fault.
- `StartupTypeCorrect`, `ServingIsCapable` (`StartupProofs`), for any number of
  processes side by side and every fault. `Checked` says which checks lie behind a
  process, `Copies` that it copies in a way that was seen to work here, and
  `ChecksSuffice` that together with `UncheckedHolds` they are all a create needs.
- `ProbeIsSound` (`StartupProofs`), from `Copies` and `Probed`: the probe removes its
  files before and after, so a process that died between leaves nothing for long,
  and the file of a failed write comes with sparse copies.
- `StartsAreClean` (`StartupProofs`): `Spec => CleanStart`. `Swept` lists the kinds
  of leftovers that are gone at each step of the sweep; the step to serving is
  the clean start of `CleanSlate` because all of them are.

### What is only model-checked

- The liveness properties: `CreateAnswered`, `PlaceholderResolved`,
  `ShutdownCompletes`, `LockReleased` and `RemovedProcessEnds` of `VmLifecycle`,
  `DeleteAnswered`, `CreateAnswered` and `ShutdownCompletes` of `Gateway`,
  `ConsoleOfGoneMachineEnds`, `AbandonedConsoleReleased` and `InputDelivered` of
  `SshConsole`, `StartServes` of `HostKey`. Arguments about `ENABLED` and fairness
  are out of reach of the provers used here.
- That the four sentences of the failing runs are violated: a behaviour is shown
  by a counterexample, not proved.
- That the fairness `SshConsole` assumes of `VmMap` is what `VmLifecycle` provides
  (`LockReleased`, `RemovedProcessEnds`): the refinement theorem is about safety.

## What is not modelled

- Health checks, error mapping, logging, routing: no state.
- The gateway's own behaviour beyond adding and removing, and heartbeats.
- What programs print and how it is parsed: the facts it yields are taken.
- The guest, and Firecracker's vsock proxy beyond what a console sees of them.
- `/proc/meminfo`: the memory of the host is a constant.
- The mode bits of key files, and of a chunk of data anything but its place.
- A failing key generator and a failing bind of the SSH server in `HostKey` (the
  latter is the fault `ssh` of `VmLifecycle`).
- The time for which the process of a create without placeholder still runs while
  the create reports it to the gateway: `Upgrade` ends it at once.

## Plan

Done: the lifecycle with its abstractions, the gateway's reports, the console, the
host key, the checks and the start, and the proofs of their safety properties.
Left, in order of importance:

1. `Gateway` shown to implement `VmMap`, as the link between the modules that share
   the map; it has no processes of its own, so that the mapping must add them.
2. The console's reader and writer shown to implement a pair of abstract byte
   streams, of which `InputInOrder` and `OutputBeforeClose` are the main parts.
