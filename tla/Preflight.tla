------------------------------ MODULE Preflight ------------------------------
(***************************************************************************)
(* What src/firecracker/preflight.rs and version.rs ask of a host, and     *)
(* what the program later uses of it.  A host is a record of facts.        *)
(***************************************************************************)
EXTENDS Naturals, Sequences

Version == Nat \X Nat \X Nat

MIN_FIRECRACKER_VERSION == <<1, 14, 1>>

(* Programs on the PATH, or under the path an environment variable names.  *)
Program == {"firecracker", "jailer", "ip", "nft", "cp", "chown", "pkill"}

(* Absent, or on one of two devices.  A device is that of the file or      *)
(* directory itself, behind any symlink.                                   *)
Device == {"none", "sda", "sdb"}

Host ==
  [programs : SUBSET Program,
   version : Version,                      \* what `firecracker --version` prints
   kvm : BOOLEAN,                          \* /dev/kvm
   user : BOOLEAN,                         \* a line of /etc/passwd with uid 1100
   opt_firecracker : Device,
   srv_jailer : Device,
   vm_images : Device,                     \* below srv_jailer, or a mount of its own
   kernel : Device,                        \* vmlinux and rootfs.ext4, found in
   rootfs : Device,                        \* opt_firecracker, perhaps by a symlink
   ip_forward : BOOLEAN,
   chains : SUBSET {"postrouting", "filter"},   \* of the nftables table
   interface : {"env", "route", "none"},   \* WARLOCK_HOST_IFACE, default route
   reflink : BOOLEAN]                      \* whether vm_images can clone a file

-----------------------------------------------------------------------------
(* The checks, in the order of preflight_check. *)

AtLeast(version, least) ==
  \E i \in 0 .. 3 :
    /\ \A j \in 1 .. i : version[j] = least[j]
    /\ i < 3 => version[i + 1] > least[i + 1]

FirecrackerBinary(h) ==
  "firecracker" \in h.programs /\ AtLeast(h.version, MIN_FIRECRACKER_VERSION)

JailerBinary(h) == "jailer" \in h.programs

(* Mutant: both directories exist, wherever they are. *)
AssetsAnywhere(h) == h.opt_firecracker # "none" /\ h.srv_jailer # "none"

JailerFilesystem(h) ==
  /\ h.opt_firecracker # "none"
  /\ h.srv_jailer # "none"
  /\ h.opt_firecracker = h.srv_jailer

(* The checks that come before the vsock directory and the probe ... *)
HostChecks(h) ==
  /\ FirecrackerBinary(h)
  /\ JailerBinary(h)
  /\ h.kvm
  /\ h.user
  /\ JailerFilesystem(h)
  /\ h.vm_images # "none"

NetworkingPrerequisites(h) ==
  /\ {"ip", "nft"} \subseteq h.programs
  /\ h.ip_forward
  /\ h.chains = {"postrouting", "filter"}

(* ... and the ones that come after them; without a default route the      *)
(* start panics.                                                           *)
NetworkChecks(h) ==
  /\ NetworkingPrerequisites(h)
  /\ h.interface # "none"
  /\ h.kernel # "none" /\ h.rootfs # "none"

-----------------------------------------------------------------------------
(* What a create needs of this record, read off src/handlers/vm.rs: the    *)
(* copy of the rootfs is made by cp, in the way the probe chose, and given *)
(* away by chown; the jailer hard-links kernel and copy into its chroot    *)
(* and starts a Firecracker of a version that has the API the SDK talks    *)
(* to, as uid 1100; the networking needs a device, two chains and a way    *)
(* out.  (No part of a version has three digits.)                          *)
CanCreate(h, strategy) ==
  /\ {"cp", "chown", "firecracker", "jailer", "ip", "nft"} \subseteq h.programs
  /\ h.rootfs # "none" /\ h.vm_images # "none"
  /\ strategy = "reflink" => h.reflink /\ h.rootfs = h.vm_images
  /\ h.srv_jailer # "none" /\ \A file \in {h.kernel, h.vm_images} : file = h.srv_jailer
  /\ (h.version[1] * 100 + h.version[2]) * 100 + h.version[3] >= 11401
  /\ h.kvm /\ h.user /\ h.ip_forward
  /\ \A chain \in {"postrouting", "filter"} : chain \in h.chains
  /\ h.interface # "none"

(* What no check looks at: the two programs of copy_rootfs, and where the  *)
(* files are that a check finds; it compares the two directories instead.  *)
UncheckedHolds(h) ==
  /\ {"cp", "chown"} \subseteq h.programs
  /\ h.kernel = h.opt_firecracker /\ h.rootfs = h.opt_firecracker
  /\ h.vm_images = h.srv_jailer
=============================================================================
