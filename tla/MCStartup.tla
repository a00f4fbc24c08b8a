------------------------------ MODULE MCStartup ------------------------------
(***************************************************************************)
(* Instances of Startup for TLC: a host that passes every check, and hosts *)
(* that differ from it in one thing.                                       *)
(***************************************************************************)
EXTENDS Startup

CONSTANTS i1, i2, m1, m2

GoodHost ==
  [programs |-> Program, version |-> <<1, 14, 1>>, kvm |-> TRUE, user |-> TRUE,
   opt_firecracker |-> "sda", srv_jailer |-> "sda", vm_images |-> "sda",
   kernel |-> "sda", rootfs |-> "sda",
   ip_forward |-> TRUE, chains |-> {"postrouting", "filter"}, interface |-> "route",
   reflink |-> TRUE]

Lacking(program) == [GoodHost EXCEPT !.programs = @ \ {program}]

MCGoodHosts ==
  {GoodHost, [GoodHost EXCEPT !.reflink = FALSE, !.version = <<1, 15, 0>>, !.interface = "env"]}

MCBadHosts ==
  {Lacking(program) : program \in {"firecracker", "jailer", "ip", "nft"}} \cup
  {[GoodHost EXCEPT !.version = version] : version \in {<<1, 14, 0>>, <<1, 13, 9>>, <<0, 99, 9>>}} \cup
  {[GoodHost EXCEPT !.kvm = FALSE], [GoodHost EXCEPT !.user = FALSE],
   [GoodHost EXCEPT !.srv_jailer = "sdb"], [GoodHost EXCEPT !.srv_jailer = "none"],
   [GoodHost EXCEPT !.opt_firecracker = "none", !.srv_jailer = "none"],
   [GoodHost EXCEPT !.vm_images = "none"], [GoodHost EXCEPT !.ip_forward = FALSE],
   [GoodHost EXCEPT !.chains = {"postrouting"}], [GoodHost EXCEPT !.chains = {}],
   [GoodHost EXCEPT !.interface = "none"],
   [GoodHost EXCEPT !.kernel = "none"], [GoodHost EXCEPT !.rootfs = "none"],
   [GoodHost EXCEPT !.srv_jailer = "sdb", !.vm_images = "sdb"]}

(* What the checks do not look at: a start on these hosts succeeds. *)
MCUncheckedHosts ==
  {Lacking(program) : program \in {"cp", "chown", "pkill"}} \cup
  {[GoodHost EXCEPT !.kernel = "sdb"], [GoodHost EXCEPT !.rootfs = "sdb"],
   [GoodHost EXCEPT !.vm_images = "sdb"]}

MCHosts == MCGoodHosts \cup MCBadHosts \cup MCUncheckedHosts
=============================================================================
