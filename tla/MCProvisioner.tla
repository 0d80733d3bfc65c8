--------------------------- MODULE MCProvisioner ---------------------------
(***************************************************************************)
(* Instances of Provisioner: plans with every node type, in the order      *)
(* prepare() gives them.                                                   *)
(***************************************************************************)
EXTENDS Provisioner

Nd(kind, parents) ==
  [kind |-> kind, parents |-> parents, ignore |-> FALSE, opts |-> {},
   path |-> <<>>, modules |-> {}]

Opt(node, opts) == [node EXCEPT !.opts = opts]
Ignoring(node) == [node EXCEPT !.ignore = TRUE]
Module(node, m) == [node EXCEPT !.modules = {m}]
Mnt(parents, path) == [Nd("filesystem", parents) EXCEPT !.path = path]

Disk == Opt(Nd("hardware", <<>>), {"overwrite"})

(* Partitions only, with /boot mounted inside /. *)
Plain ==
  << Opt(Disk, {"erase", "overwrite"}),
     Opt(Nd("partition", <<1>>), {"flags"}), Nd("partition", <<1>>),
     Mnt(<<2>>, <<>>), Mnt(<<3>>, <<"boot">>) >>

(* Two disks, encryption and swap. *)
Crypt ==
  << Disk, Opt(Disk, {"erase_all", "overwrite"}),
     Opt(Nd("partition", <<1>>), {"uuid"}), Nd("partition", <<2>>),
     Module(Nd("dm-crypt-luks", <<3>>), "dm_crypt"), Nd("swap", <<4>>),
     Mnt(<<5>>, <<>>) >>

(* The stack of README.md's example: RAID, LVM, encryption on a volume. *)
Layered ==
  << Disk, Disk, Nd("partition", <<1>>), Nd("partition", <<2>>),
     Module(Nd("raid1", <<3, 4>>), "raid1"), Nd("lvm-pv", <<5>>),
     Nd("lvm-vg", <<6>>), Nd("lvm-lv", <<7>>), Nd("lvm-lv", <<7>>),
     Nd("dm-crypt-luks", <<8>>), Mnt(<<10>>, <<>>), Mnt(<<9>>, <<"var">>) >>

(* A passphrase in a slot other than 0. *)
Slotted ==
  << Disk, Nd("partition", <<1>>),
     Opt(Nd("dm-crypt-luks", <<2>>), {"slot"}), Mnt(<<3>>, <<>>) >>

(* Nodes that ignore errors, among nodes that build on them. *)
Lenient ==
  << Disk, Nd("partition", <<1>>), Nd("partition", <<1>>),
     Ignoring(Nd("dm-crypt-luks", <<2>>)), Ignoring(Nd("swap", <<3>>)),
     Nd("debug", <<4>>), Ignoring(Mnt(<<4>>, <<"srv">>)) >>

(* A container on a volume group: it passes validate(), but the group has  *)
(* no device path.                                                         *)
Pathless ==
  << Disk, Nd("partition", <<1>>), Nd("lvm-pv", <<2>>), Nd("lvm-vg", <<3>>),
     Nd("lvm-lv", <<4>>), Nd("swap", <<5>>), Nd("dm-crypt-luks", <<4>>) >>

(* Two filesystems at one mountpoint, on a disk that keeps its table. *)
Doubled ==
  << Nd("hardware", <<>>), Nd("partition", <<1>>), Nd("partition", <<1>>),
     Nd("command", <<>>), Mnt(<<2>>, <<"srv">>), Mnt(<<3>>, <<"srv">>) >>

AllPlans == {<<>>, Plain, Crypt, Layered, Slotted, Lenient, Pathless, Doubled}

(* Plans that can be built again: no errors ignored, tables recreated, the *)
(* passphrase in slot 0.                                                   *)
SoundPlans == {Plain, Crypt, Layered}

PlainPlans == {Plain}

StrictPlans == {Plain, Crypt, Slotted}

SlottedPlans == {Slotted}
=============================================================================
