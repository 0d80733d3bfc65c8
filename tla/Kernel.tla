------------------------------- MODULE Kernel -------------------------------
(***************************************************************************)
(* External: what the system tools called by storage/*.py do to a plan's   *)
(* storage, as far as the commands of storage/*.py rely on it. A state has *)
(*   made   nodes whose on-disk object exists: a hardware node's partition *)
(*          table, a partition, a LUKS header, PV, VG or LV metadata, a    *)
(*          filesystem or a swap signature;                                *)
(*   up     nodes that are live: running arrays, open mappings, active     *)
(*          volumes, mounted filesystems and swap in use.                  *)
(***************************************************************************)
EXTENDS StorageNodes

Live == {"raid1", "dm-crypt-luks", "lvm-lv", "filesystem", "swap"}

LiveNodes(plan) == {n \in DOMAIN plan : plan[n].kind \in Live}

KernelStates(plan) ==
  [made : SUBSET DOMAIN plan, up : SUBSET LiveNodes(plan)]

(* Disks start out without content; those the spec does not overwrite come *)
(* with a partition table, as partitioning them needs one.                 *)
Blank(plan) ==
  [made |-> {n \in OfKind(plan, "hardware") : "overwrite" \notin plan[n].opts},
   up   |-> {}]
-----------------------------------------------------------------------------
(* The devices n is made of, through all layers. *)
Devices(plan) ==
  LET devices[n \in DOMAIN plan] ==
        LET below == {p \in ParentsOf(plan[n]) : p < n}
        IN  below \cup UNION {devices[p] : p \in below}
  IN  devices

(* The filesystems n's mountpoint is inside of, or on top of. *)
Enclosing(plan, n) ==
  {g \in 1..(n - 1) : /\ plan[n].kind = "filesystem"
                      /\ plan[g].kind = "filesystem"
                      /\ IsPrefix(plan[g].path, plan[n].path)}

(* What is in use while n is live. *)
Beneath(plan, n) ==
  (UNION {{g} \cup Devices(plan)[g] : g \in {n} \cup Enclosing(plan, n)}) \ {n}

(* What is in use while S is live, S included. *)
Kept(plan, S) == S \cup UNION {Beneath(plan, m) : m \in S}

(* Something live rests on n. *)
Busy(plan, k, n) == \E m \in k.up : n \in Beneath(plan, m)

(* What is stored on n. *)
Content(plan, n) == {m \in DOMAIN plan : n \in Devices(plan)[m]}

(* n's device exists: everything it is made of is there. *)
Standing(plan, k, n) ==
  \A q \in {n} \cup Devices(plan)[n] :
    /\ plan[q].kind \in {"raid1", "dm-crypt-luks", "lvm-lv"} => q \in k.up
    /\ plan[q].kind \in {"partition", "lvm-pv", "lvm-vg"} => q \in k.made

(* The filesystem on top of those mounted at n's mountpoint, as a set. *)
MountedAt(plan, k, n) ==
  LET there == {g \in k.up : /\ plan[g].kind = "filesystem"
                             /\ plan[g].path = plan[n].path}
  IN  {g \in there : \A h \in there : h <= g}
-----------------------------------------------------------------------------
(* Commands that take the parent's device for themselves: refused while    *)
(* something else uses it.                                                 *)
Exclusive == {"create", "luksFormat", "open", "pvcreate", "vgcreate", "mkfs",
              "mount", "mkswap", "swapon"}

(* Commands that use the parent's device, or the group of a volume. *)
Uses == Exclusive \cup {"luksAddKey", "luksKillSlot", "lvcreate", "lvchange",
                        "vgmknodes"}

(* Commands that need the object their node made, and those that make a    *)
(* named one that must not exist yet.                                      *)
NeedsMade == {"open", "luksAddKey", "luksKillSlot", "lvchange", "mount",
              "swapon", "set", "sgdisk"}
NeedsNew == {"mkpart", "vgcreate", "lvcreate"}
NeedsDown == {"create", "open", "mount", "swapon"}

Refused(plan, k, n, op) ==
  LET parents == ParentsOf(plan[n]) IN
  \/ op \in Uses /\ \E p \in parents : ~Standing(plan, k, p)
  \/ op \in Exclusive /\ \E p \in parents : Busy(plan, k, p)
  \/ op = "mklabel" /\ Busy(plan, k, n)
  \/ op = "mkpart" /\ ~(parents \subseteq k.made \cap OfKind(plan, "hardware"))
  \/ op \in NeedsMade /\ n \notin k.made
  \/ op \in NeedsNew /\ n \in k.made
  \/ op \in NeedsDown /\ n \in k.up
  \/ op = "mountpoint" /\ MountedAt(plan, k, n) = {}

(* What the command leaves on disk when it succeeds. What was stored above *)
(* a device that is written over is gone.                                  *)
MadeBy(plan, k, n, op) ==
  CASE op \in {"zero_prefix", "zero_all"} -> k.made \ ({n} \cup Content(plan, n))
    [] op \in {"mklabel", "luksFormat", "pvcreate", "mkfs", "mkswap"} ->
         (k.made \ Content(plan, n)) \cup {n}
    [] op = "create" -> k.made \ Content(plan, n)
    [] op \in {"mkpart", "vgcreate", "lvcreate"} -> k.made \cup {n}
    [] OTHER -> k.made

UpBy(k, n, op) ==
  IF op \in {"create", "open", "lvchange", "mount", "swapon"}
  THEN k.up \cup {n} ELSE k.up

Effect(plan, k, n, op) ==
  [made |-> MadeBy(plan, k, n, op), up |-> UpBy(k, n, op)]
-----------------------------------------------------------------------------
(* What the cleanup action of a node is for: its own object, or the active *)
(* volumes of a group.                                                     *)
CleanupTargets(plan, n) ==
  IF plan[n].kind = "lvm-vg"
  THEN {l \in OfKind(plan, "lvm-lv") : n \in ParentsOf(plan[l])}
  ELSE {n}

(* What it releases: `umount` takes the filesystem on top at the           *)
(* mountpoint, and nothing is released while something live rests on it.   *)
Released(plan, k, n) ==
  LET targets == IF plan[n].kind = "filesystem" THEN MountedAt(plan, k, n)
                 ELSE CleanupTargets(plan, n)
  IN  {m \in targets : ~Busy(plan, k, m)}

(* `umount -R control.path`: when the control path is a mount, it goes     *)
(* with every mount inside it.                                             *)
UnmountedTree(plan, k) ==
  LET mounts == k.up \cap OfKind(plan, "filesystem")
      roots  == {g \in mounts : plan[g].path = <<>>}
  IN  {r \in roots : \A g \in roots : g <= r}
        \cup {m \in mounts : roots # {} /\ plan[m].path # <<>>}

Without(k, S) == [k EXCEPT !.up = @ \ S]
=============================================================================
