---------------------------- MODULE StorageNodes ----------------------------
(***************************************************************************)
(* The node types of a storage spec: what each one runs, verifies and      *)
(* undoes, and what Executor.prepare promises about a list of them.        *)
(*                                                                         *)
(* A plan is the list prepare() returns: a sequence of node records whose  *)
(* `parents` are positions in that sequence. Options that add commands are *)
(* members of `opts`, as are two traits of a passphrase; names and sizes    *)
(* are left out. A mountpoint is the sequence of its path components.      *)
(***************************************************************************)
EXTENDS Integers, Sequences, SequencesExt

Kind == {"hardware", "partition", "raid1", "dm-crypt-luks", "lvm-pv",
         "lvm-vg", "lvm-lv", "filesystem", "swap", "command", "debug"}

(* The types that only mark a point in the order. *)
Fence == {"command", "debug"}

Option == {"erase", "erase_all", "overwrite", "flags", "uuid", "slot",
           "eol", "marker"}

NodeRecord(Parent) ==
  [kind : Kind, parents : Seq(Parent), ignore : BOOLEAN,
   opts : SUBSET Option, path : Seq(STRING), modules : SUBSET STRING]

OfKind(plan, kind) == {n \in DOMAIN plan : plan[n].kind = kind}

ParentsOf(node) == {node.parents[k] : k \in DOMAIN node.parents}
-----------------------------------------------------------------------------
(* _require_one_parent(). *)
OneParent(node) == Len(node.parents) = 1

(* device_path() is not None. A partition and a physical volume stand on   *)
(* their parent's path; the other devices have a name of their own.        *)
HasDevice(plan) ==
  LET device[n \in DOMAIN plan] ==
        \/ plan[n].kind \in {"hardware", "raid1", "dm-crypt-luks", "lvm-lv"}
        \/ /\ plan[n].kind \in {"partition", "lvm-pv"}
           /\ OneParent(plan[n]) /\ plan[n].parents[1] < n
           /\ device[plan[n].parents[1]]
  IN  device

(* command_lines() raises NodeValidationError: a parent has no device.     *)
(* A logical volume takes its parent's name, not its path.                 *)
Unresolved(plan, n) ==
  /\ plan[n].kind \notin Fence \cup {"hardware", "lvm-lv"}
  /\ \E p \in ParentsOf(plan[n]) : ~HasDevice(plan)[p]

(* validate() of the types, on resolved parents. The checks of single      *)
(* fields (labels, sizes, slots, names) are left out.                      *)
ValidRaid1(node) == Len(node.parents) >= 2

ValidVg(node) == Len(node.parents) >= 1

ValidLv(plan, node) ==
  OneParent(node) /\ plan[node.parents[1]].kind = "lvm-vg"

ValidSwap(plan, node) ==
  OneParent(node) /\ HasDevice(plan)[node.parents[1]]

Valid(plan, n) ==
  LET node == plan[n] IN
  /\ node.kind \in {"partition", "dm-crypt-luks", "lvm-pv", "filesystem"} =>
       OneParent(node)
  /\ node.kind = "raid1" => ValidRaid1(node)
  /\ node.kind = "lvm-vg" => ValidVg(node)
  /\ node.kind = "lvm-lv" => ValidLv(plan, node)
  /\ node.kind = "swap" => ValidSwap(plan, node)

(* What prepare() returns: nodes that passed validate(), a node after      *)
(* every parent that is not a filesystem, and the filesystems last, those  *)
(* with fewer path components first.                                       *)
Prepared(plan) ==
  /\ plan \in Seq(NodeRecord(DOMAIN plan))
  /\ \A n \in DOMAIN plan : Valid(plan, n)
  /\ \A n \in DOMAIN plan : \A p \in ParentsOf(plan[n]) :
       plan[p].kind # "filesystem" => p < n
  /\ \A m, n \in DOMAIN plan : m < n /\ plan[m].kind = "filesystem" =>
       /\ plan[n].kind = "filesystem"
       /\ Len(plan[m].path) <= Len(plan[n].path)
-----------------------------------------------------------------------------
(* A ShellCommand: what it does, what it reads from its standard input and *)
(* whether a non-zero exit raises.                                         *)
Checked(op) == [op |-> op, stdin |-> <<>>, check |-> TRUE]
Unchecked(op) == [op |-> op, stdin |-> <<>>, check |-> FALSE]
Fed(op, bytes) == [op |-> op, stdin |-> bytes, check |-> TRUE]

When(cond, lines) == IF cond THEN lines ELSE <<>>

(* MUTANT of HardwareLines: the table is written before it is erased. *)
HardwareLinesEraseLast(node) ==
  When("overwrite" \in node.opts, <<Checked("mklabel")>>)
  \o When("erase_all" \in node.opts, <<Unchecked("zero_all")>>)
  \o When("erase" \in node.opts, <<Checked("zero_prefix")>>)

(* command_lines() of the types. *)
HardwareLines(node) ==
  When("erase_all" \in node.opts, <<Unchecked("zero_all")>>)
  \o When("erase" \in node.opts, <<Checked("zero_prefix")>>)
  \o When("overwrite" \in node.opts, <<Checked("mklabel")>>)

(* "flags" stands for any number of `parted set`. *)
PartitionLines(node) ==
  <<Checked("mkpart")>>
  \o When("flags" \in node.opts, <<Checked("set")>>)
  \o When("uuid" \in node.opts, <<Checked("sgdisk")>>)
  \o <<Unchecked("partx"), Checked("settle")>>

Raid1Lines(node) ==
  [k \in DOMAIN node.parents |-> Unchecked("zero_superblock")]
  \o <<Checked("create")>>

(* What a passphrase is made of. *)
Token == {"key", "marker", "newline"}

(* self.passphrase: a line of text, which may end in a newline ("eol") or  *)
(* be the marker of the script's heredocs.                                 *)
Passphrase(node) ==
  <<IF "marker" \in node.opts THEN "marker" ELSE "key">>
  \o When("eol" \in node.opts, <<"newline">>)

LuksLines(node) ==
  LET key == Passphrase(node) IN
  <<Fed("luksFormat", key), Fed("open", key)>>
  \o When("slot" \in node.opts,
          <<Fed("luksAddKey", key \o <<"newline">> \o key),
            Fed("luksKillSlot", key)>>)

PvLines == <<Checked("pvcreate")>>

VgLines == <<Checked("vgcreate")>>

LvLines == <<Checked("lvcreate"), Checked("lvchange"), Checked("vgmknodes")>>

FilesystemLines == <<Checked("mkfs"), Checked("mkdir"), Checked("mount")>>

SwapLines == <<Checked("mkswap"), Checked("swapon")>>

FenceLines == <<Checked("argv")>>

CommandLines(plan, n) ==
  LET node == plan[n] IN
  CASE node.kind = "hardware" -> HardwareLines(node)
    [] node.kind = "partition" -> PartitionLines(node)
    [] node.kind = "raid1" -> Raid1Lines(node)
    [] node.kind = "dm-crypt-luks" -> LuksLines(node)
    [] node.kind = "lvm-pv" -> PvLines
    [] node.kind = "lvm-vg" -> VgLines
    [] node.kind = "lvm-lv" -> LvLines
    [] node.kind = "filesystem" -> FilesystemLines
    [] node.kind = "swap" -> SwapLines
    [] node.kind \in Fence -> FenceLines

(* MUTANT of VerifyLines: nothing is verified. *)
NoVerifyLines(plan, n) == <<>>

(* verify_command_lines(). *)
VerifyLines(plan, n) ==
  When(plan[n].kind = "filesystem", <<Checked("mountpoint")>>)

(* _apply_ignore(). *)
ApplyIgnore(node, lines) ==
  [k \in DOMAIN lines |->
     [lines[k] EXCEPT !.check = @ /\ ~node.ignore]]

EffectiveLines(plan, n) == ApplyIgnore(plan[n], CommandLines(plan, n))

EffectiveVerifyLines(plan, n) == ApplyIgnore(plan[n], VerifyLines(plan, n))

(* ScriptGenerator.emit raises: a node raises NodeValidationError, or a     *)
(* line of a passphrase is equal to _EOF_MARKER.                           *)
EmitRaises(plan) ==
  \E n \in DOMAIN plan :
    \/ Unresolved(plan, n)
    \/ \E k \in DOMAIN EffectiveLines(plan, n) :
         "marker" \in Range(EffectiveLines(plan, n)[k].stdin)

(* MUTANT of HasCleanup: swap does not register one. *)
HasCleanupButSwap == {"raid1", "dm-crypt-luks", "lvm-vg", "filesystem"}

(* The types whose _post_execute() registers a cleanup action. *)
HasCleanup == {"raid1", "dm-crypt-luks", "lvm-vg", "filesystem", "swap"}

(* collect_modprobe_commands(): each module once. *)
ModprobeCount(plan, controlModules) ==
  Cardinality(controlModules \cup UNION {plan[n].modules : n \in DOMAIN plan})
=============================================================================
