------------------------------ MODULE Planner ------------------------------
(***************************************************************************)
(* Executor.prepare of storage/executor.py: the topological sort of        *)
(* TopoSort between the numbering of partitions before it, and the moving  *)
(* of filesystems to the end and the nodes' validate() after it.           *)
(*                                                                         *)
(* storage[n] is the n-th node of the spec; its parents are positions in   *)
(* the spec. The outcome is `ordered`, and the plan that Provisioner runs  *)
(* is PlanOf(LinkedNodes, ordered). What prepare() writes into the nodes,  *)
(* index and linked, stays there when it returns: it may find nodes that   *)
(* an earlier call has been through. (The third thing it writes, the       *)
(* offsets of PartitionLayout, is computed from begin and size alone.)     *)
(*                                                                         *)
(* The path of a node of the spec is its mountpoint as it is written,      *)
(* split at slashes after the first: <<"">> is "/", <<"boot", "">> is      *)
(* "/boot/", and components may be ".", ".." or empty.                     *)
(***************************************************************************)
EXTENDS TopoSort, StorageNodes

CONSTANT Storages   \* the specs to explore

ParentListsOf(s) == [n \in Node |-> s[n].parents]

(* ".." never leads out of control.path. *)
StaysInside(raw) ==
  \A k \in DOMAIN raw :
    Cardinality({i \in 1..k : raw[i] = ".."})
      <= Cardinality({i \in 1..k : raw[i] \notin {"", ".", ".."}})

ASSUME PlannerAssumption ==
  /\ Storages \subseteq [Node -> NodeRecord(Node \cup {Unknown})]
  /\ \A s \in Storages : ParentListsOf(s) \in ParentLists
  /\ \A s \in Storages : \A n \in Node : StaysInside(s[n].path)

VARIABLES
  storage,   \* Executor.nodes, in source order
  linked,    \* Node._resolved_parents
  index,     \* PartitionNode._index, 0 for None
  ordered,   \* the list handed from step to step of prepare()
  stage      \* progress of prepare() after the sort

planVars == <<sortVars, storage, linked, index, ordered, stage>>
-----------------------------------------------------------------------------
(* _assign_partition_indices: the partitions of a parent are numbered in   *)
(* source order. A partition without exactly one parent is passed over.    *)
Numbered == {n \in Node : storage[n].kind = "partition" /\ Len(parents[n]) = 1}

(* MUTANTS of Number: enumerate(parts, start=2), and one count for all.    *)
NumberFromTwo(n) ==
  Cardinality({m \in Numbered : parents[m] = parents[n] /\ m <= n}) + 1
NumberOverall(n) == Cardinality({m \in Numbered : m <= n})

Number(n) == Cardinality({m \in Numbered : parents[m] = parents[n] /\ m <= n})

Renumbered == [n \in Node |-> IF n \in Numbered THEN Number(n) ELSE index[n]]

(* MUTANT of LinkedTo: the list is appended to, not replaced.              *)
LinkedToMore(n) == linked[n] \o parents[n]

LinkedTo(n) == parents[n]

(* _resolve_parents: the nodes before the first with an unknown parent.    *)
Resolves(n) == \A k \in DOMAIN parents[n] : parents[n][k] \in Node

Relinked ==
  [n \in Node |-> IF \A m \in 1..n : Resolves(m) THEN LinkedTo(n) ELSE linked[n]]

(* Nodes as their constructors leave them. *)
New == index = [n \in Node |-> 0] /\ linked = [n \in Node |-> <<>>]

(* Nodes that an earlier call has linked and numbered. *)
Used ==
  /\ \A n \in Node : Resolves(n)
  /\ index = [n \in Node |-> IF n \in Numbered THEN Number(n) ELSE 0]
  /\ linked = parents

PlannerInit ==
  /\ storage \in Storages
  /\ parents = ParentListsOf(storage)
  /\ Init
  /\ New \/ Used
  /\ ordered = <<>>
  /\ stage = "sort"

ResolveAndNumber ==
  /\ stage = "sort"
  /\ Resolve
  /\ linked' = Relinked /\ index' = Renumbered
  /\ UNCHANGED <<storage, ordered, stage>>

RejectParents ==
  /\ stage = "sort"
  /\ RejectUnknown
  /\ linked' = Relinked
  /\ UNCHANGED <<storage, index, ordered, stage>>

(* Numbering a partition raises: its size cannot be read, or it has no     *)
(* `begin` where it needs one (PartitionLayout, RejectImplicit). Sizes are *)
(* left out here, and nothing reads the numbers given by then.             *)
RejectLayout ==
  /\ stage = "sort" /\ phase = "resolve"
  /\ \A n \in Node : Resolves(n)
  /\ Numbered # {}
  /\ stage' = "invalid" /\ linked' = Relinked
  /\ UNCHANGED <<sortVars, storage, index, ordered>>

Sort ==
  /\ stage = "sort"
  /\ Pop \/ Finish
  /\ UNCHANGED <<storage, linked, index, ordered, stage>>

IsMount(node) == node.kind = "filesystem"

(* posixpath.normpath, and with it target_path() relative to control.path: *)
(* one component after the other.                                          *)
Descend(path, c) ==
  CASE c \in {"", "."} -> path
    [] c = ".." /\ path = <<>> -> path
    [] c = ".." /\ path # <<>> -> Front(path)
    [] OTHER -> Append(path, c)

Normalized(raw) ==
  LET path[k \in 0..Len(raw)] ==
        IF k = 0 THEN <<>> ELSE Descend(path[k - 1], raw[k])
  IN  path[Len(raw)]

(* It leaves exactly two leading slashes as they are. *)
DoubleSlash(raw) ==
  Len(raw) >= 2 /\ raw[1] = "" /\ (raw[2] = "" => Len(raw) = 2)

(* MUTANT of MountDepth: mountpoint.count("/"). *)
MountDepthRaw(node) == Len(node.path)

(* _mount_depth: the slashes of the normalised mountpoint, none for "/". *)
MountDepth(node) ==
  LET raw  == node.path
      path == Normalized(raw)
  IN  CASE ~DoubleSlash(raw) -> Len(path)
        [] DoubleSlash(raw) /\ path = <<>> -> 2
        [] DoubleSlash(raw) /\ path # <<>> -> Len(path) + 1

(* _reorder_mounts: filesystems last, by mount depth, in a stable sort:    *)
(* the item with k - 1 items before it becomes the k-th.                   *)
SortKey(node) == IF IsMount(node) THEN MountDepth(node) + 1 ELSE 0

Before(nodes, s, i) ==
  LET key == [j \in DOMAIN s |-> SortKey(nodes[s[j]])]
  IN  {j \in DOMAIN s : key[j] < key[i] \/ (key[j] = key[i] /\ j < i)}

Reordered(nodes, s) ==
  [k \in DOMAIN s |->
     s[CHOOSE i \in DOMAIN s : Cardinality(Before(nodes, s, i)) = k - 1]]

Reorder ==
  /\ phase = "sorted" /\ stage = "sort"
  /\ ordered' = Reordered(storage, result)
  /\ stage' = "validate"
  /\ UNCHANGED <<sortVars, storage, linked, index>>

(* The nodes with the parents that resolved_parents() reads. *)
LinkedNodes == [n \in Node |-> [storage[n] EXCEPT !.parents = linked[n]]]

(* The plan: the ordered nodes, with positions in the order as parents and *)
(* mountpoints as the places the filesystems are mounted at.               *)
PlanOf(nodes, order) ==
  LET Place(n) == CHOOSE j \in DOMAIN order : order[j] = n IN
  [j \in DOMAIN order |->
     LET node == nodes[order[j]] IN
     [node EXCEPT !.parents = [k \in DOMAIN @ |-> Place(@[k])],
                  !.path = Normalized(@)]]

(* validate() of every node, before anything runs. *)
Validate ==
  /\ stage = "validate"
  /\ stage' = IF \A j \in DOMAIN ordered : Valid(PlanOf(LinkedNodes, ordered), j)
              THEN "ready" ELSE "invalid"
  /\ UNCHANGED <<sortVars, storage, linked, index, ordered>>

PlannerNext ==
  \/ ResolveAndNumber \/ RejectParents \/ RejectLayout
  \/ Sort \/ Reorder \/ Validate

PlannerSpec == PlannerInit /\ [][PlannerNext]_planVars
-----------------------------------------------------------------------------
PlannerTypeOK ==
  /\ TypeOK
  /\ storage \in [Node -> NodeRecord(Node \cup {Unknown})]
  /\ linked \in [Node -> Seq(Node)]
  /\ index \in [Node -> 0..NodeCount]
  /\ ordered \in Seq(Node)
  /\ stage \in {"sort", "validate", "ready", "invalid"}

(* executor.py:135 "pulling them to the tail of the execution order        *)
(* preserves every data dependency", and CHANGELOG.md "/ mounts before     *)
(* /boot": a plan that is handed out has every node, once, after the       *)
(* parents it takes a device from, and outer mounts before inner ones,     *)
(* however mountpoints are written, but for two leading slashes: those     *)
(* count as one more level, and "//" is mounted over "/boot".              *)
PlanPrepared ==
  stage = "ready" /\ (\A n \in Node : ~DoubleSlash(storage[n].path)) =>
    /\ Len(ordered) = NodeCount
    /\ \A n \in Node : \E j \in DOMAIN ordered : ordered[j] = n
    /\ Prepared(PlanOf(LinkedNodes, ordered))

(* executor.py _assign_partition_indices numbers partitions in source      *)
(* order, parted in the order they are created in, which is the order of   *)
(* the plan: the two agree on every device, or later nodes would be built  *)
(* on the wrong partition.                                                 *)
PartitionNumbers ==
  stage = "ready" =>
    \A j \in DOMAIN ordered : storage[ordered[j]].kind = "partition" =>
      index[ordered[j]] =
        Cardinality({i \in 1..j : /\ storage[ordered[i]].kind = "partition"
                                  /\ parents[ordered[i]] = parents[ordered[j]]})

(* command.py:14 "Ordering is expressed the same way as every other node:  *)
(* via `parents`": a command or debug node runs after its parents.         *)
FenceAfterParents ==
  stage = "ready" =>
    \A j \in DOMAIN ordered : storage[ordered[j]].kind \in Fence =>
      \A p \in ParentsOf(PlanOf(LinkedNodes, ordered)[j]) : p < j
=============================================================================
