----------------------------- MODULE MCTopoSort -----------------------------
(* Instances of TopoSort: every spec of a small size. *)
EXTENDS TopoSort, SequencesExt

(* Every set of known parents for every node, as sorted lists. *)
ParentSets == [Node -> {SetToSortSeq(S, <) : S \in SUBSET Node}]

(* Every list of up to two parents for all nodes but the last: repeated    *)
(* parents, self references and the unknown id.                            *)
ShortLists ==
  {lists \in [Node -> BoundedSeq(Node \cup {Unknown}, 2)] :
     lists[NodeCount] = <<>>}

AllLists == ParentSets \cup ShortLists
=============================================================================
