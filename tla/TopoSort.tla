------------------------------ MODULE TopoSort ------------------------------
(***************************************************************************)
(* Executor._resolve_parents and Executor._topo_sort of                    *)
(* storage/executor.py: resolving the `parents` of every node and ordering *)
(* the nodes with Kahn's algorithm, driven by a min-heap keyed by the      *)
(* position of a node in the YAML file.                                    *)
(*                                                                         *)
(* A node is its position in Executor.nodes (ids are unique: the           *)
(* constructor rejects a duplicate), so that the heap key `order[nid]` is  *)
(* the node itself. The parent lists are fixed by the initial state: a     *)
(* node may list a parent twice, list itself, or name an unknown id.       *)
(***************************************************************************)
EXTENDS Integers, Sequences, FiniteSets

CONSTANTS
  NodeCount,    \* len(Executor.nodes)
  Unknown,      \* an id no node has
  ParentLists   \* the `parents` fields to explore

Node == 1..NodeCount

ASSUME TopoAssumption ==
  /\ NodeCount \in Nat
  /\ Unknown \notin Node
  /\ ParentLists \subseteq [Node -> Seq(Node \cup {Unknown})]

VARIABLES
  parents,   \* node.parents, never changed
  phase,     \* progress of prepare()
  indeg,     \* indeg of _topo_sort
  heap,      \* the contents of the heap: popping takes the least
  result     \* the order built so far

sortVars == <<parents, phase, indeg, heap, result>>
-----------------------------------------------------------------------------
(* The places of c's parent list that hold p, and those that hold a node   *)
(* not yet in the result.                                                  *)
Occurrences(p, c) == {k \in DOMAIN parents[c] : parents[c][k] = p}

Placed == {result[k] : k \in DOMAIN result}

Unplaced(c) == {k \in DOMAIN parents[c] : parents[c][k] \notin Placed}

(* MUTANT of Least: a max-heap. *)
Greatest(S) == CHOOSE n \in S : \A m \in S : m <= n

(* heappop: the least in source order. *)
Least(S) == CHOOSE n \in S : \A m \in S : n <= m

(* MUTANT of InDegree: len(set(n.parents)). *)
DistinctParents(n) == Cardinality({parents[n][k] : k \in DOMAIN parents[n]})

(* len(n.parents): a repeated parent counts each time. *)
InDegree(n) == Len(parents[n])

(* MUTANTS of BecomesReady: pushed with the first parent, pushed again. *)
ReadyAtFirst(c) == indeg'[c] < indeg[c]
ReadyAgain(c) == indeg'[c] = 0

(* The decrements of one turn of the loop bring c's in-degree to zero. *)
BecomesReady(c) == indeg[c] > 0 /\ indeg'[c] = 0

(* MUTANT of LoopDone: while len(result) < len(self.nodes). *)
LoopFull == Len(result) = NodeCount

(* while heap *)
LoopDone == heap = {}

(* MUTANT of Outcome: the check for leftover nodes is missing. *)
OutcomeUnchecked == "sorted"

Outcome == IF Len(result) = NodeCount THEN "sorted" ELSE "cycle"

Init ==
  /\ parents \in ParentLists
  /\ phase = "resolve"
  /\ indeg = [n \in Node |-> 0]
  /\ heap = {}
  /\ result = <<>>

(* _resolve_parents, then the set-up of _topo_sort: in-degrees count       *)
(* repeated parents, and the nodes without parents are pushed.             *)
Resolve ==
  /\ phase = "resolve"
  /\ \A n \in Node : \A k \in DOMAIN parents[n] : parents[n][k] \in Node
  /\ phase' = "sort"
  /\ indeg' = [n \in Node |-> InDegree(n)]
  /\ heap' = {n \in Node : InDegree(n) = 0}
  /\ UNCHANGED <<parents, result>>

(* "unknown parent id": NodeValidationError. *)
RejectUnknown ==
  /\ phase = "resolve"
  /\ \E n \in Node : \E k \in DOMAIN parents[n] : parents[n][k] \notin Node
  /\ phase' = "unknown_parent"
  /\ UNCHANGED <<parents, indeg, heap, result>>

(* One turn of the while loop: pop the least node, append it, decrement    *)
(* its children once for every mention and push those that reach zero.     *)
Pop ==
  /\ phase = "sort"
  /\ heap # {}
  /\ LET current == Least(heap) IN
       /\ result' = Append(result, current)
       /\ indeg' = [c \in Node |->
                      indeg[c] - Cardinality(Occurrences(current, c))]
       /\ heap' = (heap \ {current}) \cup {c \in Node : BecomesReady(c)}
  /\ UNCHANGED <<parents, phase>>

(* The loop is over: every node is placed, or the rest lies on cycles. *)
Finish ==
  /\ phase = "sort"
  /\ LoopDone
  /\ phase' = Outcome
  /\ UNCHANGED <<parents, indeg, heap, result>>

Next == Resolve \/ RejectUnknown \/ Pop \/ Finish

(* The loop is sequential code that runs until it ends. *)
Spec == Init /\ [][Next]_sortVars /\ WF_sortVars(Next)
-----------------------------------------------------------------------------
TypeOK ==
  /\ parents \in [Node -> Seq(Node \cup {Unknown})]
  /\ phase \in {"resolve", "sort", "sorted", "cycle", "unknown_parent"}
  /\ indeg \in [Node -> Nat]
  /\ heap \subseteq Node
  /\ result \in Seq(Node)

(* What the loop maintains: an in-degree counts the mentions of parents    *)
(* still to be placed (so it never goes below zero, even with repeated     *)
(* parents), the heap holds exactly the nodes that are ready and not yet   *)
(* placed, and no node is placed twice.                                    *)
KahnInv ==
  phase \in {"sort", "sorted", "cycle"} =>
    /\ \A c \in Node : indeg[c] = Cardinality(Unplaced(c))
    /\ heap = {c \in Node : c \notin Placed /\ Unplaced(c) = {}}
    /\ \A i, j \in DOMAIN result : result[i] = result[j] => i = j

(* Executor._topo_sort: a node is placed only after all of its parents, at *)
(* every moment of the sort.                                               *)
ParentsFirst ==
  \A j \in DOMAIN result : \A k \in DOMAIN parents[result[j]] :
    \E i \in 1..(j - 1) : result[i] = parents[result[j]][k]

(* A set of nodes that wait for one another: each has a parent in the set. *)
Deadlocked(S) ==
  \A n \in S : \E k \in DOMAIN parents[n] : parents[n][k] \in S

(* Executor._topo_sort: "cycle detected" is raised for the specs whose     *)
(* parents form a cycle (a self-reference included) and for no other.      *)
CycleVerdict ==
  /\ phase = "cycle" => \E S \in SUBSET Node : S # {} /\ Deadlocked(S)
  /\ phase = "sorted" => \A S \in SUBSET Node : Deadlocked(S) => S = {}

(* Nodes with the same parents (the partitions of a disk, numbered in      *)
(* source order by _assign_partition_indices) are placed in source order,  *)
(* whatever else the spec contains.                                        *)
SameParents(m, n) ==
  {parents[m][k] : k \in DOMAIN parents[m]} =
  {parents[n][k] : k \in DOMAIN parents[n]}

SiblingOrder ==
  \A m, n \in Node :
    m < n /\ SameParents(m, n) /\ n \in Placed =>
      \E i, j \in DOMAIN result : i < j /\ result[i] = m /\ result[j] = n

(* "Stable by source order": of all the orders that put parents first, the *)
(* result is the one that is least when compared place by place.           *)
TopologicalOrders ==
  {p \in [Node -> Node] :
     /\ \A i, j \in Node : p[i] = p[j] => i = j
     /\ \A j \in Node : \A k \in DOMAIN parents[p[j]] :
          \E i \in 1..(j - 1) : p[i] = parents[p[j]][k]}

LeastOrder ==
  phase = "sorted" =>
    \A p \in TopologicalOrders :
      \/ \A i \in Node : p[i] = result[i]
      \/ \E i \in Node : /\ result[i] < p[i]
                         /\ \A h \in 1..(i - 1) : p[h] = result[h]

(* prepare() comes to a verdict on every spec. *)
Verdict == <>(phase \in {"sorted", "cycle", "unknown_parent"})
=============================================================================
