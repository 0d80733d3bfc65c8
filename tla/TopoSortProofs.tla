--------------------------- MODULE TopoSortProofs ---------------------------
(***************************************************************************)
(* Proofs about Executor._topo_sort for a spec of any size.                *)
(*                                                                         *)
(* KahnInv alone is not inductive: that a node is not pushed twice rests   *)
(* on placed nodes having all their parents placed (ParentsFirst), and     *)
(* that in-degrees match on every parent having been resolved.             *)
(***************************************************************************)
EXTENDS TopoSort, FiniteSetTheorems, WellFoundedInduction, NaturalsInduction,
        TLAPS

Resolved == \A c \in Node : \A k \in DOMAIN parents[c] : parents[c][k] \in Node

PhaseInv ==
  /\ phase = "resolve" => result = <<>>
  /\ phase = "unknown_parent" => result = <<>>
  /\ phase \in {"sort", "sorted", "cycle"} => Resolved
  /\ phase \in {"sorted", "cycle"} => heap = {}
  /\ phase = "sorted" => Len(result) = NodeCount
  /\ phase = "cycle" => Len(result) # NodeCount

SortInv ==
  TypeOK /\ PhaseInv /\ KahnInv /\ ParentsFirst /\ SiblingOrder
-----------------------------------------------------------------------------
(* A non-empty set of natural numbers has a least element: what heappop    *)
(* returns is defined and is in the heap.                                  *)
LEMMA LeastIsLeast ==
  ASSUME NEW S, S \subseteq Nat, S # {}
  PROVE  Least(S) \in S /\ \A m \in S : Least(S) <= m
<1>1. IsWellFoundedOn(OpToRel(<, Nat), Nat)
  BY NatLessThanWellFounded
<1>2. PICK x \in S : \A y \in S : <<y, x>> \notin OpToRel(<, Nat)
  BY <1>1, WFMin
<1>3. \A y \in S : x <= y
  <2> TAKE y \in S
  <2>1. x \in Nat /\ y \in Nat
    OBVIOUS
  <2>2. ~(y < x)
    BY <1>2, <2>1 DEF OpToRel
  <2> QED BY <2>1, <2>2
<1> QED BY <1>3 DEF Least

(* The parent lists are finite, and so is every set of their places. *)
LEMMA PlacesFinite ==
  ASSUME TypeOK, NEW c \in Node, NEW S \in SUBSET DOMAIN parents[c]
  PROVE  IsFiniteSet(S) /\ Cardinality(S) \in Nat
<1>1. parents[c] \in Seq(Node \cup {Unknown})
  BY DEF TypeOK
<1>2. DOMAIN parents[c] = 1..Len(parents[c]) /\ Len(parents[c]) \in Nat
  BY <1>1
<1>3. IsFiniteSet(1..Len(parents[c]))
  BY <1>2, FS_Interval
<1>4. IsFiniteSet(S)
  BY <1>2, <1>3, FS_Subset
<1> QED BY <1>4, FS_CardinalityType

(* Before the sort starts nothing is placed, so an in-degree is the        *)
(* length of the parent list.                                              *)
LEMMA UnplacedAtStart ==
  ASSUME TypeOK, result = <<>>, NEW c \in Node
  PROVE  /\ Unplaced(c) = DOMAIN parents[c]
         /\ Cardinality(Unplaced(c)) = Len(parents[c])
<1>1. Placed = {}
  BY DEF Placed
<1>2. Unplaced(c) = DOMAIN parents[c]
  BY <1>1 DEF Unplaced
<1>3. Len(parents[c]) \in Nat /\ DOMAIN parents[c] = 1..Len(parents[c])
  BY DEF TypeOK
<1>4. Cardinality(1..Len(parents[c])) = Len(parents[c])
  BY <1>3, FS_Interval
<1> QED BY <1>2, <1>3, <1>4

(* A placed node waits for nothing. *)
LEMMA PlacedNeedNothing ==
  ASSUME TypeOK, ParentsFirst
  PROVE  \A c \in Placed : c \in Node /\ Unplaced(c) = {}
<1> SUFFICES ASSUME NEW j \in DOMAIN result
             PROVE  result[j] \in Node /\ Unplaced(result[j]) = {}
  BY DEF Placed
<1>1. /\ result \in Seq(Node) /\ Len(result) \in Nat
      /\ DOMAIN result = 1..Len(result) /\ j \in 1..Len(result)
  BY DEF TypeOK
<1>2. result[j] \in Node
  BY <1>1
<1>3. ASSUME NEW k \in DOMAIN parents[result[j]]
      PROVE  parents[result[j]][k] \in Placed
  <2>1. PICK i \in 1..(j - 1) : result[i] = parents[result[j]][k]
    BY DEF ParentsFirst
  <2>2. i \in DOMAIN result
    BY <1>1
  <2> QED BY <2>1, <2>2 DEF Placed
<1> QED BY <1>2, <1>3 DEF Unplaced

LEMMA InitInv == Init => SortInv
<1> SUFFICES ASSUME Init PROVE SortInv
  OBVIOUS
<1>1. TypeOK
  BY TopoAssumption DEF Init, TypeOK
<1>2. PhaseInv /\ KahnInv
  BY DEF Init, PhaseInv, KahnInv
<1>3. ParentsFirst
  BY DEF Init, ParentsFirst
<1>4. SiblingOrder
  BY DEF Init, SiblingOrder, Placed
<1> QED BY <1>1, <1>2, <1>3, <1>4 DEF SortInv

LEMMA ResolveInv == SortInv /\ Resolve => SortInv'
<1> SUFFICES ASSUME SortInv, Resolve PROVE SortInv'
  OBVIOUS
<1> USE DEF SortInv
<1>1. TypeOK /\ result = <<>> /\ phase' = "sort"
  BY DEF Resolve, PhaseInv
<1>2. \A c \in Node : /\ Unplaced(c) = DOMAIN parents[c]
                      /\ Cardinality(Unplaced(c)) = Len(parents[c])
  BY <1>1, UnplacedAtStart
<1>3. \A c \in Node : Unplaced(c)' = Unplaced(c)
  BY DEF Resolve, Unplaced, Placed
<1>4. \A c \in Node : /\ Len(parents[c]) \in Nat
                      /\ DOMAIN parents[c] = 1..Len(parents[c])
  BY <1>1 DEF TypeOK
<1>5. TypeOK'
  BY <1>1, <1>4 DEF Resolve, InDegree, TypeOK
<1>6. PhaseInv'
  BY <1>1 DEF Resolve, PhaseInv, Resolved
<1>7. KahnInv'
  <2>1. \A c \in Node : indeg'[c] = Cardinality(Unplaced(c)')
    BY <1>2, <1>3 DEF Resolve, InDegree
  <2>2. \A c \in Node : (Len(parents[c]) = 0) <=> (Unplaced(c)' = {})
    BY <1>2, <1>3, <1>4
  <2>3. Placed' = {}
    BY <1>1 DEF Resolve, Placed
  <2>4. heap' = {c \in Node : c \notin Placed' /\ Unplaced(c)' = {}}
    BY <2>2, <2>3 DEF Resolve, InDegree
  <2>5. \A i, j \in DOMAIN result' : result'[i] = result'[j] => i = j
    BY <1>1 DEF Resolve
  <2> QED BY <2>1, <2>4, <2>5 DEF KahnInv
<1>8. ParentsFirst'
  BY <1>1 DEF Resolve, ParentsFirst
<1>9. SiblingOrder'
  BY <1>1 DEF Resolve, SiblingOrder, Placed
<1> QED BY <1>5, <1>6, <1>7, <1>8, <1>9

(* The three lemmas below are about one turn of the loop. Placing the      *)
(* least ready node adds it to the placed nodes ...                        *)
LEMMA PopPlaces ==
  ASSUME SortInv, Pop
  PROVE  /\ Least(heap) \in heap /\ \A m \in heap : Least(heap) <= m
         /\ Least(heap) \in Node \ Placed
         /\ Unplaced(Least(heap)) = {}
         /\ DOMAIN result = 1..Len(result) /\ Len(result) \in Nat
         /\ DOMAIN result' = 1..(Len(result) + 1)
         /\ result'[Len(result) + 1] = Least(heap)
         /\ \A i \in 1..Len(result) : result'[i] = result[i]
         /\ Placed' = Placed \cup {Least(heap)}
<1> USE DEF SortInv
<1>1. heap \subseteq Nat /\ heap \subseteq Node /\ heap # {}
  BY DEF Pop, TypeOK, Node
<1>2. Least(heap) \in heap /\ \A m \in heap : Least(heap) <= m
  BY <1>1, LeastIsLeast
<1>3. heap = {c \in Node : c \notin Placed /\ Unplaced(c) = {}}
  BY DEF Pop, KahnInv
<1>4. result \in Seq(Node) /\ result' = Append(result, Least(heap))
  BY DEF Pop, TypeOK
<1>5. /\ DOMAIN result = 1..Len(result) /\ Len(result) \in Nat
      /\ DOMAIN result' = 1..(Len(result) + 1)
      /\ result'[Len(result) + 1] = Least(heap)
      /\ \A i \in 1..Len(result) : result'[i] = result[i]
  BY <1>4, <1>1, <1>2
<1>6. Placed' = Placed \cup {Least(heap)}
  <2>1. 1..(Len(result) + 1) = (1..Len(result)) \cup {Len(result) + 1}
    BY <1>5
  <2> QED BY <1>5, <2>1 DEF Placed
<1> QED BY <1>2, <1>3, <1>5, <1>6

(* ... takes its mentions, which were all waiting, off every node's        *)
(* waiting places ...                                                      *)
LEMMA PopUnplaced ==
  ASSUME SortInv, Pop, NEW c \in Node
  PROVE  /\ Unplaced(c)' = Unplaced(c) \ Occurrences(Least(heap), c)
         /\ indeg[c] = Cardinality(Unplaced(c)) /\ indeg[c] \in Nat
         /\ indeg'[c] = Cardinality(Unplaced(c)') /\ indeg'[c] \in Nat
<1> DEFINE current == Least(heap)
<1>1. current \in Node \ Placed /\ Placed' = Placed \cup {current}
  BY PopPlaces
<1>2. TypeOK /\ parents' = parents
  BY DEF SortInv, Pop
<1>3. /\ Occurrences(current, c) \subseteq Unplaced(c)
      /\ Unplaced(c) \subseteq DOMAIN parents[c]
      /\ Unplaced(c)' = Unplaced(c) \ Occurrences(current, c)
  BY <1>1, <1>2 DEF Occurrences, Unplaced
<1>4. /\ IsFiniteSet(Unplaced(c)) /\ Cardinality(Unplaced(c)) \in Nat
      /\ Cardinality(Occurrences(current, c)) \in Nat
      /\ Cardinality(Unplaced(c) \ Occurrences(current, c)) \in Nat
  BY <1>2, <1>3, PlacesFinite
<1>5. Unplaced(c) \cap Occurrences(current, c) = Occurrences(current, c)
  BY <1>3
<1>6. Cardinality(Unplaced(c) \ Occurrences(current, c))
        = Cardinality(Unplaced(c)) - Cardinality(Occurrences(current, c))
  BY <1>4, <1>5, FS_Difference
<1>7. indeg[c] = Cardinality(Unplaced(c))
  BY DEF SortInv, KahnInv, Pop
<1>8. indeg'[c] = indeg[c] - Cardinality(Occurrences(current, c))
  BY DEF Pop
<1> QED BY <1>3, <1>4, <1>6, <1>7, <1>8

(* ... and a node with no waiting place left is in the heap, once. *)
LEMMA PopHeap ==
  ASSUME SortInv, Pop
  PROVE  heap' = {c \in Node : c \notin Placed' /\ Unplaced(c)' = {}}
<1> DEFINE current == Least(heap)
<1>1. /\ current \in Node \ Placed /\ Placed' = Placed \cup {current}
      /\ Unplaced(current) = {}
  BY PopPlaces
<1>2. heap = {c \in Node : c \notin Placed /\ Unplaced(c) = {}}
  BY DEF Pop, KahnInv, SortInv
<1>3. heap' = (heap \ {current})
                \cup {c \in Node : indeg[c] > 0 /\ indeg'[c] = 0}
  BY DEF Pop, BecomesReady
<1>4. ASSUME NEW c \in Node
      PROVE  /\ Unplaced(c)' \subseteq Unplaced(c)
             /\ (indeg[c] > 0) <=> (Unplaced(c) # {})
             /\ (indeg'[c] = 0) <=> (Unplaced(c)' = {})
  <2>1. /\ Unplaced(c)' = Unplaced(c) \ Occurrences(current, c)
        /\ indeg[c] = Cardinality(Unplaced(c)) /\ indeg[c] \in Nat
        /\ indeg'[c] = Cardinality(Unplaced(c)')
    BY PopUnplaced
  <2>2. Unplaced(c) \in SUBSET DOMAIN parents[c]
    BY DEF Unplaced
  <2>3. IsFiniteSet(Unplaced(c)) /\ IsFiniteSet(Unplaced(c)')
    BY <2>1, <2>2, PlacesFinite DEF SortInv
  <2> QED BY <2>1, <2>3, FS_EmptySet
<1>5. \A c \in Placed : c \in Node /\ Unplaced(c) = {}
  BY PlacedNeedNothing DEF SortInv
<1>6. ASSUME NEW c \in Node
      PROVE  c \in heap' <=> (c \notin Placed' /\ Unplaced(c)' = {})
  BY <1>1, <1>2, <1>3, <1>4, <1>5
<1>7. heap' \subseteq Node
  BY <1>2, <1>3
<1> QED BY <1>6, <1>7

LEMMA PopInv == SortInv /\ Pop => SortInv'
<1> SUFFICES ASSUME SortInv, Pop PROVE SortInv'
  OBVIOUS
<1> DEFINE current == Least(heap)
           n == Len(result)
<1>1. /\ current \in heap /\ \A m \in heap : current <= m
      /\ current \in Node \ Placed
      /\ Unplaced(current) = {}
      /\ DOMAIN result = 1..n /\ n \in Nat
      /\ DOMAIN result' = 1..(n + 1)
      /\ result'[n + 1] = current
      /\ \A i \in 1..n : result'[i] = result[i]
      /\ Placed' = Placed \cup {current}
  BY PopPlaces
<1>2. /\ parents' = parents /\ phase' = phase /\ phase = "sort"
      /\ result' = Append(result, current)
  BY DEF Pop
<1>3. TypeOK'
  <2>1. \A c \in Node : indeg'[c] \in Nat
    BY PopUnplaced
  <2>2. indeg' \in [Node -> Nat]
    BY <2>1 DEF Pop
  <2>3. heap' \subseteq Node
    BY PopHeap
  <2> QED BY <1>1, <1>2, <2>2, <2>3 DEF SortInv, TypeOK
<1>4. PhaseInv'
  BY <1>2 DEF SortInv, PhaseInv, Resolved
<1>5. KahnInv'
  <2>1. \A c \in Node : indeg'[c] = Cardinality(Unplaced(c)')
    BY PopUnplaced
  <2>2. heap' = {c \in Node : c \notin Placed' /\ Unplaced(c)' = {}}
    BY PopHeap
  <2>3. ASSUME NEW i \in DOMAIN result', NEW j \in DOMAIN result',
               result'[i] = result'[j]
        PROVE  i = j
    <3>1. \A k \in 1..n : result[k] # current
      BY <1>1 DEF Placed
    <3>2. CASE i \in 1..n /\ j \in 1..n
      BY <1>1, <1>2, <2>3, <3>2 DEF SortInv, KahnInv
    <3>3. CASE ~(i \in 1..n /\ j \in 1..n)
      BY <1>1, <2>3, <3>1, <3>3
    <3> QED BY <3>2, <3>3
  <2> QED BY <2>1, <2>2, <2>3 DEF KahnInv
<1>d. DOMAIN result' = 1..(n + 1) /\ parents' = parents
  BY <1>1, <1>2
<1>6. ParentsFirst'
  <2> SUFFICES ASSUME NEW j \in 1..(n + 1),
                      NEW k \in DOMAIN parents[result'[j]]
               PROVE  \E i \in 1..(j - 1) : result'[i] = parents[result'[j]][k]
    BY <1>d DEF ParentsFirst
  <2>1. CASE j \in 1..n
    <3>1. result'[j] = result[j]
      BY <1>1, <2>1
    <3>2. PICK i \in 1..(j - 1) : result[i] = parents[result[j]][k]
      BY <1>1, <2>1, <3>1 DEF SortInv, ParentsFirst
    <3>3. i \in 1..n
      BY <1>1, <2>1
    <3> QED BY <1>1, <3>1, <3>2, <3>3
  <2>2. CASE j = n + 1
    <3>1. parents[current][k] \in Placed
      BY <1>1, <2>2 DEF Unplaced
    <3>2. PICK i \in 1..n : result[i] = parents[current][k]
      BY <1>1, <3>1 DEF Placed
    <3> QED BY <1>1, <2>2, <3>2
  <2> QED BY <1>1, <2>1, <2>2
<1>7. SiblingOrder'
  <2>s. \A a, b \in Node : SameParents(a, b)' <=> SameParents(a, b)
    BY <1>d DEF SameParents
  <2> SUFFICES ASSUME NEW a \in Node, NEW b \in Node, a < b,
                      SameParents(a, b), b \in Placed'
               PROVE  \E i, j \in 1..(n + 1) :
                        i < j /\ result'[i] = a /\ result'[j] = b
    BY <1>d, <2>s DEF SiblingOrder
  <2>1. CASE b \in Placed
    <3>1. PICK i, j \in 1..n : i < j /\ result[i] = a /\ result[j] = b
      BY <1>1, <2>1 DEF SortInv, SiblingOrder
    <3> QED BY <1>1, <3>1
  <2>2. CASE b = current
    <3>1. Unplaced(a) = {}
      <4>1. \A l \in DOMAIN parents[b] : parents[b][l] \in Placed
        BY <1>1, <2>2 DEF Unplaced
      <4>2. ASSUME NEW k \in DOMAIN parents[a]
            PROVE  parents[a][k] \in Placed
        <5>1. parents[a][k] \in {parents[b][l] : l \in DOMAIN parents[b]}
          BY DEF SameParents
        <5> QED BY <4>1, <5>1
      <4> QED BY <4>2 DEF Unplaced
    <3>2. a \notin heap
      BY <1>1, <2>2 DEF Node
    <3>3. a \in Placed
      BY <1>2, <3>1, <3>2 DEF SortInv, KahnInv
    <3>4. PICK i \in 1..n : result[i] = a
      BY <1>1, <3>3 DEF Placed
    <3>5. /\ i \in 1..(n + 1) /\ n + 1 \in 1..(n + 1) /\ i < n + 1
          /\ result'[i] = a /\ result'[n + 1] = b
      BY <1>1, <2>2, <3>4
    <3> QED BY <3>5
  <2> QED BY <1>1, <2>1, <2>2
<1> QED BY <1>3, <1>4, <1>5, <1>6, <1>7 DEF SortInv

(* The loop ends with an empty heap. The result then has every node, or    *)
(* some are left: no two places of the result hold the same node.          *)
LEMMA FullMeansAll ==
  ASSUME TypeOK, \A i, j \in DOMAIN result : result[i] = result[j] => i = j
  PROVE  Len(result) = NodeCount <=> Placed = Node
<1>1. /\ result \in Seq(Node) /\ Len(result) \in Nat /\ NodeCount \in Nat
      /\ DOMAIN result = 1..Len(result)
      /\ result \in [1..Len(result) -> Node]
  BY TopoAssumption DEF TypeOK
<1>2. /\ IsFiniteSet(1..Len(result)) /\ Cardinality(1..Len(result)) = Len(result)
      /\ IsFiniteSet(Node) /\ Cardinality(Node) = NodeCount
  <2>1. \A m \in Nat : IsFiniteSet(1..m) /\ Cardinality(1..m) = m
    BY FS_Interval
  <2> QED BY <1>1, <2>1 DEF Node
<1>3. result \in Injection(1..Len(result), Node)
  BY <1>1 DEF Injection, IsInjective
<1>4. Len(result) = NodeCount <=> result \in Surjection(1..Len(result), Node)
  BY <1>2, <1>3, FS_Injection
<1>5. result \in Surjection(1..Len(result), Node) <=> Placed = Node
  <2>1. Placed \subseteq Node
    BY <1>1 DEF Placed
  <2>2. ASSUME result \in Surjection(1..Len(result), Node)
        PROVE  Node \subseteq Placed
    BY <1>1, <2>2 DEF Surjection, Placed
  <2>3. ASSUME Placed = Node
        PROVE  result \in Surjection(1..Len(result), Node)
    BY <1>1, <2>3 DEF Surjection, Placed
  <2> QED BY <2>1, <2>2, <2>3
<1> QED BY <1>4, <1>5

(* Steps that leave the graph and the result alone keep siblings in order. *)
LEMMA SiblingOrderKept ==
  ASSUME SiblingOrder, parents' = parents, result' = result
  PROVE  SiblingOrder'
<1>1. \A a, b \in Node : SameParents(a, b)' <=> SameParents(a, b)
  BY DEF SameParents
<1>2. Placed' = Placed
  BY DEF Placed
<1> QED BY <1>1, <1>2 DEF SiblingOrder

LEMMA StepInv == SortInv /\ [Next]_sortVars => SortInv'
<1> SUFFICES ASSUME SortInv, [Next]_sortVars PROVE SortInv'
  OBVIOUS
<1>1. CASE Resolve
  BY <1>1, ResolveInv
<1>2. CASE RejectUnknown
  <2>1. UNCHANGED <<parents, indeg, heap, result>> /\ phase' = "unknown_parent"
    BY <1>2 DEF RejectUnknown
  <2>2. result = <<>>
    BY <1>2 DEF RejectUnknown, SortInv, PhaseInv
  <2>3. TypeOK' /\ PhaseInv' /\ KahnInv'
    BY <2>1, <2>2 DEF SortInv, TypeOK, PhaseInv, KahnInv
  <2>4. ParentsFirst' /\ SiblingOrder'
    BY <2>1, <2>2 DEF ParentsFirst, SiblingOrder, Placed
  <2> QED BY <2>3, <2>4 DEF SortInv
<1>3. CASE Pop
  BY <1>3, PopInv
<1>4. CASE Finish
  <2>1. /\ UNCHANGED <<parents, indeg, heap, result>> /\ heap = {}
        /\ phase = "sort"
        /\ phase' = IF Len(result) = NodeCount THEN "sorted" ELSE "cycle"
    BY <1>4 DEF Finish, LoopDone, Outcome
  <2>2. TypeOK' /\ PhaseInv'
    BY <2>1 DEF SortInv, TypeOK, PhaseInv, Resolved
  <2>3. KahnInv'
    BY <2>1 DEF SortInv, KahnInv, Placed, Unplaced
  <2>4. ParentsFirst'
    BY <2>1 DEF SortInv, ParentsFirst
  <2>5. SiblingOrder'
    BY <2>1, SiblingOrderKept DEF SortInv
  <2> QED BY <2>2, <2>3, <2>4, <2>5 DEF SortInv
<1>5. CASE UNCHANGED sortVars
  <2> USE <1>5 DEF sortVars
  <2>1. TypeOK' /\ PhaseInv'
    BY DEF SortInv, TypeOK, PhaseInv, Resolved
  <2>2. KahnInv'
    BY DEF SortInv, KahnInv, Placed, Unplaced
  <2>3. ParentsFirst'
    BY DEF SortInv, ParentsFirst
  <2>4. SiblingOrder'
    BY SiblingOrderKept DEF SortInv
  <2> QED BY <2>1, <2>2, <2>3, <2>4 DEF SortInv
<1> QED BY <1>1, <1>2, <1>3, <1>4, <1>5 DEF Next

(* SortInv holds in every reachable state of the sort, for every number of *)
(* nodes and every set of parent lists.                                    *)
THEOREM SortCorrect == Spec => []SortInv
<1>1. Init => SortInv
  BY InitInv
<1>2. SortInv /\ [Next]_sortVars => SortInv'
  BY StepInv
<1> QED BY <1>1, <1>2, PTL DEF Spec

(* The state of the sort keeps its type: in particular no in-degree goes   *)
(* below zero, repeated parents included.                                  *)
THEOREM TypeCorrect == Spec => []TypeOK
<1>1. SortInv => TypeOK
  BY DEF SortInv
<1> QED BY <1>1, SortCorrect, PTL

(* In-degrees, heap and result agree, and no node is placed twice. *)
THEOREM KahnCorrect == Spec => []KahnInv
<1>1. SortInv => KahnInv
  BY DEF SortInv
<1> QED BY <1>1, SortCorrect, PTL

(* No node is placed before one of its parents. *)
THEOREM ParentsPlacedFirst == Spec => []ParentsFirst
<1>1. SortInv => ParentsFirst
  BY DEF SortInv
<1> QED BY <1>1, SortCorrect, PTL

(* Nodes with the same parents are placed in source order. *)
THEOREM SiblingsInSourceOrder == Spec => []SiblingOrder
<1>1. SortInv => SiblingOrder
  BY DEF SortInv
<1> QED BY <1>1, SortCorrect, PTL

(* When every node is placed, no set of nodes waits for itself: take its   *)
(* first member in the result, whose parent in the set comes earlier.      *)
LEMMA SortedHasNoCycle ==
  ASSUME SortInv, Placed = Node, NEW S \in SUBSET Node, Deadlocked(S)
  PROVE  S = {}
<1> SUFFICES ASSUME S # {} PROVE FALSE
  OBVIOUS
<1> DEFINE places == {i \in DOMAIN result : result[i] \in S}
<1>1. DOMAIN result = 1..Len(result) /\ Len(result) \in Nat
  BY DEF SortInv, TypeOK
<1>2. places \subseteq Nat /\ places # {}
  <2>1. PICK n \in S : n \in Placed
    OBVIOUS
  <2>2. PICK i \in DOMAIN result : result[i] = n
    BY <2>1 DEF Placed
  <2> QED BY <1>1, <2>1, <2>2
<1>3. PICK j \in places : \A i \in places : j <= i
  <2>1. Least(places) \in places /\ \A i \in places : Least(places) <= i
    BY <1>2, LeastIsLeast
  <2> QED BY <2>1
<1>4. PICK k \in DOMAIN parents[result[j]] : parents[result[j]][k] \in S
  BY DEF Deadlocked
<1>5. PICK i \in 1..(j - 1) : result[i] = parents[result[j]][k]
  BY DEF SortInv, ParentsFirst
<1>6. i \in places /\ i < j
  BY <1>1, <1>4, <1>5
<1> QED BY <1>1, <1>3, <1>6

(* When the heap is empty and nodes are left, each waits for another one   *)
(* that is left.                                                           *)
LEMMA VerdictInv == SortInv => CycleVerdict
<1> SUFFICES ASSUME SortInv PROVE CycleVerdict
  OBVIOUS
<1>1. TypeOK /\ PhaseInv /\ KahnInv
  BY DEF SortInv
<1>2. phase \in {"sorted", "cycle"} =>
        /\ Len(result) = NodeCount <=> Placed = Node
        /\ {c \in Node : c \notin Placed /\ Unplaced(c) = {}} = {}
        /\ Resolved
  BY <1>1, FullMeansAll DEF KahnInv, PhaseInv
<1>3. ASSUME phase = "cycle"
      PROVE  \E S \in SUBSET Node : S # {} /\ Deadlocked(S)
  <2> DEFINE S == Node \ Placed
  <2>1. Placed \subseteq Node /\ Placed # Node
    BY <1>1, <1>2, <1>3 DEF PhaseInv, TypeOK, Placed
  <2>2. ASSUME NEW n \in S
        PROVE  \E k \in DOMAIN parents[n] : parents[n][k] \in S
    <3>1. PICK k \in Unplaced(n) : TRUE
      BY <1>2, <1>3
    <3> QED BY <1>2, <1>3, <3>1 DEF Unplaced, Resolved
  <2>3. S \in SUBSET Node /\ S # {} /\ Deadlocked(S)
    BY <2>1, <2>2 DEF Deadlocked
  <2> QED BY <2>3
<1>4. ASSUME phase = "sorted", NEW S \in SUBSET Node, Deadlocked(S)
      PROVE  S = {}
  BY <1>1, <1>2, <1>4, SortedHasNoCycle DEF PhaseInv
<1> QED BY <1>3, <1>4 DEF CycleVerdict

(* A spec is rejected for a cycle exactly when some of its nodes wait for  *)
(* one another.                                                            *)
THEOREM CycleVerdictCorrect == Spec => []CycleVerdict
BY VerdictInv, SortCorrect, PTL
-----------------------------------------------------------------------------
(* What makes the order the least one: at every place of the result stands *)
(* the least of the nodes that could stand there, given the places before. *)
ReadyFor(n, k) ==
  /\ \A i \in 1..(k - 1) : result[i] # n
  /\ \A l \in DOMAIN parents[n] :
       \E i \in 1..(k - 1) : result[i] = parents[n][l]

GreedyInv ==
  \A k \in DOMAIN result : \A n \in Node : ReadyFor(n, k) => result[k] <= n

(* A node that is ready for the next place is in the heap.                 *)
LEMMA PopIsGreedy ==
  ASSUME SortInv, GreedyInv, Pop
  PROVE  GreedyInv'
<1> DEFINE len == Len(result)
<1>1. /\ \A m \in heap : Least(heap) <= m
      /\ DOMAIN result = 1..len /\ len \in Nat
      /\ DOMAIN result' = 1..(len + 1)
      /\ result'[len + 1] = Least(heap)
      /\ \A i \in 1..len : result'[i] = result[i]
  BY PopPlaces
<1>2. /\ parents' = parents
      /\ heap = {c \in Node : c \notin Placed /\ Unplaced(c) = {}}
  BY DEF Pop, SortInv, KahnInv
<1> SUFFICES ASSUME NEW k \in 1..(len + 1), NEW n \in Node, ReadyFor(n, k)'
             PROVE  result'[k] <= n
  BY <1>1 DEF GreedyInv
<1>3. \A i \in 1..(k - 1) : i \in 1..len /\ result'[i] = result[i]
  BY <1>1
<1>4. ReadyFor(n, k)
  BY <1>2, <1>3 DEF ReadyFor
<1>5. CASE k = len + 1
  <2>1. n \notin Placed /\ Unplaced(n) = {}
    BY <1>1, <1>4, <1>5 DEF ReadyFor, Placed, Unplaced
  <2> QED BY <1>1, <1>2, <1>5, <2>1
<1>6. CASE k # len + 1
  <2>1. k \in DOMAIN result
    BY <1>1, <1>6
  <2> QED BY <1>1, <1>4, <2>1 DEF GreedyInv
<1> QED BY <1>5, <1>6

LEMMA GreedyStep == SortInv /\ GreedyInv /\ [Next]_sortVars => GreedyInv'
<1> SUFFICES ASSUME SortInv, GreedyInv, [Next]_sortVars PROVE GreedyInv'
  OBVIOUS
<1>1. CASE Pop
  BY <1>1, PopIsGreedy
<1>2. CASE ~Pop
  <2>1. parents' = parents /\ result' = result
    BY <1>2 DEF Next, Resolve, RejectUnknown, Finish, sortVars
  <2> QED BY <2>1 DEF GreedyInv, ReadyFor
<1> QED BY <1>1, <1>2

(* executor.py _topo_sort, the heap: the order is built greedily. *)
LEMMA SortIsGreedy == Spec => []GreedyInv
<1>1. Init => GreedyInv
  BY DEF Init, GreedyInv
<1> QED BY <1>1, GreedyStep, SortCorrect, PTL DEF Spec

(* "Stable by source order": no other order that puts parents first is     *)
(* less than the result. Where it first differs it has a node that was     *)
(* ready, and the result has the least of those.                           *)
THEOREM OrderIsLeast == Spec => []LeastOrder
<1>1. SortInv /\ GreedyInv => LeastOrder
  <2> SUFFICES ASSUME SortInv, GreedyInv, phase = "sorted",
                      NEW p \in TopologicalOrders,
                      ~ \A i \in Node : p[i] = result[i]
               PROVE  \E i \in Node : /\ result[i] < p[i]
                                      /\ \A h \in 1..(i - 1) : p[h] = result[h]
    BY DEF LeastOrder
  <2>1. /\ DOMAIN result = Node /\ \A i \in Node : result[i] \in Node
        /\ NodeCount \in Nat
    <3>1. result \in Seq(Node) /\ Len(result) = NodeCount
      BY DEF SortInv, TypeOK, PhaseInv
    <3> QED BY <3>1, TopoAssumption DEF Node
  <2>2. /\ p \in [Node -> Node]
        /\ \A i, j \in Node : p[i] = p[j] => i = j
        /\ \A j \in Node : \A l \in DOMAIN parents[p[j]] :
             \E i \in 1..(j - 1) : p[i] = parents[p[j]][l]
    BY DEF TopologicalOrders
  <2> DEFINE different == {i \in Node : p[i] # result[i]}
  <2>3. PICK k \in different : \A i \in different : k <= i
    <3>1. different \subseteq Nat /\ different # {}
      BY DEF Node
    <3> HIDE DEF different
    <3> QED BY <3>1, LeastIsLeast
  <2>4. \A i \in 1..(k - 1) : i \in Node /\ p[i] = result[i]
    <3>1. \A i \in 1..(k - 1) : i \in Node /\ ~(k <= i)
      BY <2>1 DEF Node
    <3> QED BY <2>3, <3>1
  <2>5. ReadyFor(p[k], k)
    <3>1. \A i \in 1..(k - 1) : result[i] # p[k]
      <4>1. \A i \in 1..(k - 1) : i # k
        BY <2>1 DEF Node
      <4> QED BY <2>2, <2>4, <4>1
    <3>2. \A l \in DOMAIN parents[p[k]] :
            \E i \in 1..(k - 1) : result[i] = parents[p[k]][l]
      BY <2>2, <2>4
    <3> QED BY <3>1, <3>2 DEF ReadyFor
  <2>6. result[k] <= p[k]
    BY <2>1, <2>2, <2>5 DEF GreedyInv
  <2>7. result[k] < p[k]
    BY <2>1, <2>2, <2>6 DEF Node
  <2> QED BY <2>4, <2>7
<1> QED BY <1>1, SortCorrect, SortIsGreedy, PTL
=============================================================================
