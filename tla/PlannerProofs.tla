--------------------------- MODULE PlannerProofs ---------------------------
(***************************************************************************)
(* What Executor.prepare hands out, for specs of any size: the order of    *)
(* the sort, moved by _reorder_mounts, with partitions numbered before.    *)
(*                                                                         *)
(* PlanInv extends the invariant of the sort by what the steps around it   *)
(* have done so far. What list.sort returns is stated as IsSortOf: a       *)
(* permutation in which nothing stands behind what it goes before.         *)
(***************************************************************************)
EXTENDS Planner, TopoSortProofs, SequenceTheorems

(* What _reorder_mounts makes of s: a permutation `at` under which what is *)
(* at an earlier place goes before what is at a later one.                 *)
IsSortOf(order, s) ==
  \E at \in [1..Len(s) -> 1..Len(s)] :
    /\ order = [k \in 1..Len(s) |-> s[at[k]]]
    /\ \A i \in 1..Len(s) : \E k \in 1..Len(s) : at[k] = i
    /\ \A k, l \in 1..Len(s) : k < l => at[k] \in Before(storage, s, at[l])

(* What the steps of prepare() around the sort have left behind. *)
StepsInv ==
  /\ storage \in Storages /\ parents = ParentListsOf(storage)
  /\ stage \in {"sort", "validate", "ready", "invalid"}
  /\ linked \in [Node -> Seq(Node)]
  /\ index \in [Node -> 0..NodeCount]
  /\ \A n \in Node \ Numbered : index[n] = 0
  /\ ordered \in Seq(Node)
  /\ phase \in {"sort", "sorted", "cycle"} =>
       linked = parents /\ \A n \in Numbered : index[n] = Number(n)
  /\ stage \in {"validate", "ready"} =>
       phase = "sorted" /\ IsSortOf(ordered, result)
  /\ stage = "ready" => \A j \in DOMAIN ordered : Valid(PlanOf(storage, ordered), j)

PlanInv == SortInv /\ StepsInv
-----------------------------------------------------------------------------

(* posixpath.normpath of path components: a sequence of components.        *)
LEMMA DescendTyped ==
  ASSUME NEW T, NEW path \in Seq(T), NEW c \in T
  PROVE  Descend(path, c) \in Seq(T)
<1>1. PICK S : S = Seq(T)
  OBVIOUS
<1>2. Front(path) \in S \/ path = <<>>
  <2> SUFFICES ASSUME path # <<>> PROVE Front(path) \in S
    OBVIOUS
  <2>1. Len(path) \in Nat /\ \A i \in 1..(Len(path) - 1) : path[i] \in T
    OBVIOUS
  <2>2. SubSeq(path, 1, Len(path) - 1) \in Seq(T)
    BY <2>1, SubSeqProperties
  <2> QED BY <1>1, <2>2 DEF Front
<1>3. Append(path, c) \in S
  BY <1>1
<1>4. path \in S
  BY <1>1
<1>5. \/ Descend(path, c) \in {path, Append(path, c)}
      \/ path # <<>> /\ Descend(path, c) = Front(path)
  BY DEF Descend
<1> QED BY <1>1, <1>2, <1>3, <1>4, <1>5

(* Induction up to n, on membership of a set.                              *)
LEMMA UpTo ==
  ASSUME NEW n \in Nat, NEW S, 0 \in S,
         \A k \in 1..n : k - 1 \in S => k \in S
  PROVE  0..n \subseteq S
<1> DEFINE missing == (0..n) \ S
<1> SUFFICES ASSUME missing # {} PROVE FALSE
  OBVIOUS
<1>1. missing \subseteq Nat
  OBVIOUS
<1>2. PICK m \in missing : \A k \in missing : m <= k
  <2> HIDE DEF missing
  <2> QED BY <1>1, LeastIsLeast
<1>3. m \in 1..n
  BY <1>2
<1>4. m - 1 \in 0..n /\ ~(m <= m - 1)
  BY <1>3
<1>5. m - 1 \notin missing
  <2> HIDE DEF missing
  <2> QED BY <1>2, <1>4
<1>6. m \in S
  BY <1>3, <1>4, <1>5
<1> QED BY <1>2, <1>6

(* posixpath.normpath of a path is a path: the recursive function that     *)
(* Normalized chooses exists, as one for each prefix of the path extends   *)
(* to the next component.                                                  *)
LEMMA NormalizedTyped ==
  ASSUME NEW T, NEW raw \in Seq(T)
  PROVE  Normalized(raw) \in Seq(T)
<1> DEFINE n == Len(raw)
           IsPath(f, m) ==
             /\ f \in [0..m -> Seq(T)] /\ f[0] = <<>>
             /\ \A k \in 1..m : f[k] = Descend(f[k - 1], raw[k])
           possible == {m \in 0..n : \E f : IsPath(f, m)}
<1>1. n \in Nat /\ \A k \in 1..n : raw[k] \in T
  OBVIOUS
<1>2. 0 \in possible
  <2> DEFINE f == [k \in 0..0 |-> <<>>]
  <2>1. f \in [0..0 -> Seq(T)] /\ f[0] = <<>>
    OBVIOUS
  <2>2. IsPath(f, 0)
    BY <2>1
  <2> HIDE DEF IsPath, f
  <2> QED BY <1>1, <2>2
<1>3. ASSUME NEW m \in 1..n, m - 1 \in possible
      PROVE  m \in possible
  <2>1. PICK f : IsPath(f, m - 1)
    BY <1>3
  <2> DEFINE c == raw[m]
             last == f[m - 1]
             g == [k \in 0..m |-> IF k < m THEN f[k] ELSE Descend(last, c)]
  <2>2. c \in T /\ last \in Seq(T)
    BY <1>1, <2>1
  <2>3. Descend(last, c) \in Seq(T)
    <3> HIDE DEF c, last
    <3> QED BY <2>2, DescendTyped
  <2>4. g \in [0..m -> Seq(T)] /\ g[0] = <<>>
    BY <1>1, <2>1, <2>3
  <2>5. ASSUME NEW k \in 1..m
        PROVE  g[k] = Descend(g[k - 1], raw[k])
    <3>1. k \in 0..m /\ k - 1 \in 0..m /\ g[k - 1] = f[k - 1]
      BY <1>1
    <3>2. CASE k < m
      <4>1. f[k] = Descend(f[k - 1], raw[k]) /\ g[k] = f[k]
        BY <1>1, <2>1, <3>1, <3>2
      <4> QED BY <3>1, <4>1
    <3>3. CASE k = m
      <4>1. g[k] = Descend(last, c)
        BY <1>1, <3>1, <3>3
      <4> QED BY <3>1, <3>3, <4>1
    <3> QED BY <1>1, <3>2, <3>3
  <2> HIDE DEF g
  <2>6. IsPath(g, m)
    BY <2>4, <2>5
  <2> HIDE DEF IsPath
  <2> QED BY <1>1, <2>6
<1>4. PICK f : IsPath(f, n)
  <2>1. \A m \in 0..n : m \in possible
    <3> HIDE DEF possible
    <3> QED BY <1>1, <1>2, <1>3, UpTo
  <2> HIDE DEF IsPath
  <2> QED BY <1>1, <2>1
<1> DEFINE Body(h) == [k \in 0..n |-> IF k = 0 THEN <<>>
                                      ELSE Descend(h[k - 1], raw[k])]
           path == CHOOSE h : h = Body(h)
<1>5. f = Body(f)
  <2>1. f \in [0..n -> Seq(T)]
    BY <1>4
  <2>2. ASSUME NEW k \in 0..n
        PROVE  f[k] = IF k = 0 THEN <<>> ELSE Descend(f[k - 1], raw[k])
    BY <1>1, <1>4
  <2> QED BY <2>1, <2>2
<1>6. path = Body(path)
  <2> HIDE DEF Body
  <2> QED BY <1>5
<1>7. /\ path[0] = <<>>
      /\ \A k \in 1..n : path[k] = Descend(path[k - 1], raw[k])
  <2>1. \A k \in 0..n : path[k] = Body(path)[k]
    <3> HIDE DEF Body, path
    <3> QED BY <1>6
  <2> HIDE DEF path
  <2> QED BY <1>1, <2>1
<1> HIDE DEF path
<1>8. \A m \in 0..n : path[m] \in Seq(T)
  <2> DEFINE typed == {m \in 0..n : path[m] \in Seq(T)}
  <2>1. 0 \in typed
    <3>1. <<>> \in Seq(T)
      OBVIOUS
    <3>2. path[0] \in Seq(T) /\ 0 \in 0..n
      BY <1>1, <1>7, <3>1
    <3> QED BY <3>2
  <2>2. ASSUME NEW m \in 1..n, m - 1 \in typed PROVE m \in typed
    <3>1. path[m - 1] \in Seq(T) /\ raw[m] \in T
      BY <1>1, <2>2
    <3>2. Descend(path[m - 1], raw[m]) \in Seq(T)
      BY <3>1, DescendTyped
    <3> QED BY <1>1, <1>7, <3>2
  <2>3. \A m \in 0..n : m \in typed
    <3> HIDE DEF typed
    <3> QED BY <1>1, <2>1, <2>2, UpTo
  <2> QED BY <2>3
<1>9. Normalized(raw) = path[n]
  BY DEF Normalized, path
<1> QED BY <1>1, <1>8, <1>9

(* Executor._reorder_mounts, list.sort: the counts of items that go before *)
(* an item are its places in a sorted order.                               *)
LEMMA ReorderedIsSort ==
  ASSUME NEW s \in Seq(Node), \A n \in Node : SortKey(storage[n]) \in Nat
  PROVE  IsSortOf(Reordered(storage, s), s)
<1> DEFINE n == Len(s)
           rank == [i \in 1..n |-> Cardinality(Before(storage, s, i)) + 1]
           at == [k \in 1..n |->
                   CHOOSE i \in 1..n : Cardinality(Before(storage, s, i)) = k - 1]
<1>1. /\ n \in Nat /\ DOMAIN s = 1..n
      /\ \A i \in 1..n : SortKey(storage[s[i]]) \in Nat
  OBVIOUS
<1>2. /\ IsFiniteSet(1..n) /\ Cardinality(1..n) = n
  BY <1>1, FS_Interval
<1>3. ASSUME NEW i \in 1..n
      PROVE  /\ Before(storage, s, i) \in SUBSET ((1..n) \ {i})
             /\ IsFiniteSet(Before(storage, s, i))
             /\ Cardinality(Before(storage, s, i)) \in 0..(n - 1)
  <2>1. Before(storage, s, i) \in SUBSET ((1..n) \ {i})
    BY <1>1 DEF Before
  <2>2. IsFiniteSet((1..n) \ {i}) /\ Cardinality((1..n) \ {i}) = n - 1
    BY <1>2, FS_RemoveElement
  <2>3. /\ IsFiniteSet(Before(storage, s, i))
        /\ Cardinality(Before(storage, s, i)) <= n - 1
    BY <2>1, <2>2, FS_Subset
  <2>4. Cardinality(Before(storage, s, i)) \in Nat
    BY <2>3, FS_CardinalityType
  <2> QED BY <1>1, <2>1, <2>3, <2>4
<1>4. ASSUME NEW i \in 1..n, NEW j \in 1..n, i \in Before(storage, s, j)
      PROVE  rank[i] < rank[j]
  <2>1. Before(storage, s, i) \in SUBSET Before(storage, s, j)
    BY <1>1, <1>4 DEF Before
  <2>2. Before(storage, s, i) # Before(storage, s, j)
    BY <1>3, <1>4
  <2>3. /\ Cardinality(Before(storage, s, i)) <= Cardinality(Before(storage, s, j))
        /\ Cardinality(Before(storage, s, i)) # Cardinality(Before(storage, s, j))
    BY <1>3, <2>1, <2>2, FS_Subset
  <2>4. /\ Cardinality(Before(storage, s, i)) \in Nat
        /\ Cardinality(Before(storage, s, j)) \in Nat
    BY <1>3
  <2> QED BY <2>3, <2>4
<1>5. rank \in [1..n -> 1..n]
  BY <1>1, <1>3
<1>6. ASSUME NEW i \in 1..n, NEW j \in 1..n, i # j
      PROVE  i \in Before(storage, s, j) \/ j \in Before(storage, s, i)
  BY <1>1, <1>6 DEF Before
<1>7. \A i, j \in 1..n : rank[i] = rank[j] => i = j
  <2> HIDE DEF rank
  <2> QED BY <1>4, <1>5, <1>6
<1>8. \A k \in 1..n : \E i \in 1..n : rank[i] = k
  <2> HIDE DEF rank
  <2>1. rank \in Injection(1..n, 1..n)
    BY <1>5, <1>7 DEF Injection, IsInjective
  <2>2. rank \in Surjection(1..n, 1..n)
    BY <1>2, <2>1, FS_Injection
  <2> QED BY <2>2 DEF Surjection
<1>9. ASSUME NEW k \in 1..n
      PROVE  at[k] \in 1..n /\ rank[at[k]] = k
  <2>1. \E i \in 1..n : Cardinality(Before(storage, s, i)) = k - 1
    <3>1. PICK i \in 1..n : rank[i] = k
      BY <1>8
    <3>2. rank[i] = Cardinality(Before(storage, s, i)) + 1
      OBVIOUS
    <3>3. Cardinality(Before(storage, s, i)) \in Int /\ k \in Int
      BY <1>3
    <3> HIDE DEF rank
    <3>4. Cardinality(Before(storage, s, i)) = k - 1
      BY <3>1, <3>2, <3>3
    <3> QED BY <3>4
  <2>2. at[k] \in 1..n /\ Cardinality(Before(storage, s, at[k])) = k - 1
    BY <2>1
  <2> HIDE DEF at
  <2> QED BY <2>2
<1>10. Reordered(storage, s) = [k \in 1..n |-> s[at[k]]]
  BY <1>1 DEF Reordered
<1>11. at \in [1..n -> 1..n]
  BY <1>9
<1> HIDE DEF at
<1>12. \A i \in 1..n : \E k \in 1..n : at[k] = i
  <2> HIDE DEF rank
  <2> QED BY <1>5, <1>7, <1>9
<1>13. ASSUME NEW k \in 1..n, NEW l \in 1..n, k < l
       PROVE  at[k] \in Before(storage, s, at[l])
  <2> HIDE DEF rank
  <2>1. /\ at[k] \in 1..n /\ rank[at[k]] = k
        /\ at[l] \in 1..n /\ rank[at[l]] = l
    BY <1>9
  <2>2. k \in Nat /\ l \in Nat /\ k # l /\ ~(l < k)
    BY <1>1, <1>13
  <2>3. at[l] \in Before(storage, s, at[k]) => l < k
    BY <1>4, <2>1
  <2>4. at[k] # at[l]
    BY <2>1, <2>2
  <2> QED BY <1>6, <2>1, <2>2, <2>3, <2>4
<1> QED BY <1>10, <1>11, <1>12, <1>13 DEF IsSortOf

(* The depth of a mount is a number. *)
LEMMA KeysAreNumbers ==
  ASSUME storage \in Storages
  PROVE  \A n \in Node : /\ storage[n] \in NodeRecord(Node \cup {Unknown})
                        /\ Normalized(storage[n].path) \in Seq(STRING)
                        /\ MountDepth(storage[n]) \in Nat
                        /\ SortKey(storage[n]) \in Nat
<1> SUFFICES ASSUME NEW n \in Node
             PROVE  /\ storage[n] \in NodeRecord(Node \cup {Unknown})
                    /\ Normalized(storage[n].path) \in Seq(STRING)
                    /\ MountDepth(storage[n]) \in Nat /\ SortKey(storage[n]) \in Nat
  OBVIOUS
<1>1. storage[n] \in NodeRecord(Node \cup {Unknown})
  BY PlannerAssumption
<1>2. storage[n].path \in Seq(STRING)
  BY <1>1 DEF NodeRecord
<1>3. Normalized(storage[n].path) \in Seq(STRING)
  BY <1>2, NormalizedTyped
<1>4. MountDepth(storage[n]) \in Nat
  <2> DEFINE len == Len(Normalized(storage[n].path))
  <2>1. len \in Nat
    BY <1>3
  <2>2. MountDepth(storage[n]) \in {len, 2, len + 1}
    BY DEF MountDepth
  <2> HIDE DEF len
  <2> QED BY <2>1, <2>2
<1> QED BY <1>1, <1>3, <1>4 DEF SortKey
-----------------------------------------------------------------------------
(* Numbers are no higher than there are nodes. *)
LEMMA NumberTyped == \A n \in Node : Number(n) \in 0..NodeCount
<1> SUFFICES ASSUME NEW n \in Node PROVE Number(n) \in 0..NodeCount
  OBVIOUS
<1>1. IsFiniteSet(Node) /\ Cardinality(Node) = NodeCount
  BY TopoAssumption, FS_Interval DEF Node
<1> DEFINE S == {m \in Numbered : parents[m] = parents[n] /\ m <= n}
<1>2. S \in SUBSET Node
  BY DEF Numbered
<1>3. Cardinality(S) \in Nat /\ Cardinality(S) <= NodeCount
  <2> HIDE DEF S
  <2>1. IsFiniteSet(S) /\ Cardinality(S) <= NodeCount
    BY <1>1, <1>2, FS_Subset
  <2> QED BY <2>1, FS_CardinalityType
<1>4. Number(n) = Cardinality(S)
  BY DEF Number
<1> HIDE DEF S
<1> QED BY <1>3, <1>4, TopoAssumption

(* The parents of a node that resolves are nodes. *)
LEMMA ResolvedTyped ==
  ASSUME parents \in [Node -> Seq(Node \cup {Unknown})],
         NEW n \in Node, Resolves(n)
  PROVE  parents[n] \in Seq(Node)
<1>1. PICK ps : ps = parents[n]
  OBVIOUS
<1>2. ps \in Seq(Node \cup {Unknown}) /\ \A k \in DOMAIN ps : ps[k] \in Node
  BY <1>1 DEF Resolves
<1> QED BY <1>1, <1>2

(* Whichever nodes _resolve_parents comes to, it links them to nodes. *)
LEMMA RelinkedTyped ==
  ASSUME TypeOK, linked \in [Node -> Seq(Node)]
  PROVE  /\ Relinked \in [Node -> Seq(Node)]
         /\ (\A n \in Node : Resolves(n)) => Relinked = parents
<1>1. NodeCount \in Nat /\ parents = [n \in Node |-> parents[n]]
  BY TopoAssumption DEF TypeOK
<1>2. \A n \in Node : n \in 1..n /\ 1..n \subseteq Node
  BY <1>1 DEF Node
<1>3. \A n \in Node : Resolves(n) => parents[n] \in Seq(Node)
  BY ResolvedTyped DEF TypeOK
<1> QED BY <1>1, <1>2, <1>3 DEF Relinked, LinkedTo

(* Once they are linked, nodes have the parents they name. *)
LEMMA LinkedIsNamed ==
  ASSUME storage \in Storages, parents = ParentListsOf(storage), linked = parents
  PROVE  LinkedNodes = storage
<1>1. storage \in [Node -> NodeRecord(Node \cup {Unknown})]
  BY PlannerAssumption
<1>2. ASSUME NEW n \in Node
      PROVE  [storage[n] EXCEPT !.parents = linked[n]] = storage[n]
  <2>1. linked[n] = storage[n].parents
    BY DEF ParentListsOf
  <2>2. storage[n] \in NodeRecord(Node \cup {Unknown})
    BY <1>1
  <2> QED BY <2>1, <2>2 DEF NodeRecord
<1>3. LinkedNodes = [n \in Node |-> storage[n]]
  BY <1>2 DEF LinkedNodes
<1> QED BY <1>1, <1>3
-----------------------------------------------------------------------------
(* The steps of prepare(). *)
LEMMA PlannerInitInv == PlannerInit => PlanInv
<1> SUFFICES ASSUME PlannerInit PROVE PlanInv
  OBVIOUS
<1>1. Init /\ phase = "resolve" /\ NodeCount \in Nat
  BY TopoAssumption DEF PlannerInit, Init
<1>2. SortInv
  BY <1>1, InitInv
<1>3. /\ index \in [Node -> 0..NodeCount] /\ linked \in [Node -> Seq(Node)]
      /\ \A n \in Node \ Numbered : index[n] = 0
  <2>1. CASE New
    BY <1>1, <2>1 DEF New
  <2>2. CASE Used
    <3>1. index \in [Node -> 0..NodeCount]
      BY <1>1, <2>2, NumberTyped DEF Used
    <3>2. linked \in [Node -> Seq(Node)]
      <4>1. parents \in [Node -> Seq(Node \cup {Unknown})]
        BY <1>2 DEF SortInv, TypeOK
      <4> QED BY <2>2, <4>1, ResolvedTyped DEF Used
    <3> QED BY <2>2, <3>1, <3>2 DEF Used
  <2> QED BY <2>1, <2>2 DEF PlannerInit
<1>4. StepsInv
  BY <1>1, <1>3 DEF PlannerInit, StepsInv
<1> QED BY <1>2, <1>4 DEF PlanInv

(* Every step is one of the sort, or leaves the sort alone. *)
LEMMA PlannerSorts == PlannerNext \/ UNCHANGED planVars => [Next]_sortVars
BY DEF PlannerNext, ResolveAndNumber, RejectParents, RejectLayout, Sort,
       Reorder, Validate, Next, planVars

(* What depends on the spec alone stays. *)
LEMMA SpecConstant ==
  ASSUME storage' = storage, parents' = parents
  PROVE  /\ \A s : PlanOf(storage, s)' = PlanOf(storage, s)
         /\ \A order, s : IsSortOf(order, s)' = IsSortOf(order, s)
         /\ Numbered' = Numbered /\ \A n : Number(n)' = Number(n)
<1>1. \A n : SortKey(storage[n])' = SortKey(storage[n])
  BY DEF SortKey, IsMount, MountDepth
<1>2. \A s, i : Before(storage, s, i)' = Before(storage, s, i)
  BY <1>1 DEF Before
<1>6. ASSUME NEW order, NEW s
      PROVE  IsSortOf(order, s)' = IsSortOf(order, s)
  BY <1>2, Zenon DEF IsSortOf
<1>3. \A s : PlanOf(storage, s)' = PlanOf(storage, s)
  BY DEF PlanOf
<1>4. Numbered' = Numbered
  BY DEF Numbered
<1>5. \A n : Number(n)' = Number(n)
  BY <1>4 DEF Number
<1> QED BY <1>3, <1>4, <1>5, <1>6

(* executor.py prepare: every step keeps the invariant. *)
LEMMA PlannerStepInv == PlanInv /\ [PlannerNext]_planVars => PlanInv'
<1> SUFFICES ASSUME PlanInv, [PlannerNext]_planVars PROVE PlanInv'
  OBVIOUS
<1>1. SortInv'
  BY PlannerSorts, StepInv DEF PlanInv
<1>2. /\ storage \in Storages /\ parents = ParentListsOf(storage)
      /\ result \in Seq(Node) /\ TypeOK /\ linked \in [Node -> Seq(Node)]
  BY DEF PlanInv, StepsInv, SortInv, TypeOK
<1>3. storage' = storage /\ parents' = parents
  BY DEF PlannerNext, ResolveAndNumber, RejectParents, RejectLayout, Sort,
         Reorder, Validate, planVars, sortVars, Resolve, RejectUnknown, Pop,
         Finish
<1>4. ParentListsOf(storage)' = ParentListsOf(storage)
  BY <1>3 DEF ParentListsOf
<1>5. Numbered' = Numbered /\ \A n : Number(n)' = Number(n)
  BY <1>3, SpecConstant
<1>6. ASSUME result' = result, ordered' = ordered
      PROVE  IsSortOf(ordered, result)' <=> IsSortOf(ordered, result)
  BY <1>3, <1>6, SpecConstant
<1>7. CASE ResolveAndNumber
  <2>1. /\ linked' = Relinked /\ index' = Renumbered
        /\ ordered' = ordered /\ stage' = "sort"
        /\ \A n \in Node : Resolves(n)
    BY <1>7 DEF ResolveAndNumber, Resolve, Resolves
  <2>2. linked' \in [Node -> Seq(Node)] /\ linked' = parents
    BY <1>2, <2>1, RelinkedTyped
  <2>3. /\ index' \in [Node -> 0..NodeCount]
        /\ \A n \in Node \ Numbered : index'[n] = 0
        /\ \A n \in Numbered : index'[n] = Number(n)
    BY <2>1, NumberTyped DEF Renumbered, PlanInv, StepsInv, Numbered
  <2> QED BY <1>1, <1>2, <1>3, <1>4, <1>5, <2>1, <2>2, <2>3
          DEF PlanInv, StepsInv
<1>8. CASE RejectParents \/ RejectLayout
  <2>1. /\ linked' = Relinked /\ index' = index /\ ordered' = ordered
        /\ stage' \in {"sort", "invalid"}
        /\ phase' \notin {"sort", "sorted", "cycle"}
    BY <1>8 DEF RejectParents, RejectLayout, RejectUnknown, sortVars
  <2>2. linked' \in [Node -> Seq(Node)]
    BY <1>2, <2>1, RelinkedTyped
  <2> QED BY <1>1, <1>2, <1>3, <1>4, <1>5, <2>1, <2>2 DEF PlanInv, StepsInv
<1>9. CASE Sort
  <2>1. /\ linked' = linked /\ index' = index /\ ordered' = ordered
        /\ stage' = "sort"
        /\ phase' \in {"sort", "sorted", "cycle"} =>
             phase \in {"sort", "sorted", "cycle"}
    BY <1>9 DEF Sort, Pop, Finish
  <2> QED BY <1>1, <1>2, <1>3, <1>4, <1>5, <2>1 DEF PlanInv, StepsInv
<1>10. CASE Reorder
  <2>1. /\ phase = "sorted" /\ phase' = phase /\ result' = result
        /\ linked' = linked /\ index' = index /\ stage' = "validate"
        /\ ordered' = Reordered(storage, result)
    BY <1>10 DEF Reorder, sortVars
  <2>2. IsSortOf(ordered', result)
    <3>1. \A n \in Node : SortKey(storage[n]) \in Nat
      BY <1>2, KeysAreNumbers
    <3>2. IsSortOf(Reordered(storage, result), result)
      BY <1>2, <3>1, ReorderedIsSort
    <3> QED BY <2>1, <3>2
  <2>3. IsSortOf(ordered, result)'
    BY <1>3, <2>1, <2>2, SpecConstant
  <2>4. ordered' \in Seq(Node)
    <3>1. PICK at \in [1..Len(result) -> 1..Len(result)] :
            ordered' = [k \in 1..Len(result) |-> result[at[k]]]
      BY <2>2 DEF IsSortOf
    <3>2. result \in Seq(Node)
      BY <1>2
    <3> QED BY <3>1, <3>2
  <2> QED BY <1>1, <1>2, <1>3, <1>4, <1>5, <2>1, <2>3, <2>4 DEF PlanInv, StepsInv
<1>11. CASE Validate
  <2>1. /\ stage = "validate" /\ phase' = phase /\ result' = result
        /\ linked' = linked /\ index' = index /\ ordered' = ordered
        /\ stage' \in {"ready", "invalid"}
        /\ stage' = "ready" =>
             \A j \in DOMAIN ordered : Valid(PlanOf(storage, ordered), j)
    <3>1. stage = "validate" /\ linked = parents
      BY <1>11 DEF Validate, PlanInv, StepsInv
    <3>2. LinkedNodes = storage
      BY <1>2, <3>1, LinkedIsNamed
    <3> QED BY <1>11, <3>2 DEF Validate, sortVars
  <2>2. PlanOf(storage, ordered)' = PlanOf(storage, ordered)
    BY <1>3, <2>1, SpecConstant
  <2>3. stage' = "ready" =>
          \A j \in DOMAIN ordered' : Valid(PlanOf(storage, ordered)', j)
    BY <2>1, <2>2
  <2> QED BY <1>1, <1>2, <1>3, <1>4, <1>5, <1>6, <2>1, <2>3 DEF PlanInv, StepsInv
<1>12. CASE UNCHANGED planVars
  <2>1. /\ phase' = phase /\ result' = result
        /\ linked' = linked /\ index' = index
        /\ ordered' = ordered /\ stage' = stage
    BY <1>12 DEF planVars, sortVars
  <2>2. PlanOf(storage, ordered)' = PlanOf(storage, ordered)
    BY <1>3, <2>1, SpecConstant
  <2>3. stage' = "ready" =>
          \A j \in DOMAIN ordered' : Valid(PlanOf(storage, ordered)', j)
    BY <2>1, <2>2 DEF PlanInv, StepsInv
  <2> QED BY <1>1, <1>2, <1>3, <1>4, <1>5, <1>6, <2>1, <2>3 DEF PlanInv, StepsInv
<1> QED BY <1>7, <1>8, <1>9, <1>10, <1>11, <1>12 DEF PlannerNext

(* The order is the one the heap makes, and then the one _reorder_mounts   *)
(* makes of it: nodes with the same spec are handed out in the same order. *)
OrderInv ==
  /\ GreedyInv
  /\ stage \in {"validate", "ready"} => ordered = Reordered(storage, result)

LEMMA OrderInitInv == PlannerInit => OrderInv
BY DEF PlannerInit, Init, OrderInv, GreedyInv

LEMMA OrderStepInv == PlanInv /\ OrderInv /\ [PlannerNext]_planVars => OrderInv'
<1> SUFFICES ASSUME PlanInv, OrderInv, [PlannerNext]_planVars PROVE OrderInv'
  OBVIOUS
<1>1. GreedyInv'
  BY PlannerSorts, GreedyStep DEF PlanInv, OrderInv
<1>2. storage' = storage
  BY DEF PlannerNext, ResolveAndNumber, RejectParents, RejectLayout, Sort,
         Reorder, Validate, planVars
<1>3. \/ stage' \in {"sort", "invalid"}
      \/ ordered' = Reordered(storage, result) /\ result' = result
  BY DEF PlannerNext, ResolveAndNumber, RejectParents, RejectLayout, Sort,
         Reorder, Validate, planVars, sortVars, OrderInv, PlanInv, StepsInv
<1> QED BY <1>1, <1>2, <1>3 DEF OrderInv
-----------------------------------------------------------------------------
(* PlanInv holds in every reachable state of prepare(). *)
THEOREM PlannerCorrect == PlannerSpec => []PlanInv
BY PlannerInitInv, PlannerStepInv, PTL DEF PlannerSpec

(* The variables of prepare() have their types. *)
THEOREM PlannerTypeCorrect == PlannerSpec => []PlannerTypeOK
<1>1. PlanInv => PlannerTypeOK
  BY PlannerAssumption DEF PlanInv, StepsInv, SortInv, PlannerTypeOK
<1> QED BY <1>1, PlannerCorrect, PTL
-----------------------------------------------------------------------------
(* A plan that is handed out: the order of the sort, moved by `at`.        *)
MovedBy(at) ==
  /\ Len(result) = NodeCount /\ result \in Seq(Node)
  /\ ordered = [k \in 1..NodeCount |-> result[at[k]]]
  /\ \A i \in 1..NodeCount : \E k \in 1..NodeCount : at[k] = i
  /\ \A k, l \in 1..NodeCount : k < l => at[k] \in Before(storage, result, at[l])
  /\ \A k, l \in 1..NodeCount : ordered[k] = ordered[l] => k = l
  /\ \A n \in Node : \E k \in 1..NodeCount : ordered[k] = n

LEMMA ReadyPlan ==
  ASSUME PlanInv, stage = "ready"
  PROVE  \E at \in [1..NodeCount -> 1..NodeCount] : MovedBy(at)
<1>1. /\ Len(result) = NodeCount /\ result \in Seq(Node)
      /\ IsSortOf(ordered, result)
      /\ \A i, j \in DOMAIN result : result[i] = result[j] => i = j
      /\ TypeOK
  BY DEF PlanInv, StepsInv, SortInv, PhaseInv, KahnInv, TypeOK
<1>2. PICK at \in [1..NodeCount -> 1..NodeCount] :
        /\ ordered = [k \in 1..NodeCount |-> result[at[k]]]
        /\ \A i \in 1..NodeCount : \E k \in 1..NodeCount : at[k] = i
        /\ \A k, l \in 1..NodeCount :
             k < l => at[k] \in Before(storage, result, at[l])
  BY <1>1, Zenon DEF IsSortOf
<1>3. NodeCount \in Nat /\ DOMAIN result = 1..NodeCount
  BY <1>1, TopoAssumption
<1>4. ASSUME NEW k \in 1..NodeCount, NEW l \in 1..NodeCount, k < l
      PROVE  at[k] # at[l]
  <2>1. at[k] \in Before(storage, result, at[l])
    BY <1>2, <1>4
  <2>2. SortKey(storage[result[at[k]]]) \in Nat
    <3>1. result[at[k]] \in Node
      BY <1>1, <1>3
    <3> QED BY <3>1, KeysAreNumbers DEF PlanInv, StepsInv
  <2> QED BY <2>1, <2>2 DEF Before
<1>5. ASSUME NEW k \in 1..NodeCount, NEW l \in 1..NodeCount,
             ordered[k] = ordered[l]
      PROVE  k = l
  <2>1. at[k] = at[l]
    BY <1>1, <1>2, <1>3, <1>5
  <2>2. ~(k < l) /\ ~(l < k)
    BY <1>4, <2>1
  <2> QED BY <1>3, <2>2
<1>6. ASSUME NEW n \in Node
      PROVE  \E k \in 1..NodeCount : ordered[k] = n
  <2>1. Placed = Node
    BY <1>1, FullMeansAll
  <2>2. PICK i \in 1..NodeCount : result[i] = n
    BY <1>3, <2>1 DEF Placed
  <2> QED BY <1>2, <2>2
<1>7. MovedBy(at)
  <2>1. Len(result) = NodeCount /\ result \in Seq(Node)
    BY <1>1
  <2>2. \A k, l \in 1..NodeCount : ordered[k] = ordered[l] => k = l
    BY <1>5
  <2>3. \A n \in Node : \E k \in 1..NodeCount : ordered[k] = n
    BY <1>6
  <2> QED BY <1>2, <2>1, <2>2, <2>3, Zenon DEF MovedBy
<1> QED BY <1>7

(* A node and its parents in the plan. *)
LEMMA PlanNode ==
  ASSUME PlanInv, stage = "ready", NEW j \in 1..NodeCount
  PROVE  LET n    == ordered[j]
             node == PlanOf(storage, ordered)[j]
         IN  /\ n \in Node /\ DOMAIN ordered = 1..NodeCount
             /\ DOMAIN PlanOf(storage, ordered) = 1..NodeCount
             /\ node \in NodeRecord(1..NodeCount)
             /\ node.kind = storage[n].kind
             /\ node.ignore = storage[n].ignore
             /\ node.path = Normalized(storage[n].path)
             /\ Len(node.parents) = Len(parents[n])
             /\ DOMAIN node.parents = DOMAIN parents[n]
             /\ \A k \in DOMAIN parents[n] :
                  /\ node.parents[k] \in 1..NodeCount
                  /\ ordered[node.parents[k]] = parents[n][k]
<1> DEFINE n == ordered[j]
           raw == storage[n]
           Place(q) == CHOOSE i \in DOMAIN ordered : ordered[i] = q
           list == [k \in DOMAIN raw.parents |-> Place(raw.parents[k])]
           path == Normalized(raw.path)
           node == [raw EXCEPT !.parents = list, !.path = path]
<1>1. PICK at \in [1..NodeCount -> 1..NodeCount] : MovedBy(at)
  BY ReadyPlan
<1>2. /\ NodeCount \in Nat /\ DOMAIN ordered = 1..NodeCount /\ n \in Node
      /\ \A q \in Node : \E k \in 1..NodeCount : ordered[k] = q
  <2>1. /\ Len(result) = NodeCount /\ result \in Seq(Node)
        /\ ordered = [k \in 1..NodeCount |-> result[at[k]]]
        /\ \A q \in Node : \E k \in 1..NodeCount : ordered[k] = q
    BY <1>1, Zenon DEF MovedBy
  <2>2. DOMAIN result = 1..NodeCount /\ at[j] \in 1..NodeCount
    BY <2>1, TopoAssumption
  <2>3. ordered[j] \in Node
    BY <2>1, <2>2
  <2> QED BY <2>1, <2>3, TopoAssumption
<1>3. storage \in Storages /\ parents = ParentListsOf(storage) /\ Resolved
  BY DEF PlanInv, StepsInv, SortInv, PhaseInv
<1>4. /\ PlanOf(storage, ordered)[j] = node
      /\ DOMAIN PlanOf(storage, ordered) = 1..NodeCount
  <2> DEFINE At(i) == [storage[ordered[i]] EXCEPT
                         !.parents = [k \in DOMAIN @ |-> Place(@[k])],
                         !.path = Normalized(@)]
  <2>1. PlanOf(storage, ordered) = [i \in DOMAIN ordered |-> At(i)]
    BY Zenon DEF PlanOf
  <2>2. At(j) = node
    OBVIOUS
  <2> HIDE DEF At, node
  <2> QED BY <1>2, <2>1, <2>2
<1>5. /\ raw \in NodeRecord(Node \cup {Unknown}) /\ path \in Seq(STRING)
      /\ raw.parents = parents[n]
  BY <1>2, <1>3, KeysAreNumbers DEF ParentListsOf
<1>6. \A q \in Node : Place(q) \in 1..NodeCount /\ ordered[Place(q)] = q
  BY <1>2
<1>7. \A k \in DOMAIN parents[n] : parents[n][k] \in Node
  BY <1>2, <1>3 DEF Resolved
<1>8. /\ parents[n] \in Seq(Node \cup {Unknown})
      /\ DOMAIN parents[n] = 1..Len(parents[n]) /\ Len(parents[n]) \in Nat
  <2>1. raw.parents \in Seq(Node \cup {Unknown})
    <3> HIDE DEF raw
    <3> QED BY <1>5 DEF NodeRecord
  <2>2. parents[n] \in Seq(Node \cup {Unknown})
    BY <1>5, <2>1
  <2> QED BY <2>2
<1> DEFINE ps == parents[n]
<1>9. list = [k \in DOMAIN ps |-> Place(ps[k])]
  BY <1>5
<1> HIDE DEF path, raw, Place, list, n
<1>10. \A k \in DOMAIN ps :
        list[k] \in 1..NodeCount /\ ordered[list[k]] = ps[k]
  BY <1>6, <1>7, <1>9
<1>11. list \in Seq(1..NodeCount) /\ Len(list) = Len(ps) /\ DOMAIN list = DOMAIN ps
  <2>1. DOMAIN list = 1..Len(ps)
    BY <1>8, <1>9
  <2>2. \A k \in 1..Len(ps) : list[k] \in 1..NodeCount
    BY <1>8, <1>10
  <2>3. list = [k \in 1..Len(ps) |-> list[k]]
    BY <1>8, <1>9
  <2> HIDE DEF ps
  <2> QED BY <1>8, <2>1, <2>2, <2>3
<1>12. /\ node \in NodeRecord(1..NodeCount)
       /\ node.kind = raw.kind /\ node.path = path /\ node.parents = list
       /\ node.ignore = raw.ignore
  BY <1>5, <1>11 DEF NodeRecord
<1>13. /\ PlanOf(storage, ordered)[j] \in NodeRecord(1..NodeCount)
       /\ PlanOf(storage, ordered)[j].kind = raw.kind
       /\ PlanOf(storage, ordered)[j].ignore = raw.ignore
       /\ PlanOf(storage, ordered)[j].path = path
       /\ PlanOf(storage, ordered)[j].parents = list
  BY <1>4, <1>12
<1> QED BY <1>2, <1>4, <1>10, <1>11, <1>13 DEF path, raw, n

(* What goes before what, in terms of the order. *)
LEMMA PlanOrder ==
  ASSUME PlanInv, stage = "ready",
         NEW k \in 1..NodeCount, NEW l \in 1..NodeCount, k < l
  PROVE  \/ SortKey(storage[ordered[k]]) < SortKey(storage[ordered[l]])
         \/ /\ SortKey(storage[ordered[k]]) = SortKey(storage[ordered[l]])
            /\ \E i, j \in 1..NodeCount :
                 i < j /\ result[i] = ordered[k] /\ result[j] = ordered[l]
<1>1. PICK at \in [1..NodeCount -> 1..NodeCount] : MovedBy(at)
  BY ReadyPlan
<1>2. /\ ordered[k] = result[at[k]] /\ ordered[l] = result[at[l]]
      /\ at[k] \in Before(storage, result, at[l])
  BY <1>1 DEF MovedBy
<1>3. DOMAIN result = 1..NodeCount /\ at[l] \in 1..NodeCount
  <2>1. result \in Seq(Node) /\ Len(result) = NodeCount
    BY <1>1, Zenon DEF MovedBy
  <2> QED BY <2>1
<1> QED BY <1>2, <1>3 DEF Before

(* executor.py prepare, the whole of it: nodes leave it in the order that  *)
(* running them needs, whatever the spec.                                  *)
LEMMA ReadyPrepared ==
  ASSUME PlanInv, stage = "ready", \A n \in Node : ~DoubleSlash(storage[n].path)
  PROVE  Prepared(PlanOf(storage, ordered))
<1> DEFINE P == PlanOf(storage, ordered)
<1>1. /\ NodeCount \in Nat /\ storage \in Storages /\ ParentsFirst
      /\ result \in Seq(Node) /\ Len(result) = NodeCount
      /\ \A i, j \in DOMAIN result : result[i] = result[j] => i = j
      /\ DOMAIN result = 1..NodeCount
  BY TopoAssumption DEF PlanInv, StepsInv, SortInv, PhaseInv, KahnInv, TypeOK
<1>2. \A n \in Node : SortKey(storage[n]) \in Nat /\ MountDepth(storage[n]) \in Nat
  BY <1>1, KeysAreNumbers
<1>3. ASSUME NEW j \in 1..NodeCount
      PROVE  /\ ordered[j] \in Node /\ P[j] \in NodeRecord(1..NodeCount)
             /\ P[j].kind = storage[ordered[j]].kind
             /\ P[j].path = Normalized(storage[ordered[j]].path)
             /\ DOMAIN P[j].parents = DOMAIN parents[ordered[j]]
             /\ \A k \in DOMAIN parents[ordered[j]] :
                  /\ P[j].parents[k] \in 1..NodeCount
                  /\ ordered[P[j].parents[k]] = parents[ordered[j]][k]
  BY PlanNode
<1>4. DOMAIN P = 1..NodeCount /\ DOMAIN ordered = 1..NodeCount
  <2>1. CASE NodeCount = 0
    <3>1. PICK at \in [1..NodeCount -> 1..NodeCount] : MovedBy(at)
      BY ReadyPlan
    <3>2. DOMAIN ordered = 1..NodeCount
      BY <3>1 DEF MovedBy
    <3> QED BY <3>2 DEF PlanOf
  <2>2. CASE NodeCount # 0
    <3>1. 1 \in 1..NodeCount
      BY <1>1, <2>2
    <3> QED BY <3>1, PlanNode
  <2> QED BY <2>1, <2>2
<1>5. P \in Seq(NodeRecord(DOMAIN P))
  <2>1. P = [j \in 1..NodeCount |-> P[j]]
    BY <1>4 DEF PlanOf
  <2> HIDE DEF P
  <2> QED BY <1>1, <1>3, <1>4, <2>1
<1>6. \A j \in DOMAIN P : Valid(P, j)
  BY <1>4 DEF PlanInv, StepsInv
<1>7. ASSUME NEW j \in 1..NodeCount, NEW p \in ParentsOf(P[j]),
             P[p].kind # "filesystem"
      PROVE  p < j
  <2>1. PICK k \in DOMAIN parents[ordered[j]] :
          /\ p = P[j].parents[k] /\ p \in 1..NodeCount
          /\ ordered[p] = parents[ordered[j]][k]
    BY <1>3 DEF ParentsOf
  <2>2. SortKey(storage[ordered[p]]) = 0
    BY <1>3, <1>7, <2>1 DEF SortKey, IsMount
  <2>3. PICK i \in 1..NodeCount : result[i] = ordered[j]
    <3>1. PICK at \in [1..NodeCount -> 1..NodeCount] : MovedBy(at)
      BY ReadyPlan
    <3> QED BY <3>1 DEF MovedBy
  <2>4. PICK h \in 1..(i - 1) : result[h] = ordered[p]
    BY <1>1, <2>1, <2>3 DEF ParentsFirst
  <2>5. ASSUME j < p PROVE FALSE
    <3>1. ~(SortKey(storage[ordered[j]]) < SortKey(storage[ordered[p]]))
      BY <1>2, <1>3, <2>2
    <3>2. PICK a, b \in 1..NodeCount :
            a < b /\ result[a] = ordered[j] /\ result[b] = ordered[p]
      BY <2>1, <2>5, <3>1, PlanOrder
    <3>3. h \in 1..NodeCount
      BY <1>1
    <3>4. a = i /\ b = h
      BY <1>1, <2>3, <2>4, <3>2, <3>3
    <3> QED BY <1>1, <3>2, <3>4
  <2>6. p # j
    <3>1. h \in 1..NodeCount
      BY <1>1
    <3>2. ASSUME p = j PROVE h = i
      BY <1>1, <2>3, <2>4, <3>1, <3>2
    <3> QED BY <3>2
  <2> QED BY <1>1, <2>1, <2>5, <2>6
<1>8. ASSUME NEW m \in 1..NodeCount, NEW n \in 1..NodeCount, m < n,
             P[m].kind = "filesystem"
      PROVE  P[n].kind = "filesystem" /\ Len(P[m].path) <= Len(P[n].path)
  <2>1. /\ SortKey(storage[ordered[m]]) = MountDepth(storage[ordered[m]]) + 1
        /\ SortKey(storage[ordered[m]]) <= SortKey(storage[ordered[n]])
    <3>1. SortKey(storage[ordered[m]]) = MountDepth(storage[ordered[m]]) + 1
      BY <1>3, <1>8 DEF SortKey, IsMount
    <3>2. \/ SortKey(storage[ordered[m]]) < SortKey(storage[ordered[n]])
          \/ SortKey(storage[ordered[m]]) = SortKey(storage[ordered[n]])
      BY <1>8, PlanOrder
    <3>3. /\ SortKey(storage[ordered[m]]) \in Nat
          /\ SortKey(storage[ordered[n]]) \in Nat
      BY <1>2, <1>3
    <3> QED BY <3>1, <3>2, <3>3
  <2>2. /\ IsMount(storage[ordered[n]])
        /\ SortKey(storage[ordered[n]]) = MountDepth(storage[ordered[n]]) + 1
    BY <1>2, <1>3, <2>1 DEF SortKey
  <2>3. \A j \in 1..NodeCount : MountDepth(storage[ordered[j]]) = Len(P[j].path)
    BY <1>3 DEF MountDepth
  <2> QED BY <1>2, <1>3, <2>1, <2>2, <2>3 DEF IsMount
<1> HIDE DEF P
<1>9. Prepared(P)
  BY <1>4, <1>5, <1>6, <1>7, <1>8 DEF Prepared
<1> QED BY <1>9 DEF P

(* executor.py:135 and CHANGELOG.md "/ mounts before /boot", for every     *)
(* spec: what prepare() hands out has every node once, after the parents   *)
(* it takes a device from, filesystems last and outer mounts first. It is  *)
(* what the theorems about runs assume of a plan.                          *)
THEOREM PlannerPrepares == PlannerSpec => []PlanPrepared
<1>1. PlanInv => PlanPrepared
  <2> SUFFICES ASSUME PlanInv, stage = "ready",
                      \A n \in Node : ~DoubleSlash(storage[n].path)
               PROVE  /\ Len(ordered) = NodeCount
                      /\ \A n \in Node : \E j \in DOMAIN ordered : ordered[j] = n
                      /\ Prepared(PlanOf(LinkedNodes, ordered))
    BY DEF PlanPrepared
  <2>1. PICK at \in [1..NodeCount -> 1..NodeCount] : MovedBy(at)
    BY ReadyPlan
  <2>2. /\ ordered = [k \in 1..NodeCount |-> result[at[k]]]
        /\ \A n \in Node : \E k \in 1..NodeCount : ordered[k] = n
    BY <2>1, Zenon DEF MovedBy
  <2>3. ordered \in Seq(Node) /\ NodeCount \in Nat
    BY TopoAssumption DEF PlanInv, StepsInv
  <2>4. DOMAIN ordered = 1..NodeCount /\ Len(ordered) = NodeCount
    BY <2>2, <2>3
  <2>5. Prepared(PlanOf(LinkedNodes, ordered))
    BY ReadyPrepared, LinkedIsNamed DEF PlanInv, StepsInv
  <2> QED BY <2>2, <2>4, <2>5
<1> QED BY <1>1, PlannerCorrect, PTL

(* Partitions with the same parents are in the plan in source order. *)
LEMMA SiblingPartitions ==
  ASSUME PlanInv, stage = "ready",
         NEW i \in 1..NodeCount, NEW j \in 1..NodeCount, i < j,
         storage[ordered[i]].kind = "partition",
         storage[ordered[j]].kind = "partition",
         parents[ordered[i]] = parents[ordered[j]]
  PROVE  ordered[i] < ordered[j]
<1>1. /\ SortKey(storage[ordered[i]]) = 0 /\ SortKey(storage[ordered[j]]) = 0
      /\ ordered[i] \in Node /\ ordered[j] \in Node
  BY PlanNode DEF SortKey, IsMount
<1>2. PICK a, b \in 1..NodeCount :
        a < b /\ result[a] = ordered[i] /\ result[b] = ordered[j]
  BY <1>1, PlanOrder
<1>3. /\ SiblingOrder /\ NodeCount \in Nat /\ DOMAIN result = 1..NodeCount
      /\ \A k, l \in 1..NodeCount : result[k] = result[l] => k = l
  <2>1. /\ NodeCount \in Nat /\ SiblingOrder
        /\ result \in Seq(Node) /\ Len(result) = NodeCount
        /\ \A k, l \in DOMAIN result : result[k] = result[l] => k = l
    BY TopoAssumption DEF PlanInv, StepsInv, SortInv, PhaseInv, KahnInv, TypeOK
  <2>2. DOMAIN result = 1..NodeCount
    BY <2>1
  <2> QED BY <2>1, <2>2
<1>4. SameParents(ordered[j], ordered[i]) /\ ordered[i] \in Placed
  BY <1>2, <1>3 DEF SameParents, Placed
<1>5. ASSUME ordered[j] < ordered[i] PROVE FALSE
  <2>1. PICK c, d \in 1..NodeCount :
          c < d /\ result[c] = ordered[j] /\ result[d] = ordered[i]
    BY <1>1, <1>3, <1>4, <1>5 DEF SiblingOrder
  <2>2. c = b /\ d = a
    BY <1>2, <1>3, <2>1
  <2> QED BY <1>2, <2>1, <2>2
<1>6. ordered[i] # ordered[j]
  <2>1. ASSUME ordered[i] = ordered[j] PROVE a = b
    BY <1>2, <1>3, <2>1
  <2> QED BY <1>2, <2>1
<1> QED BY <1>1, <1>5, <1>6 DEF Node

(* executor.py _assign_partition_indices: the number of a partition, given *)
(* before the sort, is the number parted gives it when the plan is run:    *)
(* the partitions of its device up to it in the plan are those up to it    *)
(* in the spec.                                                            *)
THEOREM PartitionsNumbered == PlannerSpec => []PartitionNumbers
<1>1. PlanInv => PartitionNumbers
  <2> DEFINE Earlier(j) ==
        {i \in 1..j : /\ storage[ordered[i]].kind = "partition"
                      /\ parents[ordered[i]] = parents[ordered[j]]}
      Listed(n) == {m \in Numbered : parents[m] = parents[n] /\ m <= n}
  <2> SUFFICES ASSUME PlanInv, stage = "ready", NEW j \in DOMAIN ordered,
                      storage[ordered[j]].kind = "partition"
               PROVE  index[ordered[j]] = Cardinality(Earlier(j))
    BY DEF PartitionNumbers
  <2>1. PICK at \in [1..NodeCount -> 1..NodeCount] : MovedBy(at)
    BY ReadyPlan
  <2>2. /\ NodeCount \in Nat /\ DOMAIN ordered = 1..NodeCount
        /\ j \in 1..NodeCount
        /\ \A k, l \in 1..NodeCount : ordered[k] = ordered[l] => k = l
        /\ \A n \in Node : \E k \in 1..NodeCount : ordered[k] = n
    BY <2>1, TopoAssumption DEF MovedBy
  <2>3. \A k \in 1..NodeCount : ordered[k] \in Node /\ ordered[k] \in Int
    BY PlanNode DEF Node
  <2>4. PICK n : n = ordered[j]
    OBVIOUS
  <2>5. n \in Numbered
    <3>1. /\ PlanOf(storage, ordered)[j].kind = "partition"
          /\ Valid(PlanOf(storage, ordered), j)
      BY <2>2, PlanNode DEF PlanInv, StepsInv
    <3>2. Len(PlanOf(storage, ordered)[j].parents) = 1
      BY <3>1 DEF Valid, OneParent
    <3>3. Len(parents[n]) = 1
      BY <2>2, <2>4, <3>2, PlanNode
    <3> QED BY <2>2, <2>3, <2>4, <3>3 DEF Numbered
  <2>6. index[n] = Cardinality(Listed(n))
    <3>1. index[n] = Number(n)
      BY <2>5 DEF PlanInv, StepsInv
    <3> QED BY <3>1 DEF Number
  <2> DEFINE f == [i \in Earlier(j) |-> ordered[i]]
  <2>7. ASSUME NEW i \in Earlier(j) PROVE ordered[i] \in Listed(n)
    <3>1. /\ i \in 1..NodeCount /\ i <= j
          /\ storage[ordered[i]].kind = "partition"
          /\ parents[ordered[i]] = parents[n]
      BY <2>2, <2>4
    <3>2. ordered[i] \in Numbered
      BY <2>3, <2>5, <3>1 DEF Numbered
    <3>3. i < j \/ i = j
      BY <2>2, <3>1
    <3>4. i < j => ordered[i] < n
      BY <2>2, <2>4, <3>1, SiblingPartitions
    <3>5. ordered[i] \in Int /\ n \in Int
      BY <2>2, <2>3, <2>4, <3>1
    <3>6. ordered[i] <= n
      <4>1. CASE i < j
        BY <3>4, <3>5, <4>1
      <4>2. CASE i = j
        BY <2>4, <3>5, <4>2
      <4> QED BY <3>3, <4>1, <4>2
    <3> QED BY <3>1, <3>2, <3>6
  <2>8. ASSUME NEW m \in Listed(n)
        PROVE  \E i \in Earlier(j) : ordered[i] = m
    <3>1. /\ m \in Node /\ storage[m].kind = "partition"
          /\ parents[m] = parents[n] /\ m <= n
      BY DEF Numbered
    <3>2. PICK i \in 1..NodeCount : ordered[i] = m
      BY <2>2, <3>1
    <3>3. ASSUME j < i PROVE FALSE
      <4>1. n < m
        BY <2>2, <2>4, <3>1, <3>2, <3>3, SiblingPartitions
      <4> QED BY <2>2, <2>3, <2>4, <3>1, <3>2, <4>1
    <3>4. i \in 1..j
      BY <2>2, <3>3
    <3> QED BY <2>4, <3>1, <3>2, <3>4
  <2>9. f \in Bijection(Earlier(j), Listed(n))
    <3>1. \A i \in Earlier(j) : i \in 1..NodeCount
      BY <2>2
    <3> HIDE DEF Earlier, Listed
    <3>2. /\ f \in [Earlier(j) -> Listed(n)]
          /\ \A a, b \in Earlier(j) : f[a] = f[b] => a = b
          /\ \A m \in Listed(n) : \E i \in Earlier(j) : f[i] = m
      BY <2>2, <2>7, <2>8, <3>1
    <3> HIDE DEF f
    <3> QED BY <3>2 DEF Bijection, Injection, Surjection, IsInjective
  <2>10. IsFiniteSet(Earlier(j))
    <3>1. IsFiniteSet(1..j) /\ Earlier(j) \subseteq 1..j
      BY <2>2, FS_Interval
    <3> HIDE DEF Earlier
    <3> QED BY <3>1, FS_Subset
  <2> HIDE DEF Earlier, Listed, f
  <2>11. Cardinality(Listed(n)) = Cardinality(Earlier(j))
    BY <2>9, <2>10, FS_Bijection DEF ExistsBijection
  <2> QED BY <2>4, <2>6, <2>11
<1> QED BY <1>1, PlannerCorrect, PTL
=============================================================================
