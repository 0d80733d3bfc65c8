----------------------------- MODULE CliProofs -----------------------------
(***************************************************************************)
(* What a call of sprov promises, for all documents, plans, options,       *)
(* faults and numbers of calls: the exit statuses 0, 1 and 64, what may    *)
(* change the machine, and that the second prepare() repeats the first.    *)
(*                                                                         *)
(* CliInv suffices for the statuses 1 and 64. The rest needs the three     *)
(* parts at once: StateInv says what load_spec has read, what the theorems *)
(* about Planner (as Made) say of it, and that Executor.run starts, with   *)
(* the invariant of Provisioner, on the plan they are about.               *)
(***************************************************************************)
EXTENDS Cli, ProvisionerProofs, PlanProofs, FiniteSetTheorems

(* Prep with the theorems about Planner. *)
Made == INSTANCE PlannerProofs WITH
  Unknown     <- 0,
  ParentLists <- {[n \in 1..NodeCount |-> NodesOf(d, 0)[n].parents] :
                    d \in {e \in Documents : Loads(e)}},
  Storages    <- {NodesOf(d, 0) : d \in {e \in Documents : Loads(e)}},
  parents     <- listed,
  phase       <- sorting,
  storage     <- nodes

(* The machine as the process found it, but for what was unmounted. *)
Untouched ==
  kernel.made = start.made /\ kernel.up \subseteq start.up

KernelIsRecord == kernel = [made |-> kernel.made, up |-> kernel.up]

(* How far Executor.run is: commands that change the machine come after    *)
(* the last that may end in a traceback.                                   *)
Progress ==
  /\ main \in {"args", "load", "prepare", "emit", "preflight"} =>
       phase = "preflight"
  /\ main = "again" => phase = "modprobe"
  /\ main = "run" =>
       phase \in {"modprobe", "execute", "verify", "cleanup"}
  /\ phase = "cleanup" => exit = "failed"

Harmless ==
  /\ phase \in {"preflight", "modprobe"} => Untouched
  /\ main = "ended" /\ code \in {EXIT_VALIDATION, EXIT_USAGE} => Untouched

CliInv ==
  /\ KernelIsRecord
  /\ Progress
  /\ main # "ended" => code = Running
  /\ Harmless

(* What is there whatever main() is doing: a machine in a state that every *)
(* plan has.                                                               *)
Machine ==
  /\ \A p \in Plans : kernel \in KernelStates(p) /\ start \in KernelStates(p)
  /\ faults \in 0..MaxFaults /\ run \in 1..MaxRuns
  /\ dry \in BOOLEAN /\ skip \in BOOLEAN

(* Where main() can be under which arguments, and the status it leaves.    *)
Position ==
  /\ doc \in Documents /\ called \in Calls
  /\ main \in {"args", "load", "prepare", "emit", "preflight", "again", "run",
              "ended"}
  /\ code \in {Running, Killed, 0, 1, 2, 64}
  /\ main = "ended" <=> code # Running
  /\ main \in {"load", "prepare"} => called \in {"script", "run"}
  /\ main = "emit" => called = "script"
  /\ main \in {"preflight", "again", "run"} => called = "run"
  /\ exit = "success" => main = "ended"
  /\ code = EXIT_SUCCESS /\ called = "run" => exit = "success"
  /\ plan \in Plans \cup {<<>>}

(* Executor.run has not begun. *)
Fresh ==
  main \in {"args", "load", "prepare"} =>
    /\ plan = <<>> /\ phase = "preflight" /\ at = 1 /\ step = 0
    /\ exit = "none" /\ succeeded = <<>> /\ registered = {}
    /\ before = {} /\ blame = {}

(* The nodes are those of the document, and prepare() is where it can be   *)
(* with them.                                                              *)
Known ==
  /\ Loads(doc) /\ nodes = NodesOf(doc, 0)
  /\ Made!PlanInv /\ Made!OrderInv
  /\ sorting \in {"sort", "sorted", "cycle"} => ~Unplaceable

(* Or they have not been read. *)
Unread ==
  nodes = <<>> /\ exit # "success" /\ main \in {"args", "load", "ended"}

(* What the first prepare() has shown and the second one relies on: the    *)
(* document passes all checks and has one order.                           *)
Settled ==
  /\ ~Unplaceable /\ Made!Resolved
  /\ \A S \in SUBSET (1..NodeCount) : Made!Deadlocked(S) => S = {}
  /\ \E r \in [1..NodeCount -> 1..NodeCount] :
       IsOrder(nodes, r) /\ plan = Prep!PlanOf(nodes, Prep!Reordered(nodes, r))

(* Executor.run is about to begin, goes on, or has ended well. *)
InRun ==
  main \in {"emit", "preflight", "again", "run"} \/ exit = "success" =>
    RunInv /\ Settled

(* The second prepare() starts on nodes that the first has been through,   *)
(* leaves them as they are, finds nothing to refuse, and hands out the     *)
(* plan.                                                                   *)
Repeats ==
  /\ main \in {"emit", "preflight"} => stage = "ready"
  /\ main = "again" =>
       /\ Made!Used
       /\ sorting \notin {"cycle", "unknown_parent"} /\ stage # "invalid"
  /\ main = "run" \/ exit = "success" =>
       stage = "ready" /\ plan = Prep!PlanOf(nodes, ordered)

StateInv ==
  /\ Machine /\ Position /\ Fresh
  /\ Known \/ Unread
  /\ InRun /\ Repeats

SprovInv == CliInv /\ StateInv
-----------------------------------------------------------------------------
(* A non-empty set of natural numbers has a least element. *)
LEMMA LeastOf ==
  ASSUME NEW S, S \subseteq Nat, S # {}
  PROVE  \E k \in S : \A j \in S : k <= j
<1>1. IsWellFoundedOn(OpToRel(<, Nat), Nat)
  BY NatLessThanWellFounded
<1>2. PICK k \in S : \A j \in S : <<j, k>> \notin OpToRel(<, Nat)
  BY <1>1, WFMin
<1>3. ASSUME NEW j \in S PROVE k <= j
  <2>1. j \in Nat /\ k \in Nat /\ ~(j < k)
    BY <1>2 DEF OpToRel
  <2> QED BY <2>1
<1> QED BY <1>2, <1>3

(* load_spec returns when none of its checks fails. *)
LEMMA NoError ==
  ASSUME NEW checks, DOMAIN checks \subseteq Nat,
         \A k \in DOMAIN checks : checks[k].raises # "none",
         FirstError(checks) = "none"
  PROVE  \A k \in DOMAIN checks : ~checks[k].fails
<1> DEFINE failed == {k \in DOMAIN checks : checks[k].fails}
           first == CHOOSE k \in failed : \A j \in failed : k <= j
<1> SUFFICES ASSUME failed # {} PROVE FALSE
  OBVIOUS
<1>1. \E k \in failed : \A j \in failed : k <= j
  <2>1. failed \subseteq Nat
    OBVIOUS
  <2> HIDE DEF failed
  <2> QED BY <2>1, LeastOf
<1>2. first \in failed
  <2> HIDE DEF failed
  <2> QED BY <1>1
<1>3. FirstError(checks) = checks[first].raises
  BY DEF FirstError
<1> QED BY <1>2, <1>3

(* What the checks of load_spec amount to: one control entry, and only     *)
(* entries the registry makes nodes of.                                    *)
LEMMA LoadedEntries ==
  ASSUME NEW d, d \in DocumentRecord, LoadError(d) = "none"
  PROVE  /\ Cardinality(Controls(d)) = 1
         /\ \A k \in DOMAIN Others(d) :
              DOMAIN Others(d) \subseteq Nat => ~EntryCheck(Others(d)[k]).fails
<1> DEFINE each == [k \in DOMAIN Others(d) |-> EntryCheck(Others(d)[k])]
<1>1. FirstError(Checks(d)) = "none" /\ FirstError(each) = "none"
  BY DEF LoadError
<1>2. Cardinality(Controls(d)) = 1
  <2>1. DOMAIN Checks(d) = 1..7 /\ \A k \in 1..7 : Checks(d)[k].raises # "none"
    BY DEF Checks, Check
  <2>2. ~Checks(d)[6].fails
    <3>1. \A k \in DOMAIN Checks(d) : ~Checks(d)[k].fails
      BY <1>1, <2>1, NoError
    <3> QED BY <2>1, <3>1
  <2> QED BY <2>2 DEF Checks, Check
<1>3. ASSUME DOMAIN Others(d) \subseteq Nat
      PROVE  \A k \in DOMAIN Others(d) : ~EntryCheck(Others(d)[k]).fails
  <2>1. /\ DOMAIN each = DOMAIN Others(d)
        /\ \A k \in DOMAIN each : each[k] = EntryCheck(Others(d)[k])
    OBVIOUS
  <2>2. \A e : EntryCheck(e).raises # "none"
    BY DEF EntryCheck, Check
  <2> HIDE DEF each
  <2>3. \A k \in DOMAIN each : each[k].raises # "none"
    BY <2>1, <2>2
  <2>4. \A k \in DOMAIN each : ~each[k].fails
    BY <1>1, <1>3, <2>1, <2>3, NoError
  <2> QED BY <2>1, <2>4
<1> QED BY <1>2, <1>3

(* Where the entries are that become nodes: all but the control entry. *)
Moved(c, k) == IF k < c THEN k ELSE k + 1

(* A document that loads has one control entry, and the others, all of     *)
(* types of the registry, in their order.                                  *)
LEMMA LoadedOthers ==
  ASSUME NEW d, d \in DocumentRecord, LoadError(d) = "none"
  PROVE  \E c \in DOMAIN d.entries :
           /\ Controls(d) = {c}
           /\ Others(d) \in Seq(EntryRecord)
           /\ Len(Others(d)) = Len(d.entries) - 1
           /\ \A k \in 1..(Len(d.entries) - 1) :
                /\ Moved(c, k) \in DOMAIN d.entries
                /\ Others(d)[k] = d.entries[Moved(c, k)]
           /\ \A k \in DOMAIN Others(d) :
                Others(d)[k].mapping /\ Others(d)[k].type \in Kind
<1> DEFINE es == d.entries
           n == Len(es)
<1>1. es \in Seq(EntryRecord)
  BY DEF DocumentRecord
<1>2. n \in Nat /\ DOMAIN es = 1..n /\ \A i \in 1..n : es[i] \in EntryRecord
  <2> HIDE DEF es
  <2> QED BY <1>1
<1>3. PICK c : Controls(d) = {c} /\ c \in 1..n
  <2>1. IsFiniteSet(Controls(d))
    <3>1. IsFiniteSet(1..n) /\ Controls(d) \subseteq 1..n
      BY <1>2, FS_Interval DEF Controls
    <3> QED BY <3>1, FS_Subset
  <2>2. Cardinality(Controls(d)) = 1
    BY LoadedEntries
  <2>3. PICK c : Controls(d) = {c}
    BY <2>1, <2>2, FS_Singleton
  <2> QED BY <1>2, <2>3 DEF Controls
<1>4. Others(d) = SubSeq(es, 1, c - 1) \o SubSeq(es, c + 1, n)
  <2>1. (CHOOSE k \in Controls(d) : TRUE) = c
    BY <1>3
  <2> QED BY <2>1 DEF Others, RemoveAt
<1> DEFINE a == SubSeq(es, 1, c - 1)
           b == SubSeq(es, c + 1, n)
<1> HIDE DEF es, n
<1>5. /\ a \in Seq(EntryRecord) /\ Len(a) = c - 1
      /\ \A i \in 1..(c - 1) : a[i] = es[i]
  <2>1. /\ 1 \in Int /\ c - 1 \in Int /\ c - 1 \in Nat
        /\ \A i \in 1..(c - 1) : es[i] \in EntryRecord
    BY <1>2, <1>3
  <2>2. /\ SubSeq(es, 1, c - 1) \in Seq(EntryRecord)
        /\ Len(SubSeq(es, 1, c - 1)) =
             IF 1 <= c - 1 THEN (c - 1) - 1 + 1 ELSE 0
        /\ \A i \in 1..((c - 1) - 1 + 1) :
             SubSeq(es, 1, c - 1)[i] = es[1 + i - 1]
    BY ONLY <2>1, SubSeqProperties
  <2> QED BY <1>3, <1>2, <2>1, <2>2
<1>6. /\ b \in Seq(EntryRecord) /\ Len(b) = n - c
      /\ \A i \in 1..(n - c) : b[i] = es[c + i]
  <2>1. /\ c + 1 \in Int /\ n \in Int /\ n - c \in Nat
        /\ \A i \in (c + 1)..n : es[i] \in EntryRecord
    BY <1>2, <1>3
  <2>2. /\ SubSeq(es, c + 1, n) \in Seq(EntryRecord)
        /\ Len(SubSeq(es, c + 1, n)) =
             IF c + 1 <= n THEN n - (c + 1) + 1 ELSE 0
        /\ \A i \in 1..(n - (c + 1) + 1) :
             SubSeq(es, c + 1, n)[i] = es[(c + 1) + i - 1]
    BY ONLY <2>1, SubSeqProperties
  <2> QED BY <1>3, <1>2, <2>1, <2>2
<1> HIDE DEF a, b
<1>7. /\ a \o b \in Seq(EntryRecord) /\ Len(a \o b) = n - 1
      /\ \A k \in 1..(n - 1) :
           (a \o b)[k] = IF k <= c - 1 THEN a[k] ELSE b[k - (c - 1)]
  <2>1. /\ a \o b \in Seq(EntryRecord) /\ Len(a \o b) = Len(a) + Len(b)
        /\ \A i \in 1..(Len(a) + Len(b)) :
             (a \o b)[i] = IF i <= Len(a) THEN a[i] ELSE b[i - Len(a)]
    BY <1>5, <1>6, ConcatProperties
  <2>2. Len(a) + Len(b) = n - 1
    BY <1>2, <1>3, <1>5, <1>6
  <2> QED BY <1>5, <2>1, <2>2
<1>8. Others(d) = a \o b
  BY <1>4 DEF a, b
<1>9. ASSUME NEW k \in 1..(n - 1)
      PROVE  Moved(c, k) \in 1..n /\ Others(d)[k] = es[Moved(c, k)]
  <2>1. CASE k < c
    <3>1. k \in 1..(c - 1) /\ k \in 1..n /\ k <= c - 1
      BY <1>2, <1>3, <2>1
    <3> QED BY <1>5, <1>7, <1>8, <2>1, <3>1 DEF Moved
  <2>2. CASE ~(k < c)
    <3>1. /\ k - (c - 1) \in 1..(n - c) /\ k + 1 \in 1..n /\ ~(k <= c - 1)
          /\ c + (k - (c - 1)) = k + 1
      BY <1>2, <1>3, <2>2
    <3> QED BY <1>6, <1>7, <1>8, <2>2, <3>1 DEF Moved
  <2> QED BY <2>1, <2>2
<1>10. DOMAIN Others(d) = 1..(n - 1)
  BY <1>7, <1>8
<1>11. ASSUME NEW k \in DOMAIN Others(d)
       PROVE  Others(d)[k].mapping /\ Others(d)[k].type \in Kind
  <2>1. DOMAIN Others(d) \subseteq Nat
    BY <1>2, <1>10
  <2>2. ~EntryCheck(Others(d)[k]).fails
    BY <2>1, LoadedEntries
  <2> QED BY <2>2 DEF EntryCheck, Check
<1> QED BY <1>2, <1>3, <1>7, <1>8, <1>9, <1>11 DEF es, n

-----------------------------------------------------------------------------
(* What the two instances of a definition have in common.                  *)
LEMMA SameCardinality ==
  \A S : /\ Made!Cardinality(S) = Cardinality(S)
         /\ Prep!Cardinality(S) = Cardinality(S)
BY Zenon DEF Made!Cardinality, Prep!Cardinality, Cardinality

(* The operators of Made and of Prep, one by one. *)
LEMMA SameStaysInside == \A s : Made!StaysInside(s) <=> Prep!StaysInside(s)
BY SameCardinality DEF Made!StaysInside, Prep!StaysInside

LEMMA SameDoubleSlash == \A s : Made!DoubleSlash(s) <=> Prep!DoubleSlash(s)
BY Zenon DEF Made!DoubleSlash, Prep!DoubleSlash

LEMMA SameNormalized == \A s : Made!Normalized(s) = Prep!Normalized(s)
<1>1. \A s, c : Made!Descend(s, c) = Prep!Descend(s, c)
  BY Zenon DEF Made!Descend, Prep!Descend, Made!Front, Prep!Front
<1> QED BY <1>1, Zenon DEF Made!Normalized, Prep!Normalized

LEMMA SameSortKey == \A s : Made!SortKey(s) = Prep!SortKey(s)
<1>1. \A s : Made!MountDepth(s) = Prep!MountDepth(s)
  BY SameNormalized, SameDoubleSlash, Zenon
  DEF Made!MountDepth, Prep!MountDepth
<1> QED BY <1>1, Zenon
        DEF Made!SortKey, Prep!SortKey, Made!IsMount, Prep!IsMount

LEMMA SameBefore == \A s, r, i : Made!Before(s, r, i) = Prep!Before(s, r, i)
BY SameSortKey DEF Made!Before, Prep!Before

LEMMA SameReordered == \A s, r : Made!Reordered(s, r) = Prep!Reordered(s, r)
<1> SUFFICES ASSUME NEW s, NEW r
             PROVE  Made!Reordered(s, r) = Prep!Reordered(s, r)
  OBVIOUS
<1> DEFINE M(i) == Made!Cardinality(Made!Before(s, r, i))
           P(i) == Prep!Cardinality(Prep!Before(s, r, i))
           MadeAt(k) == CHOOSE i \in DOMAIN r : M(i) = k - 1
           PrepAt(k) == CHOOSE i \in DOMAIN r : P(i) = k - 1
<1>1. /\ Made!Reordered(s, r) = [k \in DOMAIN r |-> r[MadeAt(k)]]
      /\ Prep!Reordered(s, r) = [k \in DOMAIN r |-> r[PrepAt(k)]]
  BY Zenon DEF Made!Reordered, Prep!Reordered
<1>2. \A i : M(i) = P(i)
  BY SameBefore, SameCardinality
<1> HIDE DEF M, P
<1>3. \A k : MadeAt(k) = PrepAt(k)
  BY <1>2
<1> HIDE DEF MadeAt, PrepAt
<1> QED BY <1>1, <1>3

LEMMA SamePlanOf == \A s, r : Made!PlanOf(s, r) = Prep!PlanOf(s, r)
BY SameNormalized, Zenon DEF Made!PlanOf, Prep!PlanOf

LEMMA SameNodeRecord == \A S : /\ Made!NodeRecord(S) = NodeRecord(S)
                               /\ Prep!NodeRecord(S) = NodeRecord(S)
BY Zenon
DEF Made!NodeRecord, Prep!NodeRecord, NodeRecord, Made!Kind, Prep!Kind, Kind,
    Made!Option, Prep!Option, Option

LEMMA SameHasDevice == \A p : /\ Made!HasDevice(p) = HasDevice(p)
                              /\ Prep!HasDevice(p) = HasDevice(p)
BY Zenon
DEF Made!HasDevice, Prep!HasDevice, HasDevice,
    Made!OneParent, Prep!OneParent, OneParent

LEMMA SameValid == \A p, n : /\ Made!Valid(p, n) <=> Valid(p, n)
                             /\ Prep!Valid(p, n) <=> Valid(p, n)
<1> SUFFICES ASSUME NEW p, NEW n
             PROVE  /\ Made!Valid(p, n) <=> Valid(p, n)
                    /\ Prep!Valid(p, n) <=> Valid(p, n)
  OBVIOUS
<1>1. \A m : /\ Made!ValidLv(p, m) <=> ValidLv(p, m)
             /\ Prep!ValidLv(p, m) <=> ValidLv(p, m)
  BY DEF Made!ValidLv, Prep!ValidLv, ValidLv,
         Made!OneParent, Prep!OneParent, OneParent
<1>2. \A m : /\ Made!ValidSwap(p, m) <=> ValidSwap(p, m)
             /\ Prep!ValidSwap(p, m) <=> ValidSwap(p, m)
  BY SameHasDevice
  DEF Made!ValidSwap, Prep!ValidSwap, ValidSwap,
      Made!OneParent, Prep!OneParent, OneParent
<1>3. \A m : /\ Made!ValidRaid1(m) <=> ValidRaid1(m)
             /\ Made!ValidVg(m) <=> ValidVg(m)
             /\ Prep!ValidRaid1(m) <=> ValidRaid1(m)
             /\ Prep!ValidVg(m) <=> ValidVg(m)
             /\ Made!OneParent(m) <=> OneParent(m)
             /\ Prep!OneParent(m) <=> OneParent(m)
  BY Zenon
  DEF Made!ValidRaid1, Prep!ValidRaid1, ValidRaid1,
      Made!ValidVg, Prep!ValidVg, ValidVg,
      Made!OneParent, Prep!OneParent, OneParent
<1>4. Made!Valid(p, n) <=> Valid(p, n)
  BY <1>1, <1>2, <1>3 DEF Made!Valid, Valid
<1>5. Prep!Valid(p, n) <=> Valid(p, n)
  BY <1>1, <1>2, <1>3 DEF Prep!Valid, Valid
<1> QED BY <1>4, <1>5

LEMMA SamePrepared == \A p : Made!Prepared(p) <=> Prepared(p)
BY SameValid, SameNodeRecord
DEF Made!Prepared, Prepared, Made!ParentsOf, ParentsOf
-----------------------------------------------------------------------------
(* The nodes of a document that loads: one for every entry but the control *)
(* entry, with what the entry says.                                        *)
LEMMA LoadedNodes ==
  ASSUME NEW d \in Documents, Loads(d)
  PROVE  /\ NodesOf(d, 0) \in
              [1..NodeCount -> NodeRecord((1..NodeCount) \cup {0})]
         /\ \A n \in 1..NodeCount : \E k \in DOMAIN d.entries :
              NodesOf(d, 0)[n].path = d.entries[k].path
         /\ \A k \in DOMAIN d.entries : d.entries[k].type \in Kind =>
              \E n \in 1..NodeCount :
                /\ NodesOf(d, 0)[n].kind = d.entries[k].type
                /\ NodesOf(d, 0)[n].ignore = d.entries[k].ignore
                /\ NodesOf(d, 0)[n].path = d.entries[k].path
<1> DEFINE es == Others(d)
           ById(id) == LET found == {k \in DOMAIN es : es[k].id = id}
                       IN  IF found = {} THEN 0
                           ELSE CHOOSE k \in found : \A j \in found : j <= k
           At(n) == [kind    |-> es[n].type,
                     parents |-> [k \in DOMAIN es[n].parents |->
                                    ById(es[n].parents[k])],
                     ignore  |-> es[n].ignore,
                     opts    |-> es[n].opts,
                     path    |-> es[n].path,
                     modules |-> es[n].modules]
<1>1. d \in DocumentRecord /\ LoadError(d) = "none" /\ NodeCount \in Nat
      /\ Len(Others(d)) = NodeCount
  BY CliAssumption DEF Loads
<1>2. PICK c \in DOMAIN d.entries :
        /\ Controls(d) = {c}
        /\ es \in Seq(EntryRecord)
        /\ Len(es) = Len(d.entries) - 1
        /\ \A k \in 1..(Len(d.entries) - 1) :
             /\ Moved(c, k) \in DOMAIN d.entries
             /\ es[k] = d.entries[Moved(c, k)]
        /\ \A k \in DOMAIN es : es[k].mapping /\ es[k].type \in Kind
  BY <1>1, LoadedOthers
<1>3. NodesOf(d, 0) = [n \in DOMAIN es |-> At(n)]
  BY Zenon DEF NodesOf
<1>4. DOMAIN es = 1..NodeCount /\ \A n \in 1..NodeCount : es[n] \in EntryRecord
  <2> HIDE DEF es
  <2>1. Len(es) = NodeCount
    BY <1>1 DEF es
  <2> QED BY <1>2, <2>1
<1>5. \A id : ById(id) \in (1..NodeCount) \cup {0}
  <2> TAKE id
  <2> DEFINE found == {k \in DOMAIN es : es[k].id = id}
  <2>1. found \subseteq 1..NodeCount
    BY <1>4
  <2>2. found # {} => \E k \in found : \A j \in found : j <= k
    <3> SUFFICES ASSUME found # {}
                 PROVE  \E k \in found : \A j \in found : j <= k
      OBVIOUS
    <3> DEFINE left == {NodeCount - k : k \in found}
    <3>1. left \subseteq Nat /\ left # {}
      BY <1>1, <2>1
    <3>2. PICK m \in left : \A l \in left : m <= l
      <4> HIDE DEF left
      <4> QED BY <3>1, LeastOf
    <3>3. PICK k \in found : m = NodeCount - k
      OBVIOUS
    <3>4. ASSUME NEW j \in found PROVE j <= k
      <4>1. m <= NodeCount - j
        BY <3>2
      <4>2. j \in Int /\ k \in Int /\ NodeCount \in Int
        BY <1>1, <2>1
      <4> QED BY <3>3, <4>1, <4>2
    <3> QED BY <3>4
  <2>3. ById(id) = IF found = {} THEN 0
                   ELSE CHOOSE k \in found : \A j \in found : j <= k
    OBVIOUS
  <2> HIDE DEF found, ById
  <2> QED BY <2>1, <2>2, <2>3
<1> HIDE DEF ById, es
<1>6. ASSUME NEW n \in 1..NodeCount
      PROVE  At(n) \in NodeRecord((1..NodeCount) \cup {0})
  <2>1. /\ es[n].parents \in Seq(STRING) /\ es[n].ignore \in BOOLEAN
        /\ es[n].opts \in SUBSET Option /\ es[n].path \in Seq(STRING)
        /\ es[n].modules \in SUBSET STRING /\ es[n].type \in Kind
    BY <1>2, <1>4 DEF EntryRecord
  <2> DEFINE list == [k \in DOMAIN es[n].parents |-> ById(es[n].parents[k])]
  <2>2. list \in Seq((1..NodeCount) \cup {0})
    <3>1. PICK ps : ps = es[n].parents
      OBVIOUS
    <3>2. DOMAIN ps = 1..Len(ps) /\ Len(ps) \in Nat
      BY <2>1, <3>1
    <3>3. list = [k \in 1..Len(ps) |-> ById(ps[k])]
      BY <3>1, <3>2
    <3> HIDE DEF list
    <3> QED BY <1>5, <3>2, <3>3
  <2>3. At(n).parents = list
    OBVIOUS
  <2> HIDE DEF list
  <2> QED BY <2>1, <2>2, <2>3 DEF NodeRecord
<1>7. \A n \in 1..NodeCount :
        /\ NodesOf(d, 0)[n] = At(n)
        /\ NodesOf(d, 0)[n].kind = es[n].type
        /\ NodesOf(d, 0)[n].ignore = es[n].ignore
        /\ NodesOf(d, 0)[n].path = es[n].path
  <2> TAKE n \in 1..NodeCount
  <2>1. NodesOf(d, 0)[n] = At(n)
    <3> HIDE DEF At
    <3> QED BY <1>3, <1>4
  <2>2. /\ At(n).kind = es[n].type /\ At(n).ignore = es[n].ignore
        /\ At(n).path = es[n].path
    OBVIOUS
  <2> HIDE DEF At
  <2> QED BY <2>1, <2>2
<1> HIDE DEF At
<1>8. NodesOf(d, 0) \in [1..NodeCount -> NodeRecord((1..NodeCount) \cup {0})]
  BY <1>3, <1>4, <1>6
<1>9. /\ Len(d.entries) \in Nat /\ DOMAIN d.entries = 1..Len(d.entries)
      /\ NodeCount = Len(d.entries) - 1
  <2>1. d.entries \in Seq(EntryRecord)
    BY <1>1 DEF DocumentRecord
  <2>2. Len(es) = NodeCount
    BY <1>1 DEF es
  <2> QED BY <1>2, <2>1, <2>2
<1>10. ASSUME NEW k \in DOMAIN d.entries, d.entries[k].type \in Kind
       PROVE  \E n \in 1..NodeCount : es[n] = d.entries[k]
  <2>1. k # c
    <3>1. d.entries[c].type = "control"
      BY <1>2 DEF Controls
    <3> QED BY <1>10, <3>1 DEF Kind
  <2>2. CASE k < c
    <3>1. k \in 1..NodeCount /\ Moved(c, k) = k
      BY <1>2, <1>9, <2>2 DEF Moved
    <3> QED BY <1>2, <1>9, <3>1
  <2>3. CASE c < k
    <3>1. k - 1 \in 1..NodeCount /\ Moved(c, k - 1) = k
      BY <1>2, <1>9, <2>3 DEF Moved
    <3> QED BY <1>2, <1>9, <3>1
  <2> QED BY <1>2, <1>9, <2>1, <2>2, <2>3
<1>11. \A n \in 1..NodeCount : \E k \in DOMAIN d.entries : es[n] = d.entries[k]
  BY <1>2, <1>9
<1>12. ASSUME NEW k \in DOMAIN d.entries, d.entries[k].type \in Kind
       PROVE  \E n \in 1..NodeCount :
                /\ NodesOf(d, 0)[n].kind = d.entries[k].type
                /\ NodesOf(d, 0)[n].ignore = d.entries[k].ignore
                /\ NodesOf(d, 0)[n].path = d.entries[k].path
  <2>1. PICK n \in 1..NodeCount : es[n] = d.entries[k]
    BY <1>10, <1>12
  <2> QED BY <1>7, <2>1
<1>13. \A n \in 1..NodeCount : \E k \in DOMAIN d.entries :
         NodesOf(d, 0)[n].path = d.entries[k].path
  BY <1>7, <1>11
<1> QED BY <1>8, <1>12, <1>13

(* The nodes of the documents are specs as Planner takes them. *)
LEMMA MadeAssumptions == Made!TopoAssumption /\ Made!PlannerAssumption
<1> DEFINE good == {e \in Documents : Loads(e)}
           Lists(d) == [n \in 1..NodeCount |-> NodesOf(d, 0)[n].parents]
<1>1. NodeCount \in Nat
  BY CliAssumption
<1>2. ASSUME NEW d \in good
      PROVE  /\ NodesOf(d, 0) \in
                  [1..NodeCount -> NodeRecord((1..NodeCount) \cup {0})]
             /\ Lists(d) \in [1..NodeCount -> Seq((1..NodeCount) \cup {0})]
             /\ \A n \in 1..NodeCount : Prep!StaysInside(NodesOf(d, 0)[n].path)
  <2>1. NodesOf(d, 0) \in [1..NodeCount -> NodeRecord((1..NodeCount) \cup {0})]
    BY LoadedNodes
  <2>2. \A n \in 1..NodeCount :
          NodesOf(d, 0)[n].parents \in Seq((1..NodeCount) \cup {0})
    BY <2>1 DEF NodeRecord
  <2>3. \A n \in 1..NodeCount : Prep!StaysInside(NodesOf(d, 0)[n].path)
    BY LoadedNodes, PlansAssumption
  <2> QED BY <2>1, <2>2, <2>3
<1>3. Made!TopoAssumption
  <2>1. {Lists(d) : d \in good} \subseteq
          [1..NodeCount -> Seq((1..NodeCount) \cup {0})]
    BY <1>2
  <2>2. 0 \notin 1..NodeCount
    BY <1>1
  <2> QED BY <1>1, <2>1, <2>2 DEF Made!TopoAssumption, Made!Node
<1>4. Made!PlannerAssumption
  <2> DEFINE all == {NodesOf(d, 0) : d \in good}
             lists == {Lists(d) : d \in good}
  <2>1. all \subseteq
          [1..NodeCount -> Made!NodeRecord((1..NodeCount) \cup {0})]
    BY <1>2, SameNodeRecord
  <2>2. \A s \in all : [n \in 1..NodeCount |-> s[n].parents] \in lists
    OBVIOUS
  <2>3. \A s \in all : \A n \in 1..NodeCount : Made!StaysInside(s[n].path)
    BY <1>2, SameStaysInside
  <2> QED BY <2>1, <2>2, <2>3
          DEF Made!PlannerAssumption, Made!Node, Made!ParentListsOf
<1> QED BY <1>3, <1>4

(* A sorted spec has no nodes that wait for each other. *)
LEMMA MadeVerdict == Made!SortInv => Made!CycleVerdict
BY MadeAssumptions, Made!VerdictInv
DEF Made!TopoAssumption, Made!PlannerAssumption
-----------------------------------------------------------------------------
(* What Made says of the nodes in words of this module. *)
LEMMA InPrepare ==
  ASSUME Known
  PROVE  /\ NodeCount \in Nat
         /\ nodes \in [1..NodeCount -> NodeRecord((1..NodeCount) \cup {0})]
         /\ listed = [n \in 1..NodeCount |-> nodes[n].parents]
         /\ result \in Seq(1..NodeCount)
<1>1. NodeCount \in Nat
  BY CliAssumption
<1>2. listed = Made!ParentListsOf(nodes)
  BY DEF Known, Made!PlanInv, Made!StepsInv
<1>3. nodes \in [1..NodeCount -> NodeRecord((1..NodeCount) \cup {0})]
  <2>1. Made!PlanInv
    BY DEF Known
  <2>2. nodes \in {NodesOf(d, 0) : d \in {e \in Documents : Loads(e)}}
    BY <2>1 DEF Made!PlanInv, Made!StepsInv
  <2> QED BY <2>2, LoadedNodes
<1>4. result \in Seq(1..NodeCount)
  BY DEF Known, Made!PlanInv, Made!SortInv, Made!TypeOK, Made!Node
<1> QED BY <1>1, <1>2, <1>3, <1>4 DEF Made!ParentListsOf, Made!Node

(* A spec has at most one order that is the order of the sort: where two   *)
(* first differ, both have the first of the same nodes.                    *)
LEMMA OneOrder ==
  ASSUME NEW s, NEW r \in [1..NodeCount -> 1..NodeCount],
         NEW q \in [1..NodeCount -> 1..NodeCount], IsOrder(s, r), IsOrder(s, q)
  PROVE  r = q
<1> DEFINE different == {k \in 1..NodeCount : r[k] # q[k]}
<1> SUFFICES ASSUME different # {} PROVE FALSE
  <2>1. \A k \in 1..NodeCount : r[k] = q[k]
    OBVIOUS
  <2>2. r = [k \in 1..NodeCount |-> r[k]] /\ q = [k \in 1..NodeCount |-> q[k]]
    BY Zenon
  <2> HIDE DEF different
  <2> QED BY <2>1, <2>2
<1>1. NodeCount \in Nat /\ different \subseteq Nat
  BY CliAssumption
<1>2. PICK k \in different : \A j \in different : k <= j
  <2> HIDE DEF different
  <2> QED BY <1>1, LeastOf
<1>3. \A i \in 1..(k - 1) : r[i] = q[i]
  <2> TAKE i \in 1..(k - 1)
  <2>1. i \in 1..NodeCount /\ ~(k <= i)
    BY <1>1
  <2> QED BY <1>2, <2>1
<1>4. \A n : ReadyAt(s, r, k, n) <=> ReadyAt(s, q, k, n)
  BY <1>3 DEF ReadyAt
<1>5. r[k] <= q[k] /\ q[k] <= r[k]
  BY <1>1, <1>4 DEF IsOrder
<1>6. r[k] \in Nat /\ q[k] \in Nat
  <2>1. k \in 1..NodeCount
    BY <1>2
  <2>2. r[k] \in 1..NodeCount /\ q[k] \in 1..NodeCount
    BY <2>1
  <2>3. \A i \in 1..NodeCount : i \in Nat
    BY <1>1
  <2> QED BY <2>2, <2>3, Zenon
<1>7. r[k] # q[k]
  BY <1>2
<1> QED BY <1>5, <1>6, <1>7

(* When every node is placed, the result of the sort is that order. *)
LEMMA SortIsOrder ==
  ASSUME Known, sorting = "sorted"
  PROVE  result \in [1..NodeCount -> 1..NodeCount] /\ IsOrder(nodes, result)
<1>1. /\ NodeCount \in Nat /\ result \in Seq(1..NodeCount)
      /\ listed = [n \in 1..NodeCount |-> nodes[n].parents]
  BY InPrepare
<1>2. /\ Made!PhaseInv /\ Made!KahnInv /\ Made!ParentsFirst /\ Made!GreedyInv
  BY DEF Known, Made!PlanInv, Made!SortInv, Made!OrderInv
<1>3. Len(result) = NodeCount
  BY <1>2 DEF Made!PhaseInv
<1>4. DOMAIN result = 1..NodeCount /\ result \in [1..NodeCount -> 1..NodeCount]
  BY <1>1, <1>3
<1>5. \A i, j \in 1..NodeCount : result[i] = result[j] => i = j
  BY <1>2, <1>4 DEF Made!KahnInv
<1>6. ASSUME NEW k \in 1..NodeCount
      PROVE  ReadyAt(nodes, result, k, result[k])
  <2>1. \A i \in 1..(k - 1) : result[i] # result[k]
    <3>1. \A i \in 1..(k - 1) : i \in 1..NodeCount /\ i # k
      BY <1>1
    <3> QED BY <1>5, <3>1
  <2>2. /\ result[k] \in 1..NodeCount
        /\ listed[result[k]] = nodes[result[k]].parents
    BY <1>1, <1>4
  <2> QED BY <1>2, <1>4, <2>1, <2>2 DEF ReadyAt, Made!ParentsFirst
<1>7. ASSUME NEW k \in 1..NodeCount, NEW n \in 1..NodeCount,
             ReadyAt(nodes, result, k, n)
      PROVE  result[k] <= n
  <2>1. listed[n] = nodes[n].parents
    BY <1>1
  <2>2. Made!ReadyFor(n, k)
    BY <1>7, <2>1 DEF ReadyAt, Made!ReadyFor
  <2> QED BY <1>2, <1>4, <2>2 DEF Made!GreedyInv, Made!Node
<1> QED BY <1>4, <1>6, <1>7 DEF IsOrder

(* Once they are linked, nodes have the parents they name. *)
LEMMA LinkedOnce ==
  ASSUME Known, stage \in {"validate", "ready"}
  PROVE  Prep!LinkedNodes = nodes
<1>1. Made!PlanInv
  BY DEF Known
<1>2. /\ nodes \in {NodesOf(d, 0) : d \in {e \in Documents : Loads(e)}}
      /\ listed = Made!ParentListsOf(nodes) /\ linked = listed
  BY <1>1 DEF Made!PlanInv, Made!StepsInv
<1>3. Made!LinkedNodes = nodes
  BY <1>2, MadeAssumptions, Made!LinkedIsNamed
  DEF Made!TopoAssumption, Made!PlannerAssumption
<1> QED BY <1>3 DEF Made!LinkedNodes, Prep!LinkedNodes, Made!Node, Prep!Node

(* Nodes are as prepare() leaves them when it returns.                     *)
LEMMA UsedOnce ==
  ASSUME Known, stage = "ready"
  PROVE  Made!Used
<1>1. Made!PlanInv /\ sorting = "sorted"
  BY DEF Known, Made!PlanInv, Made!StepsInv
<1>2. /\ Made!Resolved /\ linked = listed /\ index \in [Made!Node -> 0..NodeCount]
      /\ \A n \in Made!Node \ Made!Numbered : index[n] = 0
      /\ \A n \in Made!Numbered : index[n] = Made!Number(n)
  BY <1>1 DEF Made!PlanInv, Made!StepsInv, Made!SortInv, Made!PhaseInv
<1>3. index = [n \in Made!Node |-> IF n \in Made!Numbered
                                   THEN Made!Number(n) ELSE 0]
  BY <1>2
<1> QED BY <1>2, <1>3 DEF Made!Used, Made!Resolved, Made!Resolves

(* Once the order is settled, prepare() comes to the same plan again. *)
LEMMA SameAgain ==
  ASSUME Known, Settled, stage \in {"validate", "ready"}
  PROVE  Prep!PlanOf(Prep!LinkedNodes, ordered) = plan
<1>1. sorting = "sorted" /\ ordered = Prep!Reordered(nodes, result)
  <2>1. sorting = "sorted"
    BY DEF Known, Made!PlanInv, Made!StepsInv
  <2>2. ordered = Made!Reordered(nodes, result)
    BY DEF Known, Made!OrderInv
  <2> QED BY <2>1, <2>2, SameReordered
<1>2. result \in [1..NodeCount -> 1..NodeCount] /\ IsOrder(nodes, result)
  BY <1>1, SortIsOrder
<1>3. PICK r \in [1..NodeCount -> 1..NodeCount] :
        /\ IsOrder(nodes, r)
        /\ plan = Prep!PlanOf(nodes, Prep!Reordered(nodes, r))
  BY DEF Settled
<1>4. r = result
  BY <1>2, <1>3, OneOrder
<1> QED BY <1>1, <1>3, <1>4, LinkedOnce

(* The plan prepare() hands out is among Plans, and settles the order. *)
LEMMA PlanTaken ==
  ASSUME Known, doc \in Documents, stage = "ready"
  PROVE  /\ Prep!PlanOf(nodes, ordered) \in Plans
         /\ ~Unplaceable /\ Made!Resolved
         /\ \A S \in SUBSET (1..NodeCount) : Made!Deadlocked(S) => S = {}
         /\ \E r \in [1..NodeCount -> 1..NodeCount] :
              /\ IsOrder(nodes, r)
              /\ Prep!PlanOf(nodes, ordered) =
                   Prep!PlanOf(nodes, Prep!Reordered(nodes, r))
<1>1. Made!PlanInv /\ Made!SortInv /\ Loads(doc) /\ nodes = NodesOf(doc, 0)
  BY DEF Known, Made!PlanInv
<1>2. sorting = "sorted" /\ ordered = Prep!Reordered(nodes, result)
  <2>1. sorting = "sorted"
    BY DEF Known, Made!PlanInv, Made!StepsInv
  <2>2. ordered = Made!Reordered(nodes, result)
    BY DEF Known, Made!OrderInv
  <2> QED BY <2>1, <2>2, SameReordered
<1>3. result \in [1..NodeCount -> 1..NodeCount] /\ IsOrder(nodes, result)
  BY <1>2, SortIsOrder
<1>4. Prep!PlanOf(nodes, ordered) \in PlansOf(nodes)
  BY <1>2, <1>3 DEF PlansOf
<1>5. Prepared(Prep!PlanOf(nodes, ordered))
  <2>1. \A n \in 1..NodeCount : ~Made!DoubleSlash(nodes[n].path)
    BY <1>1, LoadedNodes, PlansAssumption, SameDoubleSlash
  <2>2. \A n \in Made!Node : ~Made!DoubleSlash(nodes[n].path)
    BY <2>1 DEF Made!Node
  <2>3. Made!Prepared(Made!PlanOf(nodes, ordered))
    BY <1>1, <2>2, MadeAssumptions, Made!ReadyPrepared
    DEF Made!TopoAssumption, Made!PlannerAssumption
  <2> QED BY <2>3, SamePlanOf, SamePrepared
<1>6. Prep!PlanOf(nodes, ordered) \in Plans
  BY <1>1, <1>4, <1>5, PlansAssumption
<1>7. Made!CycleVerdict
  BY <1>1, MadeVerdict
<1>8. ~Unplaceable /\ Made!Resolved
  BY <1>1, <1>2 DEF Known, Made!SortInv, Made!PhaseInv
<1> QED BY <1>2, <1>3, <1>6, <1>7, <1>8 DEF Made!CycleVerdict, Made!Node
-----------------------------------------------------------------------------
(* The steps of prepare() are those of Made. *)
LEMMA SameNumbers ==
  Prep!Numbered = Made!Numbered /\ \A n : Prep!Number(n) = Made!Number(n)
<1>1. Prep!Numbered = Made!Numbered
  BY DEF Prep!Numbered, Made!Numbered, Prep!Node, Made!Node
<1>2. ASSUME NEW n PROVE Prep!Number(n) = Made!Number(n)
  BY <1>1, SameCardinality DEF Prep!Number, Made!Number
<1> QED BY <1>1, <1>2

LEMMA SameWrites ==
  Prep!Renumbered = Made!Renumbered /\ Prep!Relinked = Made!Relinked
<1>1. Prep!Renumbered = Made!Renumbered
  BY SameNumbers DEF Prep!Renumbered, Made!Renumbered, Prep!Node, Made!Node
<1>2. \A n : Prep!Resolves(n) <=> Made!Resolves(n)
  BY DEF Prep!Resolves, Made!Resolves, Prep!Node, Made!Node
<1>3. Prep!Relinked = Made!Relinked
  BY <1>2 DEF Prep!Relinked, Made!Relinked, Prep!LinkedTo, Made!LinkedTo,
              Prep!Node, Made!Node
<1> QED BY <1>1, <1>3

(* Every step of prepare() in main() is one of Planner. *)
LEMMA PrepareIsMade == PrepareStep => Made!PlannerNext
<1> SUFFICES ASSUME PrepareStep PROVE Made!PlannerNext
  OBVIOUS
<1>1. CASE Prep!ResolveAndNumber
  <2>1. Made!Resolve
    BY <1>1 DEF Prep!ResolveAndNumber, Prep!Resolve, Made!Resolve,
                Prep!InDegree, Made!InDegree, Prep!Node, Made!Node
  <2>2. linked' = Made!Relinked /\ index' = Made!Renumbered
    BY <1>1, SameWrites DEF Prep!ResolveAndNumber
  <2> QED BY <1>1, <2>1, <2>2
          DEF Prep!ResolveAndNumber, Made!ResolveAndNumber, Made!PlannerNext
<1>2. CASE Prep!RejectLayout
  BY <1>2, SameNumbers, SameWrites
  DEF Prep!RejectLayout, Made!RejectLayout, Made!PlannerNext, Prep!Node,
      Made!Node, Prep!sortVars, Made!sortVars, Prep!Resolves, Made!Resolves
<1>3. CASE Prep!RejectParents
  <2>1. Made!RejectUnknown
    BY <1>3 DEF Prep!RejectParents, Prep!RejectUnknown, Made!RejectUnknown,
                Prep!Node, Made!Node
  <2> QED BY <1>3, <2>1, SameWrites
          DEF Prep!RejectParents, Made!RejectParents, Made!PlannerNext
<1>4. CASE Prep!Sort
  <2>1. Prep!Pop => Made!Pop
    <3>1. \A n, c : Prep!Occurrences(n, c) = Made!Occurrences(n, c)
      BY DEF Prep!Occurrences, Made!Occurrences
    <3>2. \A n, c : Prep!Cardinality(Prep!Occurrences(n, c)) =
                    Made!Cardinality(Made!Occurrences(n, c))
      BY <3>1, SameCardinality
    <3>3. Prep!Least(heap) = Made!Least(heap)
      BY DEF Prep!Least, Made!Least
    <3>4. \A c : Prep!BecomesReady(c) <=> Made!BecomesReady(c)
      BY DEF Prep!BecomesReady, Made!BecomesReady
    <3> QED BY <3>2, <3>3, <3>4 DEF Prep!Pop, Made!Pop, Prep!Node, Made!Node
  <2>2. Prep!Finish => Made!Finish
    BY DEF Prep!Finish, Made!Finish, Prep!Outcome, Made!Outcome,
           Prep!LoopDone, Made!LoopDone
  <2> QED BY <1>4, <2>1, <2>2 DEF Prep!Sort, Made!Sort, Made!PlannerNext
<1>5. CASE Prep!Reorder
  BY <1>5, SameReordered
  DEF Prep!Reorder, Made!Reorder, Made!PlannerNext,
      Prep!sortVars, Made!sortVars
<1>6. CASE Prep!Validate
  <2>1. Prep!LinkedNodes = Made!LinkedNodes
    BY DEF Prep!LinkedNodes, Made!LinkedNodes, Prep!Node, Made!Node
  <2> QED BY <1>6, <2>1, SameValid, SamePlanOf
          DEF Prep!Validate, Made!Validate, Made!PlannerNext,
              Prep!sortVars, Made!sortVars
<1> QED BY <1>1, <1>2, <1>3, <1>4, <1>5, <1>6 DEF PrepareStep

(* prepare() starts as Made does: on the nodes of a document that has been *)
(* read, and on nodes that it has been through.                            *)
LEMMA StartIsMade ==
  ASSUME NEW d \in Documents, Loads(d), Construct(NodesOf(d, 0)), CallPrepare
  PROVE  Made!PlannerInit'
<1>1. /\ nodes' = NodesOf(d, 0)
      /\ nodes' \in {NodesOf(e, 0) : e \in {f \in Documents : Loads(f)}}
  BY DEF Construct
<1>2. listed' = [n \in 1..NodeCount |-> NodesOf(d, 0)[n].parents]
  BY DEF Construct
<1>3. Made!Init'
  BY <1>2 DEF CallPrepare, Made!Init, Made!Node
<1>4. listed' = Made!ParentListsOf(nodes)'
  BY <1>1, <1>2 DEF Made!ParentListsOf, Made!Node
<1>5. Made!New'
  BY DEF Construct, Made!New, Made!Node
<1> QED BY <1>1, <1>3, <1>4, <1>5 DEF Made!PlannerInit, CallPrepare

(* Nothing else depends on where prepare() is. *)
LEMMA UsedKept ==
  ASSUME UNCHANGED <<nodes, listed, linked, index>>
  PROVE  Made!Used' <=> Made!Used
<1>1. Made!Numbered' = Made!Numbered
  BY DEF Made!Numbered
<1>2. \A n : Made!Number(n)' = Made!Number(n)
  BY <1>1 DEF Made!Number
<1>3. \A n : Made!Resolves(n)' <=> Made!Resolves(n)
  BY DEF Made!Resolves
<1> QED BY <1>1, <1>2, <1>3 DEF Made!Used

LEMMA SecondIsMade ==
  ASSUME Known, Made!Used, CallPrepare, UNCHANGED <<nodes, listed, linked, index>>
  PROVE  Made!PlannerInit' /\ Made!Used'
<1>1. Made!Used'
  BY UsedKept
<1>2. /\ nodes \in {NodesOf(d, 0) : d \in {e \in Documents : Loads(e)}}
      /\ listed = Made!ParentListsOf(nodes) /\ nodes = NodesOf(doc, 0)
      /\ Made!TypeOK
  BY DEF Known, Made!PlanInv, Made!StepsInv, Made!SortInv
<1>3. listed \in {[n \in 1..NodeCount |-> NodesOf(d, 0)[n].parents] :
                    d \in {e \in Documents : Loads(e)}}
  BY <1>2 DEF Made!ParentListsOf, Made!Node
<1>4. Made!Init'
  BY <1>3 DEF CallPrepare, Made!Init, Made!Node
<1>5. listed' = Made!ParentListsOf(nodes)'
  BY <1>2 DEF Made!ParentListsOf
<1> QED BY <1>1, <1>2, <1>4, <1>5 DEF Made!PlannerInit, CallPrepare

(* The theorems about Planner hold of Made: what it starts and goes on in. *)
LEMMA MadeStarts == Made!PlannerInit => Made!PlanInv /\ Made!OrderInv
BY MadeAssumptions, Made!PlannerInitInv, Made!OrderInitInv
DEF Made!TopoAssumption, Made!PlannerAssumption

LEMMA MadeSteps ==
  Made!PlanInv /\ Made!OrderInv /\ [Made!PlannerNext]_(Made!planVars) =>
    Made!PlanInv' /\ Made!OrderInv'
BY MadeAssumptions, Made!PlannerStepInv, Made!OrderStepInv
DEF Made!TopoAssumption, Made!PlannerAssumption

(* As soon as the spec is read. *)
LEMMA KnownStarts ==
  ASSUME doc' \in Documents, Loads(doc'), Construct(NodesOf(doc', 0)), CallPrepare
  PROVE  Known'
<1>1. Made!PlannerInit'
  BY StartIsMade
<1>2. Made!PlanInv' /\ Made!OrderInv'
  BY <1>1, MadeStarts, PTL
<1> QED BY <1>2 DEF Known, Construct, CallPrepare

(* And again when prepare() is called again. *)
LEMMA KnownAgain ==
  ASSUME Known, Made!Used, doc' = doc, CallPrepare,
         UNCHANGED <<nodes, listed, linked, index>>
  PROVE  Known' /\ Made!Used'
<1>1. Made!PlannerInit' /\ Made!Used'
  BY SecondIsMade
<1>2. Made!PlanInv' /\ Made!OrderInv'
  BY <1>1, MadeStarts, PTL
<1> QED BY <1>1, <1>2 DEF Known, CallPrepare

(* The second call finds the nodes linked and numbered as it would have    *)
(* them.                                                                   *)
LEMMA UsedStays ==
  ASSUME Known, Made!Used, PrepareStep
  PROVE  linked' = linked /\ index' = index /\ Made!Used'
<1>1. nodes' = nodes /\ listed' = listed
  BY DEF PrepareStep, Prep!ResolveAndNumber, Prep!RejectParents,
         Prep!RejectLayout, Prep!Sort, Prep!Reorder, Prep!Validate,
         Prep!sortVars, Prep!Resolve, Prep!RejectUnknown, Prep!Pop, Prep!Finish
<1>2. linked' \in {linked, Made!Relinked} /\ index' \in {index, Made!Renumbered}
  BY SameWrites
  DEF PrepareStep, Prep!ResolveAndNumber, Prep!RejectParents,
      Prep!RejectLayout, Prep!Sort, Prep!Reorder, Prep!Validate
<1>3. Made!Relinked = linked
  <2>1. Made!TypeOK /\ linked \in [Made!Node -> Seq(Made!Node)]
    BY DEF Known, Made!PlanInv, Made!StepsInv, Made!SortInv
  <2>2. Made!Relinked = listed
    BY <2>1, MadeAssumptions, Made!RelinkedTyped
    DEF Made!TopoAssumption, Made!PlannerAssumption, Made!Used
  <2> QED BY <2>2 DEF Made!Used
<1>4. Made!Renumbered = index
  BY DEF Made!Used, Made!Renumbered
<1>5. linked' = linked /\ index' = index
  BY <1>2, <1>3, <1>4
<1> QED BY <1>1, <1>5, UsedKept

(* And until the process ends, in prepare() and outside. *)
LEMMA KnownStays ==
  ASSUME Known, doc' = doc, PrepareStep \/ UNCHANGED prepVars
  PROVE  Known'
<1>1. Made!PlanInv' /\ Made!OrderInv'
  <2>1. [Made!PlannerNext]_(Made!planVars)
    BY PrepareIsMade DEF prepVars, Made!planVars, Made!sortVars
  <2> QED BY <2>1, MadeSteps DEF Known
<1>2. nodes' = nodes /\ listed' = listed
  BY DEF PrepareStep, prepVars, Prep!ResolveAndNumber, Prep!RejectLayout,
         Prep!RejectParents, Prep!Sort, Prep!Reorder, Prep!Validate,
         Prep!sortVars, Prep!Resolve, Prep!RejectUnknown, Prep!Pop, Prep!Finish
<1>3. Unplaceable' <=> Unplaceable
  BY <1>2 DEF Unplaceable, Prep!Numbered
<1>4. sorting' \in {"sort", "sorted", "cycle"} =>
        sorting \in {"sort", "sorted", "cycle"} \/ ~Unplaceable
  BY DEF PrepareStep, prepVars, Prep!ResolveAndNumber, Prep!RejectLayout,
         Prep!RejectParents, Prep!Sort, Prep!Reorder, Prep!Validate,
         Prep!sortVars, Prep!Resolve, Prep!RejectUnknown, Prep!Pop, Prep!Finish
<1> QED BY <1>1, <1>2, <1>3, <1>4 DEF Known
-----------------------------------------------------------------------------
(* The statuses are told apart. *)
LEMMA Statuses ==
  /\ Running = -1 /\ Killed = -2
  /\ EXIT_SUCCESS = 0 /\ EXIT_VALIDATION = 1 /\ EXIT_EXECUTION = 2
  /\ EXIT_USAGE = 64
  /\ \A e \in {"success", "failed"} :
       StatusOf(e) \notin {EXIT_VALIDATION, EXIT_USAGE}
  BY DEF Running, Killed, EXIT_SUCCESS, EXIT_VALIDATION, EXIT_EXECUTION,
         EXIT_USAGE, StatusOf

(* What is unmounted or released is all that Without takes away. *)
LEMMA WithoutOfRecord ==
  ASSUME NEW m, NEW u, NEW S
  PROVE  Without([made |-> m, up |-> u], S) = [made |-> m, up |-> u \ S]
  BY DEF Without

LEMMA WithoutLess ==
  ASSUME KernelIsRecord, NEW S
  PROVE  Without(kernel, S) = [made |-> kernel.made, up |-> kernel.up \ S]
  BY WithoutOfRecord DEF KernelIsRecord

LEMMA EffectIsRecord ==
  ASSUME NEW n, NEW op
  PROVE  Effect(plan, kernel, n, op) =
           [made |-> Effect(plan, kernel, n, op).made,
            up   |-> Effect(plan, kernel, n, op).up]
  BY DEF Effect

(* The invariant holds when a process starts. *)
LEMMA CliInvInit == CliInit => CliInv
<1> SUFFICES ASSUME CliInit PROVE CliInv
  OBVIOUS
<1>1. PICK p \in Plans : kernel = Blank(p)
  BY DEF CliInit
<1>2. KernelIsRecord
  BY <1>1 DEF Blank, KernelIsRecord
<1>3. Progress /\ code = Running /\ main = "args"
  BY DEF CliInit, Progress
<1>4. Harmless
  BY <1>3 DEF CliInit, Harmless, Untouched
<1> QED
  BY <1>2, <1>3, <1>4 DEF CliInv
-----------------------------------------------------------------------------
(* The steps of main() outside of Executor.run. *)
LEMMA ParseArgsKeeps == CliInv /\ ParseArgs => CliInv'
  BY Statuses
  DEF CliInv, ParseArgs, End, KernelIsRecord, Progress, Harmless, Untouched,
      vars, config, status, books

LEMMA LoadKeeps == CliInv /\ Load => CliInv'
  BY Statuses
  DEF CliInv, Load, End, KernelIsRecord, Progress, Harmless, Untouched,
      vars, config, status, books

LEMMA PrepareStepKeeps == CliInv /\ PrepareStep => CliInv'
  BY DEF CliInv, PrepareStep, KernelIsRecord, Progress, Harmless, Untouched,
         vars, config, status, books

LEMMA PrepareFailedKeeps == CliInv /\ PrepareFailed => CliInv'
  BY DEF CliInv, PrepareFailed, End, KernelIsRecord, Progress, Harmless,
         Untouched, vars, config, status, books

LEMMA TakePlanKeeps == CliInv /\ TakePlan => CliInv'
  BY DEF CliInv, TakePlan, AfterPrepare, KernelIsRecord, Progress, Harmless,
         Untouched, status, books

LEMMA EmitScriptKeeps == CliInv /\ EmitScript => CliInv'
  BY DEF CliInv, EmitScript, End, KernelIsRecord, Progress, Harmless,
         Untouched, vars, config, status, books

LEMMA TakePlanAgainKeeps == CliInv /\ TakePlanAgain => CliInv'
  BY DEF CliInv, TakePlanAgain, KernelIsRecord, Progress, Harmless,
         Untouched, status, books

(* The pre-flight step can only take mounts away. *)
LEMMA PreflightStepKeeps == CliInv /\ PreflightStep => CliInv'
<1> SUFFICES ASSUME CliInv, PreflightStep PROVE CliInv'
  OBVIOUS
<1>1. /\ main = "preflight" /\ main' = "again" /\ phase = "preflight"
      /\ phase' = "modprobe" /\ code' = code /\ start' = start
  BY DEF PreflightStep, Preflight
<1>2. kernel' = kernel \/ \E S : kernel' = Without(kernel, S)
  BY DEF PreflightStep, Preflight
<1>3. /\ KernelIsRecord' /\ kernel'.made = kernel.made
      /\ kernel'.up \subseteq kernel.up
  BY <1>2, WithoutLess DEF CliInv, KernelIsRecord
<1>4. Harmless'
  BY <1>1, <1>3 DEF CliInv, Harmless, Untouched
<1> QED
  BY <1>1, <1>3, <1>4 DEF CliInv, Progress
-----------------------------------------------------------------------------
(* A step of Executor.run keeps the machine's form, and the machine        *)
(* untouched as long as a traceback is possible.                           *)
LEMMA ProcessKeeps ==
  ASSUME KernelIsRecord, Process,
         phase \in {"modprobe", "execute", "verify", "cleanup"},
         phase = "cleanup" => exit = "failed"
  PROVE  /\ KernelIsRecord'
         /\ phase' \in {"modprobe", "execute", "verify", "cleanup", "exited"}
         /\ phase' = "cleanup" => exit' = "failed"
         /\ phase' = "exited" =>
              \/ exit' = "traceback" /\ phase = "modprobe" /\ kernel' = kernel
              \/ exit' \in {"success", "failed"}
         /\ phase' = "modprobe" => phase = "modprobe" /\ kernel' = kernel
<1>1. CASE Preflight
  BY <1>1 DEF Preflight
<1>2. CASE Modprobe
  BY <1>2 DEF Modprobe, ModprobeAs, KernelIsRecord
<1>3. CASE StartNodes
  BY <1>3 DEF StartNodes, KernelIsRecord
<1>4. CASE EnterNode
  BY <1>4 DEF EnterNode, Fail, KernelIsRecord
<1>5. CASE RunCommand
  <2>1. PICK outcome \in Outcome : RunCommandAs(outcome)
    BY <1>5 DEF RunCommand
  <2>2. phase = "execute" /\ phase' \in {"execute", "cleanup"}
        /\ (phase' = "cleanup" => exit' = "failed")
    BY <2>1 DEF RunCommandAs, Fail
  <2>3. kernel' = kernel \/ \E op : kernel' = Effect(plan, kernel, at, op)
    BY <2>1 DEF RunCommandAs
  <2>4. KernelIsRecord'
    BY <2>3, EffectIsRecord DEF KernelIsRecord
  <2> QED
    BY <2>2, <2>4
<1>6. CASE CompleteNode
  BY <1>6 DEF CompleteNode, KernelIsRecord
<1>7. CASE StartVerify \/ PassNode
  BY <1>7 DEF StartVerify, PassNode, KernelIsRecord
<1>8. CASE VerifyNode
  BY <1>8 DEF VerifyNode, VerifyNodeAs, Fail, KernelIsRecord
<1>9. CASE Succeed
  BY <1>9 DEF Succeed, KernelIsRecord
<1>10. CASE CleanupNode
  <2>1. phase = "cleanup" /\ phase' = phase /\ exit' = exit
    BY <1>10 DEF CleanupNode
  <2>2. kernel' = kernel \/ \E S : kernel' = Without(kernel, S)
    BY <1>10 DEF CleanupNode
  <2>3. KernelIsRecord'
    BY <2>2, WithoutLess DEF KernelIsRecord
  <2> QED
    BY <2>1, <2>3
<1>11. CASE EndCleanup
  BY <1>11 DEF EndCleanup, KernelIsRecord
<1> QED
  BY <1>1, <1>2, <1>3, <1>4, <1>5, <1>6, <1>7, <1>8, <1>9, <1>10, <1>11
  DEF Process

LEMMA RunStepKeeps == CliInv /\ RunStep => CliInv'
<1> SUFFICES ASSUME CliInv, RunStep PROVE CliInv'
  OBVIOUS
<1>1. /\ main = "run" /\ Process /\ start' = start /\ code = Running
      /\ phase \in {"modprobe", "execute", "verify", "cleanup"}
      /\ phase = "cleanup" => exit = "failed"
      /\ KernelIsRecord
  BY DEF CliInv, RunStep, Progress
<1>2. /\ KernelIsRecord'
      /\ phase' \in {"modprobe", "execute", "verify", "cleanup", "exited"}
      /\ phase' = "cleanup" => exit' = "failed"
      /\ phase' = "exited" =>
           \/ exit' = "traceback" /\ phase = "modprobe" /\ kernel' = kernel
           \/ exit' \in {"success", "failed"}
      /\ phase' = "modprobe" => phase = "modprobe" /\ kernel' = kernel
  BY <1>1, ProcessKeeps
<1>3. CASE phase' # "exited"
  <2>1. main' = "run" /\ code' = Running
    BY <1>1, <1>3 DEF RunStep
  <2>2. Harmless'
    BY <1>1, <1>2, <1>3, <2>1 DEF CliInv, Harmless, Untouched
  <2> QED
    BY <1>2, <1>3, <2>1, <2>2 DEF CliInv, Progress
<1>4. CASE phase' = "exited"
  <2>1. main' = "ended" /\ code' = StatusOf(exit')
    BY <1>4 DEF RunStep, End
  <2>2. code' \in {EXIT_VALIDATION, EXIT_USAGE} =>
          phase = "modprobe" /\ kernel' = kernel
    BY <1>2, <1>4, <2>1, Statuses
  <2>3. Harmless'
    BY <1>1, <1>4, <2>2 DEF CliInv, Harmless, Untouched
  <2> QED
    BY <1>2, <1>4, <2>1, <2>3 DEF CliInv, Progress
<1> QED
  BY <1>3, <1>4
-----------------------------------------------------------------------------
LEMMA KillKeeps == CliInv /\ Kill => CliInv'
<1> SUFFICES ASSUME CliInv, Kill PROVE CliInv'
  OBVIOUS
<1>1. main' = "ended" /\ code' = Killed /\ phase' = "exited"
  BY DEF Kill, End, Interrupt
<1>2. \E S : kernel' = Without(kernel, S)
  BY DEF Kill, Interrupt
<1>3. KernelIsRecord'
  BY <1>2, WithoutLess DEF CliInv, KernelIsRecord
<1> QED
  BY <1>1, <1>3, Statuses DEF CliInv, Progress, Harmless

LEMMA AgainKeeps == CliInv /\ Again => CliInv'
  BY Statuses
  DEF CliInv, Again, KernelIsRecord, Progress, Harmless, Untouched

LEMMA StutterKeeps == CliInv /\ UNCHANGED cliVars => CliInv'
  BY DEF CliInv, cliVars, vars, config, status, books, KernelIsRecord,
         Progress, Harmless, Untouched

LEMMA CliStep == CliInv /\ [CliNext]_cliVars => CliInv'
BY ParseArgsKeeps, LoadKeeps, PrepareStepKeeps, PrepareFailedKeeps,
   TakePlanKeeps, EmitScriptKeeps, PreflightStepKeeps, TakePlanAgainKeeps,
   RunStepKeeps, KillKeeps, AgainKeeps, StutterKeeps
DEF CliNext, MainNext

(* The invariant of main(): the machine is as the process found it until   *)
(* the last step that can end in a traceback is behind.                    *)
THEOREM CliCorrect == CliSpec => []CliInv
BY CliInvInit, CliStep, PTL DEF CliSpec

(* README.md:213 and 215, for every document and however commands fail:    *)
(* exit statuses 1 and 64 come with a machine on which nothing was written *)
(* and nothing brought up.                                                 *)
THEOREM StatusOneIsHarmless == CliSpec => []StatusOneHarmless
<1>1. CliInv => StatusOneHarmless
  <2> SUFFICES ASSUME CliInv, code \in {EXIT_VALIDATION, EXIT_USAGE}
               PROVE  Untouched
    BY DEF StatusOneHarmless, Untouched
  <2>1. main = "ended"
    BY Statuses DEF CliInv
  <2> QED
    BY <2>1 DEF CliInv, Harmless
<1> QED
  BY CliCorrect, <1>1, PTL
-----------------------------------------------------------------------------
(* All plans mean the same machine. *)
LEMMA OneMachine ==
  ASSUME NEW p \in Plans, NEW q \in Plans
  PROVE  KernelStates(p) = KernelStates(q)
<1>1. DOMAIN p = DOMAIN q /\ \A n \in DOMAIN p : p[n].kind = q[n].kind
  BY CliAssumption
<1>2. LiveNodes(p) = LiveNodes(q)
  BY <1>1 DEF LiveNodes
<1> QED BY <1>1, <1>2 DEF KernelStates

LEMMA MachineStays ==
  Machine /\ UNCHANGED <<kernel, start, faults, run, dry, skip>> => Machine'
BY DEF Machine

(* The machine after a step of the run. *)
LEMMA MachineAfter ==
  ASSUME Machine, RunInv', UNCHANGED start
  PROVE  Machine'
<1>1. /\ plan' \in Plans /\ kernel' \in KernelStates(plan)'
      /\ faults' \in 0..MaxFaults /\ run' \in 1..MaxRuns
      /\ dry' \in BOOLEAN /\ skip' \in BOOLEAN
  BY DEF RunInv, TypeOK
<1>2. kernel' \in KernelStates(plan')
  BY <1>1
<1>3. \A p \in Plans : kernel' \in KernelStates(p)
  BY <1>1, <1>2, OneMachine
<1> QED BY <1>1, <1>3 DEF Machine

LEMMA RunStays == RunInv /\ UNCHANGED vars => RunInv'
BY StepInv

LEMMA ProcessRuns == RunInv /\ Process => RunInv'
BY StepInv DEF Next

LEMMA SettledStays ==
  ASSUME Settled, UNCHANGED <<doc, nodes, listed, plan>>
  PROVE  Settled'
<1>1. Unplaceable' <=> Unplaceable
  BY DEF Unplaceable, Prep!Numbered
<1>2. Made!Resolved' <=> Made!Resolved
  BY DEF Made!Resolved
<1>3. \A S : Made!Deadlocked(S)' <=> Made!Deadlocked(S)
  BY DEF Made!Deadlocked
<1> QED BY <1>1, <1>2, <1>3 DEF Settled

(* Executor.run as it is entered. *)
AtStart ==
  /\ plan \in Plans /\ phase = "preflight" /\ at = 1 /\ step = 0
  /\ exit = "none" /\ succeeded = <<>> /\ registered = {}
  /\ before = {} /\ blame = {}

LEMMA RunBegins == Machine /\ AtStart => RunInv
<1> SUFFICES ASSUME Machine, AtStart PROVE RunInv
  OBVIOUS
<1> USE DEF AtStart
<1>1. Len(plan) \in Nat /\ DOMAIN plan = 1..Len(plan)
  BY PlanShape
<1>2. TypeOK
  BY <1>1 DEF Machine, TypeOK, Phases
<1>3. UndoLog
  BY <1>1 DEF UndoLog
<1> QED BY <1>2, <1>3 DEF RunInv, Verified, SuccessMeansMounted
-----------------------------------------------------------------------------
(* The invariant when a process starts. *)
LEMMA StateInit == CliInit => StateInv
<1> SUFFICES ASSUME CliInit PROVE StateInv
  OBVIOUS
<1>1. PICK p \in Plans : kernel = Blank(p) /\ start = Blank(p)
  BY DEF CliInit
<1>2. \A q \in Plans : Blank(p) \in KernelStates(q)
  <2>1. \A q \in Plans : Blank(q) \in KernelStates(q)
    BY DEF Blank, KernelStates, OfKind
  <2> QED BY <2>1, CliAssumption
<1>3. Machine
  BY <1>1, <1>2, ProvisionerAssumption DEF CliInit, Machine
<1>4. Position
  BY Statuses DEF CliInit, Position, Running
<1>5. Fresh /\ Unread
  BY DEF CliInit, Fresh, Unread
<1>6. InRun /\ Repeats
  BY DEF CliInit, InRun, Repeats
<1> QED BY <1>3, <1>4, <1>5, <1>6 DEF StateInv

(* As long as main() has not come to run(), and in --script. *)
LEMMA ParseArgsState == StateInv /\ ParseArgs => StateInv'
<1> SUFFICES ASSUME StateInv, ParseArgs PROVE StateInv'
  OBVIOUS
<1>1. /\ main = "args" /\ UNCHANGED <<vars, doc, called, start, prepVars>>
      /\ main' \in {"load", "ended"} /\ exit # "success"
  BY DEF ParseArgs, End, StateInv, Position
<1>2. Machine'
  BY <1>1, MachineStays DEF StateInv, vars, config
<1>3. Position'
  BY <1>1, Statuses DEF ParseArgs, End, StateInv, Position, vars, config,
                        status
<1>4. Fresh'
  BY <1>1 DEF StateInv, Fresh, vars, config, status, books
<1>5. Known' \/ Unread'
  BY <1>1, KnownStays DEF StateInv, Unread, prepVars, vars, status
<1>6. InRun' /\ Repeats'
  BY <1>1 DEF InRun, Repeats, vars, status
<1> QED BY <1>2, <1>3, <1>4, <1>5, <1>6 DEF StateInv

LEMMA LoadState == StateInv /\ Load => StateInv'
<1> SUFFICES ASSUME StateInv, Load PROVE StateInv'
  OBVIOUS
<1>1. /\ main = "load" /\ UNCHANGED <<vars, doc, called, start>>
      /\ main' \in {"prepare", "ended"} /\ exit # "success"
      /\ \/ /\ Loads(doc) /\ main' = "prepare" /\ code' = code
            /\ Construct(NodesOf(doc, 0)) /\ CallPrepare
         \/ /\ main' = "ended" /\ UNCHANGED prepVars
            /\ code' \in {EXIT_VALIDATION, EXIT_USAGE}
  BY DEF Load, End, LoadStatus, StateInv, Position
<1>2. Machine'
  BY <1>1, MachineStays DEF StateInv, vars, config
<1>3. Position'
  BY <1>1, Statuses DEF StateInv, Position, vars, config, status
<1>4. Fresh'
  BY <1>1 DEF StateInv, Fresh, vars, config, status, books
<1>5. Known' \/ Unread'
  <2>1. CASE main' = "prepare"
    <3>1. /\ doc' \in Documents /\ Loads(doc')
          /\ Construct(NodesOf(doc', 0)) /\ CallPrepare
      BY <1>1, <2>1 DEF StateInv, Position
    <3> QED BY <3>1, KnownStarts
  <2>2. CASE main' = "ended"
    BY <1>1, <2>2, KnownStays DEF StateInv, Unread, prepVars, vars, status
  <2> QED BY <1>1, <2>1, <2>2
<1>6. InRun' /\ Repeats'
  BY <1>1 DEF InRun, Repeats, vars, status
<1> QED BY <1>2, <1>3, <1>4, <1>5, <1>6 DEF StateInv

LEMMA PrepareFailedState == StateInv /\ PrepareFailed => StateInv'
<1> SUFFICES ASSUME StateInv, PrepareFailed PROVE StateInv'
  OBVIOUS
<1>1. /\ main \in {"prepare", "again"} /\ exit # "success"
      /\ UNCHANGED <<vars, doc, called, start, prepVars>>
      /\ main' = "ended" /\ code' = EXIT_VALIDATION
  BY DEF PrepareFailed, End, StateInv, Position
<1>2. Machine'
  BY <1>1, MachineStays DEF StateInv, vars, config
<1>3. Position'
  BY <1>1, Statuses DEF StateInv, Position, vars, config, status
<1>4. Fresh' /\ InRun' /\ Repeats'
  BY <1>1 DEF Fresh, InRun, Repeats, vars, status
<1>5. Known' \/ Unread'
  BY <1>1, KnownStays DEF StateInv, Unread
<1> QED BY <1>2, <1>3, <1>4, <1>5 DEF StateInv

LEMMA EmitScriptState == StateInv /\ EmitScript => StateInv'
<1> SUFFICES ASSUME StateInv, EmitScript PROVE StateInv'
  OBVIOUS
<1>1. /\ main = "emit" /\ exit # "success" /\ called = "script"
      /\ UNCHANGED <<vars, doc, called, start, prepVars>>
      /\ main' = "ended" /\ code' \in {0, 1}
  BY Statuses DEF EmitScript, End, StateInv, Position
<1>2. Machine'
  BY <1>1, MachineStays DEF StateInv, vars, config
<1>3. Position'
  BY <1>1, Statuses DEF StateInv, Position, vars, config, status
<1>4. Fresh' /\ InRun' /\ Repeats'
  BY <1>1 DEF Fresh, InRun, Repeats, vars, status
<1>5. Known' \/ Unread'
  BY <1>1, KnownStays DEF StateInv, Unread
<1> QED BY <1>2, <1>3, <1>4, <1>5 DEF StateInv
-----------------------------------------------------------------------------
(* A step of prepare(), of the first call or of the second: the second     *)
(* finds what the first has settled.                                       *)
LEMMA PrepareStepState == StateInv /\ PrepareStep => StateInv'
<1> SUFFICES ASSUME StateInv, PrepareStep PROVE StateInv'
  OBVIOUS
<1>1. /\ main \in {"prepare", "again"} /\ exit # "success"
      /\ UNCHANGED <<vars, doc, called, main, code, start>>
  BY DEF PrepareStep, StateInv, Position
<1>2. Machine'
  BY <1>1, MachineStays DEF StateInv, vars, config
<1>3. Position'
  BY <1>1 DEF StateInv, Position, vars, config, status
<1>4. Fresh'
  BY <1>1 DEF StateInv, Fresh, vars, config, status, books
<1>5. Known /\ Known'
  BY <1>1, KnownStays DEF StateInv, Unread
<1>6. nodes' = nodes /\ listed' = listed
  BY DEF PrepareStep, Prep!ResolveAndNumber, Prep!RejectParents,
         Prep!RejectLayout, Prep!Sort, Prep!Reorder, Prep!Validate,
         Prep!sortVars, Prep!Resolve, Prep!RejectUnknown, Prep!Pop, Prep!Finish
<1>7. InRun'
  BY <1>1, <1>6, RunStays, SettledStays
  DEF StateInv, InRun, vars, config, status
<1>8. ASSUME main = "again"
      PROVE  sorting' \notin {"cycle", "unknown_parent"} /\ stage' # "invalid"
  <2>1. /\ Settled /\ RunInv /\ plan \in Plans
        /\ sorting \notin {"cycle", "unknown_parent"} /\ stage # "invalid"
    BY <1>8 DEF StateInv, InRun, Repeats, RunInv, TypeOK
  <2>2. sorting' # "unknown_parent"
    BY <2>1 DEF PrepareStep, Prep!ResolveAndNumber, Prep!RejectParents,
                Prep!RejectLayout, Prep!Sort, Prep!Reorder, Prep!Validate,
                Prep!sortVars,
                Prep!Resolve, Prep!RejectUnknown, Prep!Pop, Prep!Finish,
                Prep!Outcome, Settled, Made!Resolved, Prep!Node, Made!Node
  <2>3. sorting' # "cycle"
    <3>1. Settled'
      BY <1>1, <1>6, <2>1, SettledStays DEF vars, config
    <3>2. Made!CycleVerdict'
      <4>1. Made!SortInv'
        BY <1>5 DEF Known, Made!PlanInv
      <4> QED BY <4>1, MadeVerdict, PTL
    <3> QED BY <3>1, <3>2 DEF Settled, Made!CycleVerdict, Made!Node
  <2>4. stage' # "invalid"
    <3>1. CASE stage = "validate"
      <4>1. Prep!PlanOf(Prep!LinkedNodes, ordered) = plan
        BY <1>5, <2>1, <3>1, SameAgain
      <4>2. DOMAIN plan = DOMAIN ordered
        BY <4>1 DEF Prep!PlanOf
      <4>3. \A j \in DOMAIN ordered : Valid(plan, j)
        BY <2>1, <4>2, ProvisionerAssumption DEF Prepared
      <4>4. \A j \in DOMAIN ordered :
              Prep!Valid(Prep!PlanOf(Prep!LinkedNodes, ordered), j)
        BY <4>1, <4>3, SameValid
      <4> QED BY <3>1, <4>4
              DEF PrepareStep, Prep!ResolveAndNumber, Prep!RejectParents,
                  Prep!RejectLayout, Prep!Sort, Prep!Reorder, Prep!Validate
    <3>2. CASE stage # "validate"
      BY <2>1, <3>2 DEF PrepareStep, Prep!ResolveAndNumber,
         Prep!RejectParents, Prep!RejectLayout, Prep!Sort, Prep!Reorder,
         Prep!Validate, Settled
    <3> QED BY <3>1, <3>2
  <2> QED BY <2>2, <2>3, <2>4
<1>9. main = "again" => Made!Used'
  BY <1>5, UsedStays DEF StateInv, Repeats
<1>10. Repeats'
  BY <1>1, <1>8, <1>9 DEF Repeats, vars, status
<1> QED BY <1>2, <1>3, <1>4, <1>5, <1>7, <1>10 DEF StateInv

(* main() takes the plan, and with it what prepare() has shown. *)
LEMMA TakePlanState == StateInv /\ TakePlan => StateInv'
<1> SUFFICES ASSUME StateInv, TakePlan PROVE StateInv'
  OBVIOUS
<1>1. /\ main = "prepare" /\ exit # "success" /\ stage = "ready"
      /\ plan' = Prep!PlanOf(Prep!LinkedNodes, ordered)
      /\ main' = IF called = "script" THEN "emit" ELSE "preflight"
      /\ UNCHANGED <<dry, skip, status, books, kernel, before, blame, faults,
                     run, doc, called, code, start, prepVars>>
      /\ doc \in Documents /\ called \in {"script", "run"}
  BY DEF TakePlan, AfterPrepare, StateInv, Position
<1>2. Machine'
  BY <1>1, MachineStays DEF StateInv
<1>3. Known /\ Known'
  BY <1>1, KnownStays DEF StateInv, Unread
<1>4. plan' \in Plans /\ Settled'
  <2>1. /\ plan' \in Plans
        /\ ~Unplaceable /\ Made!Resolved
        /\ \A S \in SUBSET (1..NodeCount) : Made!Deadlocked(S) => S = {}
        /\ \E r \in [1..NodeCount -> 1..NodeCount] :
             /\ IsOrder(nodes, r)
             /\ plan' = Prep!PlanOf(nodes, Prep!Reordered(nodes, r))
    BY <1>1, <1>3, PlanTaken, LinkedOnce
  <2>2. /\ Unplaceable' <=> Unplaceable
        /\ Made!Resolved' <=> Made!Resolved
        /\ \A S : Made!Deadlocked(S)' <=> Made!Deadlocked(S)
        /\ nodes' = nodes
    BY <1>1 DEF Unplaceable, Prep!Numbered, Made!Resolved, Made!Deadlocked,
                prepVars
  <2> QED BY <2>1, <2>2 DEF Settled
<1>5. RunInv'
  <2>1. AtStart'
    BY <1>1, <1>4 DEF StateInv, Fresh, status, books, AtStart
  <2> QED BY <1>2, <2>1, RunBegins, PTL
<1>6. Position'
  BY <1>1, <1>4, Statuses DEF StateInv, Position, status
<1>7. Fresh' /\ InRun' /\ Repeats'
  BY <1>1, <1>4, <1>5 DEF Fresh, InRun, Repeats, status, prepVars
<1> QED BY <1>2, <1>3, <1>6, <1>7 DEF StateInv
-----------------------------------------------------------------------------
(* The pre-flight step belongs to the run; prepare() is called again. *)
LEMMA PreflightState == StateInv /\ PreflightStep => StateInv'
<1> SUFFICES ASSUME StateInv, PreflightStep PROVE StateInv'
  OBVIOUS
<1>1. /\ main = "preflight" /\ main' = "again" /\ exit # "success"
      /\ Preflight /\ CallPrepare /\ exit' = exit
      /\ UNCHANGED <<doc, called, code, start, plan, nodes, listed, linked,
                     index>>
  BY DEF PreflightStep, StateInv, Position, Preflight, config
<1>2. RunInv /\ Settled /\ Known /\ stage = "ready"
  BY <1>1 DEF StateInv, InRun, Unread, Repeats
<1>3. RunInv'
  BY <1>1, <1>2, ProcessRuns DEF Process
<1>4. Machine'
  BY <1>1, <1>3, MachineAfter DEF StateInv
<1>5. Known' /\ Made!Used'
  BY <1>1, <1>2, UsedOnce, KnownAgain
<1>6. Settled'
  BY <1>1, <1>2, <1>5, SettledStays
<1>7. Position'
  BY <1>1 DEF StateInv, Position
<1>8. Fresh' /\ InRun' /\ Repeats'
  BY <1>1, <1>3, <1>5, <1>6 DEF Fresh, InRun, Repeats, CallPrepare
<1> QED BY <1>4, <1>5, <1>7, <1>8 DEF StateInv

(* run() takes the plan of the second prepare(): it is the one it had. *)
LEMMA SecondPlan ==
  ASSUME StateInv, TakePlanAgain
  PROVE  plan' = plan
<1>1. Known /\ Settled /\ stage = "ready"
  BY DEF TakePlanAgain, StateInv, InRun, Unread
<1> QED BY <1>1, SameAgain DEF TakePlanAgain

LEMMA TakePlanAgainState == StateInv /\ TakePlanAgain => StateInv'
<1> SUFFICES ASSUME StateInv, TakePlanAgain PROVE StateInv'
  OBVIOUS
<1>1. /\ main = "again" /\ main' = "run" /\ exit # "success"
      /\ stage = "ready" /\ plan' = Prep!PlanOf(Prep!LinkedNodes, ordered)
      /\ UNCHANGED <<dry, skip, status, books, kernel, before, blame, faults,
                     run, doc, called, code, start, prepVars>>
  BY DEF TakePlanAgain, StateInv, Position
<1>2. plan' = plan
  BY SecondPlan
<1>3. RunInv /\ Settled /\ Known
  BY <1>1 DEF StateInv, InRun, Unread
<1>4. RunInv'
  BY <1>1, <1>2, <1>3, RunStays DEF vars, config
<1>5. Machine' /\ Known'
  BY <1>1, <1>3, MachineStays, KnownStays DEF StateInv
<1>6. Settled'
  BY <1>1, <1>2, <1>3, SettledStays DEF prepVars
<1>7. Position'
  BY <1>1, <1>2 DEF StateInv, Position, status
<1>8. Fresh' /\ InRun'
  BY <1>1, <1>4, <1>6 DEF Fresh, InRun
<1>9. Repeats'
  BY <1>1, <1>3, LinkedOnce DEF Repeats, prepVars
<1> QED BY <1>5, <1>7, <1>8, <1>9 DEF StateInv

(* A step of Executor.run, and main() when it is the last. *)
LEMMA RunStepState == CliInv /\ StateInv /\ RunStep => StateInv'
<1> SUFFICES ASSUME CliInv, StateInv, RunStep PROVE StateInv'
  OBVIOUS
<1>1. /\ main = "run" /\ called = "run" /\ code = Running /\ exit # "success"
      /\ Process /\ KernelIsRecord
      /\ phase \in {"modprobe", "execute", "verify", "cleanup"}
      /\ phase = "cleanup" => exit = "failed"
      /\ UNCHANGED <<doc, called, start, prepVars>>
  BY DEF RunStep, StateInv, Position, CliInv, Progress
<1>2. UNCHANGED <<plan, dry, skip, run>>
  BY <1>1, ProcessConstant
<1>3. RunInv /\ Settled /\ Known
  BY <1>1 DEF StateInv, InRun, Unread
<1>4. RunInv'
  BY <1>1, <1>3, ProcessRuns
<1>5. Machine' /\ Known'
  BY <1>1, <1>3, <1>4, MachineAfter, KnownStays DEF StateInv
<1>6. Settled'
  BY <1>1, <1>2, <1>3, SettledStays DEF prepVars
<1>7. exit' = "success" => phase' = "exited"
  BY <1>4 DEF RunInv, Verified
<1>8. phase' = "exited" => exit' \in {"traceback", "success", "failed"}
  BY <1>1, ProcessKeeps
<1>9. \/ phase' # "exited" /\ main' = "run" /\ code' = Running
      \/ phase' = "exited" /\ main' = "ended" /\ code' = StatusOf(exit')
  BY <1>1 DEF RunStep, End
<1>10. phase' = "exited" =>
         code' \in {0, 1, 2} /\ (code' = EXIT_SUCCESS => exit' = "success")
  BY <1>8, <1>9, Statuses DEF StatusOf
<1>11. Position'
  <2>1. /\ doc' \in Documents /\ called' \in Calls /\ plan' \in Plans
        /\ called' = "run"
    BY <1>1, <1>2, <1>3 DEF StateInv, Position, RunInv, TypeOK
  <2>2. CASE phase' # "exited"
    BY <1>7, <1>9, <2>1, <2>2, Statuses DEF Position
  <2>3. CASE phase' = "exited"
    BY <1>9, <1>10, <2>1, <2>3, Statuses DEF Position
  <2> QED BY <2>2, <2>3
<1>12. Fresh' /\ InRun'
  BY <1>4, <1>6, <1>9 DEF Fresh, InRun
<1>13. Repeats'
  BY <1>1, <1>2, <1>9 DEF StateInv, Repeats, prepVars
<1> QED BY <1>5, <1>11, <1>12, <1>13 DEF StateInv

LEMMA KillState == StateInv /\ Kill => StateInv'
<1> SUFFICES ASSUME StateInv, Kill PROVE StateInv'
  OBVIOUS
<1>1. /\ main' = "ended" /\ code' = Killed /\ exit' = "killed"
      /\ UNCHANGED <<plan, dry, skip, faults, run, doc, called, start,
                     prepVars>>
      /\ \E lost : kernel' = Without(kernel, lost)
  BY DEF Kill, End, Interrupt, config
<1>2. Machine'
  <2>1. \A p \in Plans : kernel' \in KernelStates(p)
    BY <1>1, KernelTyped DEF StateInv, Machine
  <2> QED BY <1>1, <2>1 DEF StateInv, Machine
<1>3. Position'
  BY <1>1, Statuses DEF StateInv, Position
<1>4. Known' \/ Unread'
  BY <1>1, KnownStays DEF StateInv, Unread, prepVars
<1>5. Fresh' /\ InRun' /\ Repeats'
  BY <1>1 DEF Fresh, InRun, Repeats
<1> QED BY <1>2, <1>3, <1>4, <1>5 DEF StateInv

LEMMA AgainState == StateInv /\ Again => StateInv'
<1> SUFFICES ASSUME StateInv, Again PROVE StateInv'
  OBVIOUS
<1>1. Machine'
  BY ProvisionerAssumption DEF Again, StateInv, Machine
<1>2. Position'
  BY Statuses DEF Again, Position
<1>3. Fresh' /\ Unread' /\ InRun' /\ Repeats'
  BY DEF Again, Fresh, Unread, InRun, Repeats
<1> QED BY <1>1, <1>2, <1>3 DEF StateInv

LEMMA StutterState == StateInv /\ UNCHANGED cliVars => StateInv'
<1> SUFFICES ASSUME StateInv, UNCHANGED cliVars PROVE StateInv'
  OBVIOUS
<1>1. UNCHANGED <<vars, doc, called, main, code, start, prepVars>>
  BY DEF cliVars
<1>2. Machine' /\ Position' /\ Fresh' /\ Repeats'
  <2>1. Made!Used' <=> Made!Used
    BY <1>1, UsedKept DEF prepVars
  <2> QED BY <1>1, <2>1, MachineStays
          DEF StateInv, Position, Fresh, Repeats, vars, config, status, books,
              prepVars
<1>3. Known' \/ Unread'
  BY <1>1, KnownStays DEF StateInv, Unread, vars, status, prepVars
<1>4. InRun'
  BY <1>1, RunStays, SettledStays
  DEF StateInv, InRun, vars, config, status, prepVars
<1> QED BY <1>2, <1>3, <1>4 DEF StateInv
-----------------------------------------------------------------------------
(* The invariant of a whole call of sprov, and of the calls after it. *)
THEOREM SprovCorrect == CliSpec => []SprovInv
<1>1. CliInit => SprovInv
  BY CliInvInit, StateInit DEF SprovInv
<1>2. SprovInv /\ [CliNext]_cliVars => SprovInv'
  <2>1. CliInv /\ [CliNext]_cliVars => CliInv'
    BY CliStep
  <2>2. CliInv /\ StateInv /\ [CliNext]_cliVars => StateInv'
    BY ParseArgsState, LoadState, PrepareStepState, PrepareFailedState,
       TakePlanState, EmitScriptState, PreflightState, TakePlanAgainState,
       RunStepState, KillState, AgainState, StutterState
    DEF CliNext, MainNext
  <2> QED BY <2>1, <2>2 DEF SprovInv
<1> QED BY <1>1, <1>2, PTL DEF CliSpec

(* The variables of main() have their types, those of prepare() included. *)
THEOREM CliTypeCorrect == CliSpec => []CliTypeOK
<1>1. SprovInv => CliTypeOK
  <2> SUFFICES ASSUME SprovInv PROVE CliTypeOK
    OBVIOUS
  <2>1. Machine /\ Position
    BY DEF SprovInv, StateInv
  <2>2. ASSUME nodes # <<>> PROVE Prep!PlannerTypeOK
    <3>1. Known
      BY <2>2 DEF SprovInv, StateInv, Unread
    <3>2. Made!TypeOK /\ Made!StepsInv
      BY <3>1 DEF Known, Made!PlanInv, Made!SortInv
    <3>3. Prep!TypeOK
      BY <3>2 DEF Made!TypeOK, Prep!TypeOK, Made!Node, Prep!Node
    <3>4. nodes \in [Prep!Node -> Prep!NodeRecord(Prep!Node \cup {0})]
      BY <3>1, InPrepare, SameNodeRecord DEF Prep!Node
    <3> QED BY <3>2, <3>3, <3>4
            DEF Prep!PlannerTypeOK, Made!StepsInv, Made!Node, Prep!Node
  <2> QED BY <2>1, <2>2 DEF CliTypeOK, Machine, Position
<1> QED BY <1>1, SprovCorrect, PTL

(* A filesystem of the document that loaded is a node of the plan. *)
LEMMA EntryInPlan ==
  ASSUME Known, stage = "ready", plan = Prep!PlanOf(nodes, ordered),
         doc \in Documents, NEW k \in DOMAIN doc.entries,
         doc.entries[k].type = "filesystem"
  PROVE  \E j \in DOMAIN plan :
           /\ plan[j].kind = "filesystem"
           /\ plan[j].ignore = doc.entries[k].ignore
           /\ plan[j].path = Prep!Normalized(doc.entries[k].path)
<1>1. PICK n \in 1..NodeCount :
        /\ nodes[n].kind = doc.entries[k].type
        /\ nodes[n].ignore = doc.entries[k].ignore
        /\ nodes[n].path = doc.entries[k].path
  BY LoadedNodes DEF Known, Kind
<1>2. Made!PlanInv
  BY DEF Known
<1>3. \E moved \in [1..NodeCount -> 1..NodeCount] : Made!MovedBy(moved)
  BY <1>2, MadeAssumptions, Made!ReadyPlan
  DEF Made!TopoAssumption, Made!PlannerAssumption
<1>4. PICK j \in 1..NodeCount : ordered[j] = n
  BY <1>3 DEF Made!MovedBy, Made!Node
<1>5. /\ DOMAIN Made!PlanOf(nodes, ordered) = 1..NodeCount
      /\ Made!PlanOf(nodes, ordered)[j].kind = nodes[n].kind
      /\ Made!PlanOf(nodes, ordered)[j].ignore = nodes[n].ignore
      /\ Made!PlanOf(nodes, ordered)[j].path = Made!Normalized(nodes[n].path)
  BY <1>2, <1>4, MadeAssumptions, Made!PlanNode
  DEF Made!TopoAssumption, Made!PlannerAssumption
<1>6. plan = Made!PlanOf(nodes, ordered)
  BY SamePlanOf
<1> QED BY <1>1, <1>5, <1>6, SameNormalized

(* README.md:212, for every document, plan and fault: exit status 0 of a   *)
(* call that provisions comes with every filesystem of the document, but   *)
(* those that ignore errors, mounted where the document says.              *)
THEOREM StatusZeroMeansMounted == CliSpec => []StatusZero
<1>1. SprovInv => StatusZero
  <2> SUFFICES ASSUME SprovInv, code = EXIT_SUCCESS, called = "run", ~dry,
                      NEW k \in DOMAIN doc.entries,
                      doc.entries[k].type = "filesystem",
                      ~doc.entries[k].ignore
               PROVE  \E n \in kernel.up :
                        /\ plan[n].kind = "filesystem"
                        /\ plan[n].path = Prep!Normalized(doc.entries[k].path)
    BY DEF StatusZero
  <2>1. exit = "success" /\ doc \in Documents
    BY DEF SprovInv, StateInv, Position
  <2>2. /\ Known /\ SuccessMeansMounted
        /\ stage = "ready" /\ plan = Prep!PlanOf(nodes, ordered)
    BY <2>1 DEF SprovInv, StateInv, Unread, InRun, Repeats, RunInv
  <2>3. PICK j \in DOMAIN plan :
          /\ plan[j].kind = "filesystem"
          /\ plan[j].ignore = doc.entries[k].ignore
          /\ plan[j].path = Prep!Normalized(doc.entries[k].path)
    BY <2>1, <2>2, EntryInPlan
  <2>4. MountedAt(plan, kernel, j) # {}
    BY <2>1, <2>2, <2>3 DEF SuccessMeansMounted, OfKind
  <2> QED BY <2>3, <2>4 DEF MountedAt
<1> QED BY <1>1, SprovCorrect, PTL

(* main.py: no step of any call changes the machine but one of a call that *)
(* is to provision, is no dry run, and has a plan that passed validation.  *)
THEOREM ValidatedFirst == CliSpec => ValidFirst
<1>1. SprovInv /\ [CliNext]_cliVars =>
        [kernel' # kernel /\ code' # Killed =>
           called = "run" /\ ~dry /\ plan \in Plans]_cliVars
  <2> SUFFICES ASSUME SprovInv, CliNext, kernel' # kernel, code' # Killed
               PROVE  called = "run" /\ ~dry /\ plan \in Plans
    BY DEF cliVars, vars
  <2>1. PreflightStep \/ RunStep
    BY DEF CliNext, MainNext, ParseArgs, Load, PrepareStep, PrepareFailed,
           TakePlan, EmitScript, TakePlanAgain, Kill, End, Again, vars
  <2>2. main \in {"preflight", "run"} /\ called = "run" /\ plan \in Plans
    BY <2>1
    DEF PreflightStep, RunStep, SprovInv, StateInv, Position, InRun, RunInv,
        TypeOK
  <2>3. ~dry
    BY <2>1, DryStep DEF PreflightStep, RunStep, Process
  <2> QED BY <2>2, <2>3
<1> QED BY <1>1, SprovCorrect, PTL DEF CliSpec, ValidFirst

(* executor.py run: the second prepare() of a call, on nodes that the      *)
(* first has linked and numbered, changes neither, does not fail, and      *)
(* comes to the same plan.                                                 *)
THEOREM SecondPrepareAgrees == CliSpec => SamePlan
<1>1. SprovInv /\ [CliNext]_cliVars =>
        [main = "again" /\ code' # Killed =>
           /\ linked' = linked /\ index' = index
           /\ main' # "again" => main' = "run" /\ plan' = plan]_cliVars
  <2> SUFFICES ASSUME SprovInv, CliNext, main = "again", code' # Killed
               PROVE  /\ linked' = linked /\ index' = index
                      /\ main' # "again" => main' = "run" /\ plan' = plan
    BY DEF cliVars
  <2>1. Known /\ Made!Used
    BY DEF SprovInv, StateInv, Unread, Repeats
  <2>2. ~PrepareFailed
    BY DEF PrepareFailed, SprovInv, StateInv, Repeats
  <2>3. PrepareStep \/ TakePlanAgain
    BY <2>2 DEF CliNext, MainNext, ParseArgs, Load, TakePlan, EmitScript,
                PreflightStep, RunStep, Kill, End, Again, SprovInv, CliInv
  <2>4. CASE PrepareStep
    BY <2>1, <2>4, UsedStays DEF PrepareStep
  <2>5. CASE TakePlanAgain
    <3>1. plan' = plan
      BY <2>5, SecondPlan DEF SprovInv
    <3> QED BY <2>5, <3>1 DEF TakePlanAgain, prepVars
  <2> QED BY <2>3, <2>4, <2>5
<1> QED BY <1>1, SprovCorrect, PTL DEF CliSpec, SamePlan
=============================================================================
