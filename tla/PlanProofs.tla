----------------------------- MODULE PlanProofs -----------------------------
(***************************************************************************)
(* What a plan is made of, for every prepared plan: which nodes have a     *)
(* device, which nodes a device is built from, and what a live node keeps  *)
(* in use. The recursive functions of StorageNodes and Kernel are reached  *)
(* through the equations they satisfy, which hold because a function with  *)
(* these equations exists: PrefixInduction and Recursion.                  *)
(***************************************************************************)
EXTENDS Kernel, SequenceTheorems, NaturalsInduction, WellFoundedInduction,
        TLAPS

(* Induction along 0..n, on membership of a set. *)
LEMMA PrefixInduction ==
  ASSUME NEW n \in Nat, NEW S, 0 \in S,
         \A k \in 1..n : k - 1 \in S => k \in S
  PROVE  0..n \subseteq S
<1> DEFINE missing == (0..n) \ S
<1> SUFFICES ASSUME missing # {} PROVE FALSE
  OBVIOUS
<1>1. PICK m \in missing : \A k \in missing : <<k, m>> \notin OpToRel(<, Nat)
  <2>1. missing \subseteq Nat
    OBVIOUS
  <2>2. IsWellFoundedOn(OpToRel(<, Nat), Nat)
    BY NatLessThanWellFounded
  <2> HIDE DEF missing
  <2> QED BY <2>1, <2>2, WFMin
<1>2. m \in 1..n
  OBVIOUS
<1>3. m - 1 \in 0..n /\ <<m - 1, m>> \in OpToRel(<, Nat)
  BY <1>2 DEF OpToRel
<1>4. m - 1 \in S
  BY <1>1, <1>3
<1> QED BY <1>2, <1>4

(* A function on 1..n is defined by recursion when its value at m depends  *)
(* on its values below m only.                                             *)
LooksBelow(step, n, V) ==
  \A m \in 1..n : \A f, g \in [1..n -> V] :
    (\A i \in 1..(m - 1) : f[i] = g[i]) => step[m][f] = step[m][g]

Obeys(f, step, n) == \A m \in 1..n : f[m] = step[m][f]

LEMMA Recursion ==
  ASSUME NEW n \in Nat, NEW V, NEW v \in V,
         NEW step \in [1..n -> [[1..n -> V] -> V]], LooksBelow(step, n, V)
  PROVE  \E f \in [1..n -> V] : Obeys(f, step, n)
<1> DEFINE possible == {m \in 0..n : \E f \in [1..n -> V] : Obeys(f, step, m)}
<1>1. 0 \in possible
  <2> DEFINE f == [i \in 1..n |-> v]
  <2>1. f \in [1..n -> V] /\ Obeys(f, step, 0)
    BY DEF Obeys
  <2> HIDE DEF f
  <2> QED BY <2>1
<1>2. ASSUME NEW m \in 1..n, m - 1 \in possible
      PROVE  m \in possible
  <2>1. PICK f \in [1..n -> V] : Obeys(f, step, m - 1)
    BY <1>2
  <2> DEFINE g == [f EXCEPT ![m] = step[m][f]]
  <2>2. g \in [1..n -> V]
    OBVIOUS
  <2>3. ASSUME NEW i \in 1..m
        PROVE  g[i] = step[i][g]
    <3>1. i \in 1..n /\ \A h \in 1..(i - 1) : h \in 1..n /\ f[h] = g[h]
      OBVIOUS
    <3>2. step[i][f] = step[i][g]
      <4> HIDE DEF g
      <4> QED BY <2>2, <3>1 DEF LooksBelow
    <3>3. g[i] = step[i][f]
      BY <2>1, <3>1 DEF Obeys
    <3> QED BY <3>2, <3>3
  <2>4. Obeys(g, step, m)
    BY <2>3 DEF Obeys
  <2> HIDE DEF g
  <2> QED BY <2>2, <2>4
<1>3. \A m \in 0..n : m \in possible
  <2> HIDE DEF possible
  <2> QED BY <1>1, <1>2, PrefixInduction
<1> QED BY <1>3

LEMMA NodeTyped ==
  ASSUME NEW p, p \in Seq(NodeRecord(DOMAIN p)), NEW n \in DOMAIN p
  PROVE  /\ p[n] \in NodeRecord(DOMAIN p)
         /\ p[n].path \in Seq(STRING) /\ p[n].parents \in Seq(DOMAIN p)
         /\ p[n].ignore \in BOOLEAN /\ p[n].kind \in Kind
<1>1. p[n] \in NodeRecord(DOMAIN p)
  OBVIOUS
<1> QED BY <1>1 DEF NodeRecord

(* base.py device_path(): HasDevice is what its recursion says. *)
LEMMA HasDeviceIs ==
  ASSUME NEW p, p \in Seq(NodeRecord(DOMAIN p)), NEW n \in DOMAIN p
  PROVE  HasDevice(p)[n] <=>
           \/ p[n].kind \in {"hardware", "raid1", "dm-crypt-luks", "lvm-lv"}
           \/ /\ p[n].kind \in {"partition", "lvm-pv"}
              /\ OneParent(p[n]) /\ p[n].parents[1] < n
              /\ HasDevice(p)[p[n].parents[1]]
<1> DEFINE len == Len(p)
           Leans(m) == OneParent(p[m]) /\ p[m].parents[1] < m
           Rule(device, m) ==
             \/ p[m].kind \in {"hardware", "raid1", "dm-crypt-luks", "lvm-lv"}
             \/ /\ p[m].kind \in {"partition", "lvm-pv"}
                /\ OneParent(p[m]) /\ p[m].parents[1] < m
                /\ device[p[m].parents[1]]
           Body(device) == [m \in DOMAIN p |-> Rule(device, m)]
           step(B) == [m \in 1..len |-> [f \in [1..len -> B] |-> Rule(f, m)]]
<1>1. len \in Nat /\ DOMAIN p = 1..len
  OBVIOUS
<1>2. ASSUME NEW m \in 1..len, Leans(m)
      PROVE  p[m].parents[1] \in 1..(m - 1)
  <2>1. p[m] \in NodeRecord(DOMAIN p)
    BY <1>1
  <2>2. p[m].parents \in Seq(DOMAIN p) /\ Len(p[m].parents) = 1
    BY <1>2, <2>1 DEF NodeRecord, OneParent
  <2> QED BY <1>1, <1>2, <2>2
<1>3. PICK B : B = BOOLEAN
  OBVIOUS
<1>4. step(B) \in [1..len -> [[1..len -> B] -> B]]
  <2>1. \A m \in 1..len : \A f \in [1..len -> B] : Rule(f, m) \in B
    BY <1>3
  <2> HIDE DEF Rule
  <2> QED BY <2>1
<1>5. ASSUME NEW m \in 1..len, NEW f \in [1..len -> B],
             NEW g \in [1..len -> B], \A i \in 1..(m - 1) : f[i] = g[i]
      PROVE  step(B)[m][f] = step(B)[m][g]
  <2>1. Leans(m) => f[p[m].parents[1]] = g[p[m].parents[1]]
    BY <1>2, <1>5
  <2>2. Rule(f, m) = Rule(g, m)
    BY <2>1
  <2> HIDE DEF Rule
  <2> QED BY <2>2
<1>6. PICK f \in [1..len -> B] : Obeys(f, step(B), len)
  <2> HIDE DEF step, len
  <2>1. TRUE \in B
    BY <1>3
  <2>2. PICK s \in [1..len -> [[1..len -> B] -> B]] : s = step(B)
    BY <1>4
  <2>3. LooksBelow(s, len, B)
    BY <1>5, <2>2 DEF LooksBelow
  <2> QED BY <1>1, <2>1, <2>2, <2>3, Recursion
<1>7. f = Body(f)
  <2>1. \A m \in 1..len : f[m] = Rule(f, m)
    <3> HIDE DEF Rule
    <3> QED BY <1>6 DEF Obeys
  <2> HIDE DEF Rule
  <2> QED BY <1>1, <2>1
<1> DEFINE chosen == CHOOSE device : device = Body(device)
<1>8. chosen = Body(chosen)
  <2> HIDE DEF Body
  <2> QED BY <1>7
<1>9. HasDevice(p) = chosen
  BY Zenon DEF HasDevice
<1>10. chosen[n] = Rule(chosen, n)
  <2>1. Body(chosen)[n] = Rule(chosen, n)
    <3> HIDE DEF Rule, chosen
    <3> QED OBVIOUS
  <2> HIDE DEF Body, chosen, Rule
  <2> QED BY <1>8, <2>1
<1> HIDE DEF chosen
<1> QED BY <1>9, <1>10

(* command_lines(): a parent without a device path makes a node fail, and  *)
(* filesystems have none.                                                  *)
LEMMA MountHasNoDevice ==
  ASSUME NEW p, p \in Seq(NodeRecord(DOMAIN p)), NEW n \in DOMAIN p,
         p[n].kind \in {"filesystem", "swap", "lvm-vg"} \cup Fence
  PROVE  ~HasDevice(p)[n]
BY HasDeviceIs DEF Fence
-----------------------------------------------------------------------------
(* The parents a node is built from. *)
Below(p, n) == {q \in ParentsOf(p[n]) : q < n}

LEMMA BelowIsBelow ==
  ASSUME NEW p, p \in Seq(NodeRecord(DOMAIN p)), NEW n \in DOMAIN p
  PROVE  Below(p, n) \subseteq 1..(n - 1)
<1>1. p[n] \in NodeRecord(DOMAIN p) /\ n \in Nat /\ DOMAIN p = 1..Len(p)
  OBVIOUS
<1>2. p[n].parents \in Seq(DOMAIN p)
  BY <1>1 DEF NodeRecord
<1>3. ParentsOf(p[n]) \subseteq 1..Len(p)
  BY <1>1, <1>2 DEF ParentsOf
<1> QED BY <1>1, <1>3 DEF Below

(* A node's devices are its parents and theirs. *)
LEMMA DevicesAre ==
  ASSUME NEW p, p \in Seq(NodeRecord(DOMAIN p)), NEW n \in DOMAIN p
  PROVE  /\ Devices(p)[n] = Below(p, n) \cup UNION {Devices(p)[q] : q \in Below(p, n)}
         /\ Devices(p)[n] \subseteq DOMAIN p
<1> DEFINE len == Len(p)
           Rule(devices, m) ==
             LET below == {q \in ParentsOf(p[m]) : q < m}
             IN  below \cup UNION {devices[q] : q \in below}
           Body(devices) == [m \in DOMAIN p |-> Rule(devices, m)]
           step(B) == [m \in 1..len |-> [f \in [1..len -> B] |-> Rule(f, m)]]
<1>1. len \in Nat /\ DOMAIN p = 1..len
  OBVIOUS
<1>2. \A m \in 1..len : Below(p, m) \subseteq 1..(m - 1) /\ Below(p, m) \subseteq 1..len
  BY <1>1, BelowIsBelow
<1>r. ASSUME NEW f, NEW m
      PROVE  Rule(f, m) = Below(p, m) \cup UNION {f[q] : q \in Below(p, m)}
  BY DEF Below
<1> HIDE DEF Rule
<1>3. PICK B : B = SUBSET (1..len)
  OBVIOUS
<1>4. step(B) \in [1..len -> [[1..len -> B] -> B]]
  <2>1. \A m \in 1..len : \A f \in [1..len -> B] : Rule(f, m) \in B
    BY <1>2, <1>3, <1>r
  <2> QED BY <2>1
<1>5. ASSUME NEW m \in 1..len, NEW f \in [1..len -> B],
             NEW g \in [1..len -> B], \A i \in 1..(m - 1) : f[i] = g[i]
      PROVE  step(B)[m][f] = step(B)[m][g]
  <2>1. {f[q] : q \in Below(p, m)} = {g[q] : q \in Below(p, m)}
    BY <1>2, <1>5
  <2>2. Rule(f, m) = Rule(g, m)
    BY <1>r, <2>1
  <2> QED BY <2>2
<1>6. PICK f \in [1..len -> B] : Obeys(f, step(B), len)
  <2> HIDE DEF step, len
  <2>1. {} \in B
    BY <1>3
  <2>2. PICK s \in [1..len -> [[1..len -> B] -> B]] : s = step(B)
    BY <1>4
  <2>3. LooksBelow(s, len, B)
    BY <1>5, <2>2 DEF LooksBelow
  <2> QED BY <1>1, <2>1, <2>2, <2>3, Recursion
<1>7. f = Body(f)
  <2>1. \A m \in 1..len : f[m] = Rule(f, m)
    BY <1>6 DEF Obeys
  <2> QED BY <1>1, <2>1
<1> DEFINE chosen == CHOOSE devices : devices = Body(devices)
<1>8. chosen = Body(chosen)
  <2> HIDE DEF Body
  <2> QED BY <1>7
<1>9. Devices(p) = chosen
  BY Zenon DEF Devices, Rule
<1>10. \A m \in 1..len : chosen[m] = Rule(chosen, m)
  <2>1. \A m \in 1..len : Body(chosen)[m] = Rule(chosen, m)
    <3> HIDE DEF chosen
    <3> QED BY <1>1
  <2> HIDE DEF Body, chosen
  <2> QED BY <1>8, <2>1
<1> HIDE DEF chosen
<1>11. \A m \in 1..len : chosen[m] = Below(p, m) \cup UNION {chosen[q] : q \in Below(p, m)}
  BY <1>10, <1>r
<1>12. \A m \in 0..len : \A i \in 1..m : chosen[i] \subseteq 1..len
  <2> DEFINE typed == {m \in 0..len : \A i \in 1..m : chosen[i] \subseteq 1..len}
  <2>1. 0 \in typed
    BY <1>1
  <2>2. ASSUME NEW m \in 1..len, m - 1 \in typed PROVE m \in typed
    <3>1. \A q \in Below(p, m) : q \in 1..len /\ chosen[q] \subseteq 1..len
      BY <1>2, <2>2
    <3>2. chosen[m] \subseteq 1..len
      BY <1>11, <3>1
    <3>3. \A i \in 1..m : i = m \/ i \in 1..(m - 1)
      BY <1>1
    <3> QED BY <2>2, <3>2, <3>3
  <2>3. \A m \in 0..len : m \in typed
    <3> HIDE DEF typed
    <3> QED BY <1>1, <2>1, <2>2, PrefixInduction
  <2> QED BY <2>3
<1>13. n \in 1..len /\ n \in 0..len
  BY <1>1
<1> QED BY <1>1, <1>9, <1>11, <1>12, <1>13

(* A device is made of nodes before it, and of all that they are made of. *)
LEMMA DevicesOrdered ==
  ASSUME NEW p, p \in Seq(NodeRecord(DOMAIN p)), NEW n \in DOMAIN p
  PROVE  /\ Devices(p)[n] \subseteq 1..(n - 1)
         /\ \A m \in Devices(p)[n] : Devices(p)[m] \subseteq Devices(p)[n]
<1> DEFINE len == Len(p)
           D(i) == Devices(p)[i]
           Ordered(i) == /\ D(i) \subseteq 1..(i - 1)
                         /\ \A m \in D(i) : D(m) \subseteq D(i)
           shown == {m \in 0..len : \A i \in 1..m : Ordered(i)}
<1>1. len \in Nat /\ DOMAIN p = 1..len /\ n \in 1..len
  OBVIOUS
<1>2. \A i \in 1..len : /\ D(i) = Below(p, i) \cup UNION {D(q) : q \in Below(p, i)}
                        /\ Below(p, i) \subseteq 1..(i - 1)
  BY <1>1, DevicesAre, BelowIsBelow
<1> HIDE DEF D
<1>3. 0 \in shown
  BY <1>1
<1>4. ASSUME NEW m \in 1..len, m - 1 \in shown PROVE m \in shown
  <2>1. \A i \in 1..(m - 1) : Ordered(i)
    BY <1>4
  <2>2. D(m) \subseteq 1..(m - 1)
    <3>1. \A q \in Below(p, m) : q \in 1..(m - 1) /\ D(q) \subseteq 1..(q - 1)
      BY <1>2, <2>1
    <3>2. \A q \in Below(p, m) : D(q) \subseteq 1..(m - 1)
      BY <3>1
    <3> QED BY <1>2, <3>1, <3>2
  <2>3. ASSUME NEW i \in D(m) PROVE D(i) \subseteq D(m)
    <3>1. CASE i \in Below(p, m)
      BY <1>2, <3>1
    <3>2. CASE i \notin Below(p, m)
      <4>1. PICK q \in Below(p, m) : i \in D(q)
        BY <1>2, <2>3, <3>2
      <4>2. D(i) \subseteq D(q) /\ D(q) \subseteq D(m)
        BY <1>2, <2>1, <4>1
      <4> QED BY <4>2
    <3> QED BY <3>1, <3>2
  <2>4. \A i \in 1..m : i = m \/ i \in 1..(m - 1)
    BY <1>1
  <2>5. Ordered(m)
    BY <2>2, <2>3
  <2> HIDE DEF Ordered
  <2> QED BY <2>1, <2>4, <2>5
<1>5. \A m \in 0..len : m \in shown
  <2> HIDE DEF shown
  <2> QED BY <1>1, <1>3, <1>4, PrefixInduction
<1> QED BY <1>1, <1>5 DEF D

(* No filesystem is part of a device that has been resolved: filesystems   *)
(* come last in a plan, and what asks one for a device fails.              *)
LEMMA NoMountInDevices ==
  ASSUME NEW p, Prepared(p), NEW n \in DOMAIN p, ~Unresolved(p, n),
         NEW m \in Devices(p)[n]
  PROVE  p[m].kind # "filesystem"
<1>1. /\ p \in Seq(NodeRecord(DOMAIN p))
      /\ \A i, j \in DOMAIN p : i < j /\ p[i].kind = "filesystem" =>
           p[j].kind = "filesystem"
  BY DEF Prepared
<1>2. /\ Devices(p)[n] = Below(p, n) \cup UNION {Devices(p)[q] : q \in Below(p, n)}
      /\ Devices(p)[n] \subseteq 1..(n - 1) /\ DOMAIN p = 1..Len(p) /\ Len(p) \in Nat
  BY <1>1, DevicesAre, DevicesOrdered
<1> SUFFICES ASSUME p[m].kind = "filesystem" PROVE FALSE
  OBVIOUS
<1>3. m \in DOMAIN p /\ m < n
  BY <1>2
<1>4. p[n].kind = "filesystem"
  BY <1>1, <1>3
<1>5. \A q \in Below(p, n) : q \in DOMAIN p /\ p[q].kind # "filesystem"
  <2>1. \A q \in Below(p, n) : q \in DOMAIN p /\ HasDevice(p)[q]
    BY <1>1, <1>2, <1>4, BelowIsBelow DEF Unresolved, Fence, Below
  <2> QED BY <1>1, <2>1, MountHasNoDevice
<1>6. PICK q \in Below(p, n) : m \in Devices(p)[q]
  BY <1>2, <1>3, <1>5
<1>7. m < q
  <2>1. Devices(p)[q] \subseteq 1..(q - 1) /\ q \in Nat
    BY <1>1, <1>2, <1>5, <1>6, DevicesOrdered
  <2> QED BY <1>6, <2>1
<1> QED BY <1>1, <1>3, <1>5, <1>6, <1>7

(* A path is inside another when it has its components first. *)
LEMMA PrefixMeans ==
  ASSUME NEW T, NEW s \in Seq(T), NEW t \in Seq(T)
  PROVE  IsPrefix(s, t) <=>
           Len(s) <= Len(t) /\ \A i \in 1..Len(s) : s[i] = t[i]
<1>1. Len(s) \in Nat /\ Len(t) \in Nat
  OBVIOUS
<1>2. SubSeq(s, 1, Len(s)) = [i \in 1..Len(s) |-> s[i]]
  OBVIOUS
<1>3. ASSUME Len(s) <= Len(t)
      PROVE  SubSeq(t, 1, Len(s)) = [i \in 1..Len(s) |-> t[i]]
  OBVIOUS
<1>4. ASSUME Len(s) <= Len(t)
      PROVE  SubSeq(s, 1, Len(s)) = SubSeq(t, 1, Len(s))
               <=> \A i \in 1..Len(s) : s[i] = t[i]
  BY <1>2, <1>3, <1>4
<1> QED BY <1>1, <1>4 DEF IsPrefix

(* Nodes up to here have been resolved, as those that have been entered. *)
ResolvedTo(p, n) == \A q \in 1..n : ~Unresolved(p, q)

(* What a node keeps in use is before it in the plan, together with what   *)
(* that keeps in use.                                                      *)
LEMMA BeneathOrdered ==
  ASSUME NEW p, Prepared(p), NEW n \in DOMAIN p
  PROVE  /\ Beneath(p, n) \subseteq 1..(n - 1)
         /\ Beneath(p, n) = Devices(p)[n] \cup
              UNION {{g} \cup Devices(p)[g] : g \in Enclosing(p, n)}
         /\ ResolvedTo(p, n) =>
              \A m \in Beneath(p, n) : Beneath(p, m) \subseteq Beneath(p, n)
<1>1. p \in Seq(NodeRecord(DOMAIN p)) /\ DOMAIN p = 1..Len(p) /\ Len(p) \in Nat
  BY DEF Prepared
<1> DEFINE D(i) == Devices(p)[i]
           Rests(i) == D(i) \cup UNION {{g} \cup D(g) : g \in Enclosing(p, i)}
<1>2. \A i \in DOMAIN p : /\ D(i) \subseteq 1..(i - 1)
                          /\ \A m \in D(i) : D(m) \subseteq D(i)
                          /\ Enclosing(p, i) \subseteq 1..(i - 1)
  BY <1>1, DevicesOrdered DEF Enclosing
<1> HIDE DEF D
<1>3. ASSUME NEW i \in DOMAIN p
      PROVE  Beneath(p, i) = Rests(i) /\ Rests(i) \subseteq 1..(i - 1)
  <2>1. \A g \in Enclosing(p, i) : /\ g \in 1..(i - 1) /\ g \in DOMAIN p
                                   /\ D(g) \subseteq 1..(g - 1)
    BY <1>1, <1>2
  <2>2. \A g \in Enclosing(p, i) : {g} \cup D(g) \subseteq 1..(i - 1)
    BY <1>1, <2>1
  <2>3. Rests(i) \subseteq 1..(i - 1)
    BY <1>2, <2>2
  <2>4. i \notin Rests(i)
    <3> HIDE DEF Rests
    <3> QED BY <1>1, <2>3
  <2>5. Beneath(p, i) = ({i} \cup Rests(i)) \ {i}
    BY DEF Beneath, D
  <2> HIDE DEF Rests
  <2> QED BY <2>3, <2>4, <2>5
<1>4. ASSUME ResolvedTo(p, n), NEW m \in Rests(n)
      PROVE  Rests(m) \subseteq Rests(n)
  <2>1. PICK g \in {n} \cup Enclosing(p, n) : (m = g /\ g # n) \/ m \in D(g)
    BY <1>2
  <2>2. g \in DOMAIN p /\ ~Unresolved(p, g) /\ D(g) \subseteq Rests(n)
    <3>1. g \in DOMAIN p /\ g \in 1..n
      BY <1>1, <1>2, <2>1
    <3> QED BY <1>4, <3>1 DEF ResolvedTo
  <2>3. CASE m \in D(g)
    <3>1. m \in DOMAIN p /\ p[m].kind # "filesystem"
      BY <1>1, <1>2, <2>2, <2>3, NoMountInDevices DEF D
    <3>2. Enclosing(p, m) = {}
      BY <3>1 DEF Enclosing
    <3>3. Rests(m) = D(m)
      BY <3>2
    <3> QED BY <1>2, <2>2, <2>3, <3>3
  <2>4. CASE m = g /\ g # n
    <3>1. g \in Enclosing(p, n)
      BY <2>1, <2>4
    <3>2. Enclosing(p, g) \subseteq Enclosing(p, n)
      <4> SUFFICES ASSUME NEW h \in Enclosing(p, g) PROVE h \in Enclosing(p, n)
        OBVIOUS
      <4>1. /\ h \in 1..(n - 1) /\ h \in DOMAIN p
            /\ p[h].kind = "filesystem" /\ p[n].kind = "filesystem"
            /\ IsPrefix(p[h].path, p[g].path) /\ IsPrefix(p[g].path, p[n].path)
        BY <1>1, <3>1 DEF Enclosing
      <4>2. \A i \in DOMAIN p : p[i].path \in Seq(STRING)
        BY <1>1, NodeTyped
      <4>3. PICK T : T = STRING
        OBVIOUS
      <4>4. /\ p[h].path \in Seq(T) /\ p[g].path \in Seq(T) /\ p[n].path \in Seq(T)
        BY <2>2, <4>1, <4>2, <4>3
      <4>5. IsPrefix(p[h].path, p[n].path)
        BY <4>1, <4>4, PrefixMeans
      <4> QED BY <4>1, <4>5 DEF Enclosing
    <3>3. D(g) \subseteq Rests(n)
      BY <2>2
    <3> QED BY <2>4, <3>2, <3>3
  <2> QED BY <2>1, <2>3, <2>4
<1>5. \A m \in Rests(n) : m \in DOMAIN p
  BY <1>1, <1>3
<1> QED BY <1>3, <1>4, <1>5 DEF D
=============================================================================
