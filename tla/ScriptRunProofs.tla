-------------------------- MODULE ScriptRunProofs --------------------------
(***************************************************************************)
(* The generated script beside the live run, for every set of prepared     *)
(* plans, every choice of options and every fault. What joins the two is   *)
(* that the line the shell is at is the number of commands the live run    *)
(* has started, plus one: NodeAt and CheckAt say at which line a node's    *)
(* commands and its verification begin.                                    *)
(***************************************************************************)
EXTENDS ScriptRun, ProvisionerProofs, PlanProofs

(* How many elements of FlattenSeq(s) come before those of s[i].           *)
IsOffset(s, off) ==
  /\ off \in [1..(Len(s) + 1) -> Nat]
  /\ off[1] = 0
  /\ \A i \in 1..Len(s) : off[i + 1] = off[i] + Len(s[i])

Offset(s) == CHOOSE off : IsOffset(s, off)

(* f is the elements of s, one after the other. *)
IsFlat(s, off, f) ==
  /\ Len(f) = off[Len(s) + 1]
  /\ \A i \in 1..Len(s) : \A k \in 1..Len(s[i]) :
       off[i] + k \in 1..Len(f) /\ f[off[i] + k] = s[i][k]

(* There is one such function. *)
LEMMA OffsetUnique ==
  ASSUME NEW s, Len(s) \in Nat, \A i \in 1..Len(s) : Len(s[i]) \in Nat,
         NEW f, NEW g, IsOffset(s, f), IsOffset(s, g)
  PROVE  f = g
<1> DEFINE same == {m \in 0..Len(s) : f[m + 1] = g[m + 1]}
<1>1. 0 \in same
  BY DEF IsOffset
<1>2. ASSUME NEW m \in 1..Len(s), m - 1 \in same PROVE m \in same
  BY <1>2 DEF IsOffset
<1>3. 0..Len(s) \subseteq same
  <2> HIDE DEF same
  <2> QED BY <1>1, <1>2, PrefixInduction
<1>4. \A i \in 1..(Len(s) + 1) : f[i] = g[i]
  <2> TAKE i \in 1..(Len(s) + 1)
  <2>1. i - 1 \in 0..Len(s) /\ (i - 1) + 1 = i
    OBVIOUS
  <2>2. i - 1 \in same
    BY <1>3, <2>1
  <2> QED BY <2>1, <2>2
<1> QED BY <1>4 DEF IsOffset

(* The elements of a concatenation. *)
LEMMA Concatenated ==
  ASSUME NEW T, NEW a \in Seq(T), NEW b \in Seq(T), NEW c, c = a \o b
  PROVE  /\ Len(c) = Len(a) + Len(b) /\ Len(a) \in Nat /\ Len(b) \in Nat
         /\ \A k \in 1..Len(a) : c[k] = a[k]
         /\ \A k \in 1..Len(b) : c[Len(a) + k] = b[k]
OBVIOUS

(* FlattenSeq of SequencesExt, which is defined by recursion. *)
LEMMA Flattened ==
  ASSUME NEW T, NEW s \in Seq(Seq(T))
  PROVE  /\ FlattenSeq(s) \in Seq(T)
         /\ IsOffset(s, Offset(s))
         /\ IsFlat(s, Offset(s), FlattenSeq(s))
<1> DEFINE len == Len(s)
           Rule(f, m) == IF m = 1 THEN s[m] ELSE f[m - 1] \o s[m]
           Body(f) == [m \in 1..len |-> Rule(f, m)]
           Turn(B) == [m \in 1..len |-> [f \in [1..len -> B] |-> Rule(f, m)]]
<1>1. PICK B : B = Seq(T)
  OBVIOUS
<1>2. /\ len \in Nat /\ DOMAIN s = 1..len
      /\ \A i \in 1..len : s[i] \in B /\ Len(s[i]) \in Nat
  BY <1>1
<1>3. \A a, b \in B : a \o b \in B
  BY <1>1
<1>4. Turn(B) \in [1..len -> [[1..len -> B] -> B]]
  <2>1. ASSUME NEW m \in 1..len, NEW f \in [1..len -> B] PROVE Rule(f, m) \in B
    <3>1. CASE m = 1 BY <1>2, <3>1
    <3>2. CASE m # 1
      <4>1. m - 1 \in 1..len
        BY <1>2, <3>2
      <4> QED BY <1>2, <1>3, <3>2, <4>1
    <3> QED BY <3>1, <3>2
  <2> HIDE DEF Rule, len
  <2> QED BY <2>1
<1>5. ASSUME NEW m \in 1..len, NEW f \in [1..len -> B],
             NEW g \in [1..len -> B], \A i \in 1..(m - 1) : f[i] = g[i]
      PROVE  Turn(B)[m][f] = Turn(B)[m][g]
  <2>1. m = 1 \/ m - 1 \in 1..(m - 1)
    BY <1>2
  <2>2. Rule(f, m) = Rule(g, m)
    BY <1>5, <2>1
  <2> HIDE DEF Rule, len
  <2> QED BY <2>2
<1>6. CASE len = 0
  <2>1. s = <<>>
    BY <1>6
  <2>2. FlattenSeq(s) = <<>>
    BY <1>6, <2>1 DEF FlattenSeq
  <2>3. IsOffset(s, [i \in 1..1 |-> 0])
    BY <1>6 DEF IsOffset
  <2>4. IsOffset(s, Offset(s))
    BY <2>3 DEF Offset
  <2>5. IsFlat(s, Offset(s), FlattenSeq(s))
    BY <1>6, <2>2, <2>4 DEF IsFlat, IsOffset
  <2> QED BY <2>2, <2>4, <2>5
<1>7. CASE len # 0
  <2>1. PICK f \in [1..len -> B] : Obeys(f, Turn(B), len)
    <3> HIDE DEF Turn, len
    <3>1. s[1] \in B
      BY <1>2, <1>7
    <3>2. PICK t \in [1..len -> [[1..len -> B] -> B]] : t = Turn(B)
      BY <1>4
    <3>3. LooksBelow(t, len, B)
      BY <1>5, <3>2 DEF LooksBelow
    <3> QED BY <1>2, <3>1, <3>2, <3>3, Recursion
  <2>2. f = Body(f)
    <3>1. \A m \in 1..len : f[m] = Rule(f, m)
      BY <2>1 DEF Obeys
    <3> HIDE DEF Rule, len
    <3> QED BY <3>1
  <2> DEFINE chosen == CHOOSE g : g = Body(g)
  <2>3. chosen = Body(chosen)
    <3> HIDE DEF Body
    <3> QED BY <2>2
  <2>4. FlattenSeq(s) = chosen[len]
    BY <1>7, Zenon DEF FlattenSeq
  <2>5. \A m \in 1..len : chosen[m] = Rule(chosen, m)
    <3>1. \A m \in 1..len : Body(chosen)[m] = Rule(chosen, m)
      <4> HIDE DEF chosen, Rule, len
      <4> QED OBVIOUS
    <3> HIDE DEF Body, chosen, Rule
    <3> QED BY <2>3, <3>1
  <2> HIDE DEF chosen, Body, Turn
  <2>6. \A m \in 1..len : m # 1 => m - 1 \in 1..len
    BY <1>2
  <2>7. \A m \in 1..len : chosen[m] \in B
    <3> DEFINE typed == {m \in 0..len : m = 0 \/ chosen[m] \in B}
    <3>1. 0 \in typed
      BY <1>2
    <3>2. ASSUME NEW m \in 1..len, m - 1 \in typed PROVE m \in typed
      <4>1. CASE m = 1 BY <1>2, <2>5, <4>1
      <4>2. CASE m # 1
        <5>1. chosen[m - 1] \in B
          BY <1>2, <3>2, <4>2
        <5>2. chosen[m] = chosen[m - 1] \o s[m]
          BY <2>5, <4>2
        <5>3. chosen[m] \in B
          BY <1>2, <1>3, <5>1, <5>2
        <5> QED BY <1>2, <5>3
      <4> QED BY <4>1, <4>2
    <3>3. 0..len \subseteq typed
      <4> HIDE DEF typed, len
      <4> QED BY <1>2, <3>1, <3>2, PrefixInduction
    <3> QED BY <1>2, <3>3
  <2> DEFINE off == [i \in 1..(len + 1) |-> IF i = 1 THEN 0 ELSE Len(chosen[i - 1])]
  <2>8. \A m \in 1..len : Len(chosen[m]) \in Nat
    BY <1>1, <2>7
  <2>9. IsOffset(s, off)
    <3>1. off \in [1..(len + 1) -> Nat]
      BY <1>2, <2>8
    <3>2. ASSUME NEW i \in 1..len PROVE off[i + 1] = off[i] + Len(s[i])
      <4>1. off[i + 1] = Len(chosen[i])
        BY <1>2
      <4>2. CASE i = 1 BY <1>2, <2>5, <4>1, <4>2
      <4>3. CASE i # 1
        <5>0. off[i] = Len(chosen[i - 1])
          BY <1>2, <4>3
        <5>1. chosen[i] = chosen[i - 1] \o s[i] /\ off[i] = Len(chosen[i - 1])
          BY <2>5, <4>3, <5>0
        <5>2. chosen[i - 1] \in Seq(T) /\ s[i] \in Seq(T)
          BY <1>1, <1>2, <2>6, <2>7, <4>3
        <5>3. Len(chosen[i]) = Len(chosen[i - 1]) + Len(s[i])
          BY <5>1, <5>2
        <5> QED BY <4>1, <5>1, <5>3
      <4> QED BY <4>2, <4>3
    <3>3. off[1] = 0
      BY <1>2
    <3> HIDE DEF off
    <3> QED BY <3>1, <3>2, <3>3 DEF IsOffset
  <2>10. Offset(s) = off /\ IsOffset(s, Offset(s))
    <3> HIDE DEF off
    <3>1. IsOffset(s, Offset(s))
      BY <2>9 DEF Offset
    <3> QED BY <1>2, <2>9, <3>1, OffsetUnique
  <2>11. \A m \in 0..len : \A i \in 1..m : \A k \in 1..Len(s[i]) :
           off[i] + k \in 1..Len(chosen[m]) /\ chosen[m][off[i] + k] = s[i][k]
    <3> DEFINE Laid(m) == \A i \in 1..m : \A k \in 1..Len(s[i]) :
                 off[i] + k \in 1..Len(chosen[m]) /\ chosen[m][off[i] + k] = s[i][k]
               laid == {m \in 0..len : Laid(m)}
    <3>1. 0 \in laid
      BY <1>2
    <3>2. ASSUME NEW m \in 1..len, m - 1 \in laid PROVE Laid(m)
      <4>1. CASE m = 1
        <5>1. chosen[m] = s[m] /\ off[m] = 0
          BY <1>2, <2>5, <4>1
        <5> QED BY <1>2, <4>1, <5>1
      <4>2. CASE m # 1
        <5>0. off[m] = Len(chosen[m - 1])
          BY <1>2, <4>2
        <5>1. chosen[m] = chosen[m - 1] \o s[m] /\ off[m] = Len(chosen[m - 1])
          BY <2>5, <4>2, <5>0
        <5>2. chosen[m - 1] \in Seq(T) /\ s[m] \in Seq(T)
          BY <1>1, <1>2, <2>6, <2>7, <4>2
        <5> DEFINE a == chosen[m - 1]
                   b == s[m]
                   c == chosen[m]
        <5>3. /\ Len(c) = Len(a) + Len(b) /\ Len(a) \in Nat /\ Len(b) \in Nat
              /\ \A k \in 1..Len(a) : c[k] = a[k]
              /\ \A k \in 1..Len(b) : c[Len(a) + k] = b[k]
          <6>1. a \in Seq(T) /\ b \in Seq(T) /\ c = a \o b
            BY <5>1, <5>2
          <6> HIDE DEF a, b, c
          <6> QED BY <6>1, Concatenated
        <5>4. Laid(m - 1)
          BY <3>2
        <5> HIDE DEF off
        <5>5. ASSUME NEW i \in 1..(m - 1), NEW k \in 1..Len(s[i])
              PROVE  off[i] + k \in 1..Len(c) /\ c[off[i] + k] = s[i][k]
          <6>1. off[i] + k \in 1..Len(a) /\ a[off[i] + k] = s[i][k]
            BY <5>4
          <6> HIDE DEF a, b, c
          <6> QED BY <5>3, <6>1
        <5>6. \A k \in 1..Len(s[m]) :
                off[m] + k \in 1..Len(c) /\ c[off[m] + k] = s[m][k]
          <6> TAKE k \in 1..Len(s[m])
          <6>1. off[m] = Len(a) /\ k \in 1..Len(b) /\ b[k] = s[m][k]
            BY <5>1
          <6> HIDE DEF a, b, c
          <6> QED BY <5>3, <6>1
        <5>7. \A i \in 1..m : i = m \/ i \in 1..(m - 1)
          BY <1>2
        <5> QED BY <5>5, <5>6, <5>7
      <4> QED BY <4>1, <4>2
    <3>3. ASSUME NEW m \in 1..len, m - 1 \in laid PROVE m \in laid
      <4>1. Laid(m)
        BY <3>2, <3>3
      <4>2. m \in 0..len
        BY <1>2
      <4> HIDE DEF Laid, len
      <4> QED BY <4>1, <4>2
    <3>4. 0..len \subseteq laid
      <4> HIDE DEF laid, len
      <4> QED BY <1>2, <3>1, <3>3, PrefixInduction
    <3>5. \A m \in 0..len : Laid(m)
      <4> HIDE DEF Laid, len
      <4> QED BY <3>4
    <3> QED BY <3>5
  <2>12. IsFlat(s, off, chosen[len])
    <3>1. off[len + 1] = Len(chosen[len])
      BY <1>2, <1>7
    <3>2. len \in 0..len
      BY <1>2
    <3> HIDE DEF off
    <3> QED BY <2>11, <3>1, <3>2 DEF IsFlat
  <2>13. FlattenSeq(s) \in Seq(T)
    BY <1>1, <1>2, <1>7, <2>4, <2>7
  <2> HIDE DEF off
  <2> QED BY <2>4, <2>10, <2>12, <2>13
<1> QED BY <1>6, <1>7
-----------------------------------------------------------------------------
(* The lines of the single nodes, and of their verification. *)
NodeLines(p) == [n \in DOMAIN p |-> LinesOf(n, EffectiveLines(p, n))]
CheckLines(p) == [n \in DOMAIN p |-> LinesOf(n, EffectiveVerifyLines(p, n))]

(* How many lines load modules, and how many lines stand before the        *)
(* commands of the n-th node and before its verification.                  *)
Modules(p) == IF p = <<>> THEN 0 ELSE ModprobeCount(p, ControlModules)

NodeAt(p, n) == Modules(p) + Offset(NodeLines(p))[n]

CheckAt(p, n) == NodeAt(p, Len(p) + 1) + Offset(CheckLines(p))[n]

(* What a line of the script may be: it brings something up only for a     *)
(* node that can be live.                                                  *)
ScriptLine(p) ==
  {Line(0, Checked("modprobe"))}
    \cup UNION {{Line(n, cmd) : cmd \in LineOf(OpsOf(p[n].kind))} : n \in DOMAIN p}

(* The lines of a script are those of the live run's commands, in order.   *)
Emitted(p, s) ==
  /\ s \in Seq(ScriptLine(p))
  /\ Len(s) = CheckAt(p, Len(p) + 1)
  /\ \A k \in 1..Modules(p) :
       /\ k \in 1..NodeAt(p, Len(p) + 1) /\ k \in 1..Len(s)
       /\ s[k] = Line(0, Checked("modprobe"))
  /\ \A n \in DOMAIN p : \A k \in DOMAIN EffectiveLines(p, n) :
       /\ NodeAt(p, n) + k \in 1..NodeAt(p, Len(p) + 1)
       /\ NodeAt(p, n) + k \in 1..Len(s)
       /\ s[NodeAt(p, n) + k] = Line(n, EffectiveLines(p, n)[k])
  /\ \A n \in DOMAIN p : \A k \in DOMAIN EffectiveVerifyLines(p, n) :
       /\ CheckAt(p, n) + k \in 1..Len(s)
       /\ s[CheckAt(p, n) + k] = Line(n, EffectiveVerifyLines(p, n)[k])
  /\ \A k \in 1..Len(s) : k > NodeAt(p, Len(p) + 1) => s[k].op = "mountpoint"

(* _apply_ignore() changes nothing but the check flag. *)
LEMMA IgnoreTyped ==
  ASSUME NEW ops, NEW lines \in Seq(LineOf(ops)), NEW node, node.ignore \in BOOLEAN
  PROVE  ApplyIgnore(node, lines) \in Seq(LineOf(ops))
<1>1. PICK S : S = LineOf(ops)
  OBVIOUS
<1>2. \A k \in 1..Len(lines) : lines[k] \in S
  BY <1>1
<1>3. ASSUME NEW line \in S
      PROVE  [line EXCEPT !.check = @ /\ ~node.ignore] \in S
  BY <1>1, <1>3 DEF LineOf
<1>4. DOMAIN lines = 1..Len(lines) /\ Len(lines) \in Nat
  OBVIOUS
<1>5. ApplyIgnore(node, lines)
        = [k \in 1..Len(lines) |-> [lines[k] EXCEPT !.check = @ /\ ~node.ignore]]
  BY <1>4 DEF ApplyIgnore
<1>6. \A k \in 1..Len(lines) : [lines[k] EXCEPT !.check = @ /\ ~node.ignore] \in S
  BY <1>2, <1>3
<1> QED BY <1>1, <1>4, <1>5, <1>6

LEMMA EffectiveTyped ==
  ASSUME NEW p \in Plans, NEW n \in DOMAIN p
  PROVE  /\ EffectiveLines(p, n) \in Seq(LineOf(OpsOf(p[n].kind)))
         /\ EffectiveVerifyLines(p, n) \in Seq(LineOf(OpsOf(p[n].kind)))
         /\ Len(EffectiveVerifyLines(p, n)) <= 1
         /\ \A k \in DOMAIN EffectiveVerifyLines(p, n) :
              EffectiveVerifyLines(p, n)[k].op = "mountpoint"
<1>1. p[n].ignore \in BOOLEAN
  BY PlanShape DEF NodeRecord
<1>2. PICK S : S = LineOf(OpsOf(p[n].kind))
  OBVIOUS
<1>3. Checked("mountpoint") \in S
  BY <1>2 DEF Checked, LineOf, OpsOf, Still
<1>4. VerifyLines(p, n) \in Seq(S) /\ Len(VerifyLines(p, n)) <= 1
  BY <1>3 DEF VerifyLines, When
<1>5. EffectiveLines(p, n) \in Seq(LineOf(OpsOf(p[n].kind)))
  BY <1>1, LinesTyped, IgnoreTyped DEF EffectiveLines
<1>6. EffectiveVerifyLines(p, n) \in Seq(LineOf(OpsOf(p[n].kind)))
  BY <1>1, <1>2, <1>4, IgnoreTyped DEF EffectiveVerifyLines
<1>7. DOMAIN EffectiveVerifyLines(p, n) = DOMAIN VerifyLines(p, n)
  BY DEF EffectiveVerifyLines, ApplyIgnore
<1>8. Len(EffectiveVerifyLines(p, n)) <= 1
  <2>1. PICK a : a = EffectiveVerifyLines(p, n)
    OBVIOUS
  <2>2. PICK b : b = VerifyLines(p, n)
    OBVIOUS
  <2>3. PICK Q : Q = LineOf(OpsOf(p[n].kind))
    OBVIOUS
  <2>4. a \in Seq(Q) /\ b \in Seq(Q) /\ DOMAIN a = DOMAIN b /\ Len(b) <= 1
    BY <1>2, <1>4, <1>6, <1>7, <2>1, <2>2, <2>3
  <2>5. Len(a) = Len(b)
    BY <2>4
  <2> QED BY <2>1, <2>4, <2>5
<1>9. ASSUME NEW k \in DOMAIN VerifyLines(p, n)
      PROVE  EffectiveVerifyLines(p, n)[k].op = "mountpoint"
  <2>1. VerifyLines(p, n)[k] = Checked("mountpoint")
    BY <1>9 DEF VerifyLines, When
  <2>2. EffectiveVerifyLines(p, n)[k]
          = [VerifyLines(p, n)[k] EXCEPT !.check = @ /\ ~p[n].ignore]
    BY <1>9 DEF EffectiveVerifyLines, ApplyIgnore
  <2>3. [Checked("mountpoint") EXCEPT !.check = @ /\ ~p[n].ignore].op = "mountpoint"
    BY DEF Checked
  <2> QED BY <2>1, <2>2, <2>3
<1> QED BY <1>5, <1>6, <1>7, <1>8, <1>9

(* Where nodes and their verification begin. *)

(* The lines of a node are as many as its commands. *)
LEMMA PartsTyped ==
  ASSUME NEW p \in Plans
  PROVE  /\ Len(p) \in Nat /\ DOMAIN p = 1..Len(p)
         /\ NodeLines(p) \in Seq(Seq(ScriptLine(p)))
         /\ CheckLines(p) \in Seq(Seq(ScriptLine(p)))
         /\ Len(NodeLines(p)) = Len(p) /\ Len(CheckLines(p)) = Len(p)
         /\ \A n \in DOMAIN p :
              /\ NodeLines(p)[n] = LinesOf(n, EffectiveLines(p, n))
              /\ Len(NodeLines(p)[n]) = Len(EffectiveLines(p, n))
              /\ Len(EffectiveLines(p, n)) \in Nat
              /\ DOMAIN EffectiveLines(p, n) = 1..Len(EffectiveLines(p, n))
              /\ CheckLines(p)[n] = LinesOf(n, EffectiveVerifyLines(p, n))
              /\ Len(CheckLines(p)[n]) = Len(EffectiveVerifyLines(p, n))
              /\ Len(EffectiveVerifyLines(p, n)) \in Nat
              /\ DOMAIN EffectiveVerifyLines(p, n)
                   = 1..Len(EffectiveVerifyLines(p, n))
<1>1. p \in Seq(NodeRecord(DOMAIN p)) /\ Len(p) \in Nat /\ DOMAIN p = 1..Len(p)
  BY PlanShape
<1>2. PICK T : T = ScriptLine(p)
  OBVIOUS
<1>3. \A n \in DOMAIN p :
        /\ EffectiveLines(p, n) \in Seq(LineOf(OpsOf(p[n].kind)))
        /\ EffectiveVerifyLines(p, n) \in Seq(LineOf(OpsOf(p[n].kind)))
  BY EffectiveTyped
<1>4. ASSUME NEW n \in DOMAIN p,
             NEW cmds \in Seq(LineOf(OpsOf(p[n].kind)))
      PROVE  /\ LinesOf(n, cmds) \in Seq(T) /\ Len(LinesOf(n, cmds)) = Len(cmds)
             /\ Len(cmds) \in Nat /\ DOMAIN cmds = 1..Len(cmds)
  <2>1. \A k \in 1..Len(cmds) : Line(n, cmds[k]) \in T
    BY <1>2 DEF ScriptLine
  <2>2. LinesOf(n, cmds) = [k \in 1..Len(cmds) |-> Line(n, cmds[k])]
    BY DEF LinesOf
  <2>3. Len(cmds) \in Nat
    OBVIOUS
  <2> QED BY <2>1, <2>2, <2>3
<1> QED BY <1>1, <1>2, <1>3, <1>4 DEF NodeLines, CheckLines

(* Where nodes and their verification begin. *)
LEMMA Starts ==
  ASSUME NEW p \in Plans
  PROVE  /\ Modules(p) \in Nat
         /\ NodeAt(p, 1) = Modules(p)
         /\ CheckAt(p, 1) = NodeAt(p, Len(p) + 1)
         /\ \A n \in 1..(Len(p) + 1) :
              /\ NodeAt(p, n) \in Nat /\ CheckAt(p, n) \in Nat
              /\ NodeAt(p, Len(p) + 1) <= CheckAt(p, n)
         /\ \A n \in DOMAIN p :
              /\ NodeAt(p, n + 1) = NodeAt(p, n) + Len(EffectiveLines(p, n))
              /\ CheckAt(p, n + 1) = CheckAt(p, n) + Len(EffectiveVerifyLines(p, n))
<1>1. Modules(p) \in Nat
  <2>1. CASE p = <<>> BY <2>1 DEF Modules
  <2>2. CASE p # <<>> BY <2>2, ProvisionerAssumption DEF Modules
  <2> QED BY <2>1, <2>2
<1>2. PICK f : f = Offset(NodeLines(p))
  OBVIOUS
<1>3. PICK g : g = Offset(CheckLines(p))
  OBVIOUS
<1>4. PICK T : T = ScriptLine(p)
  OBVIOUS
<1>5. /\ f \in [1..(Len(p) + 1) -> Nat] /\ g \in [1..(Len(p) + 1) -> Nat]
      /\ f[1] = 0 /\ g[1] = 0
      /\ \A n \in DOMAIN p :
           /\ f[n + 1] = f[n] + Len(EffectiveLines(p, n))
           /\ g[n + 1] = g[n] + Len(EffectiveVerifyLines(p, n))
  <2>1. IsOffset(NodeLines(p), f) /\ IsOffset(CheckLines(p), g)
    BY <1>2, <1>3, <1>4, PartsTyped, Flattened
  <2>2. PICK N : N = NodeLines(p)
    OBVIOUS
  <2>3. PICK C : C = CheckLines(p)
    OBVIOUS
  <2>4. /\ Len(N) = Len(p) /\ Len(C) = Len(p) /\ DOMAIN p = 1..Len(p)
        /\ \A n \in 1..Len(p) : /\ Len(N[n]) = Len(EffectiveLines(p, n))
                               /\ Len(C[n]) = Len(EffectiveVerifyLines(p, n))
    BY <2>2, <2>3, PartsTyped
  <2>5. IsOffset(N, f) /\ IsOffset(C, g)
    BY <2>1, <2>2, <2>3
  <2> QED BY <2>4, <2>5 DEF IsOffset
<1>6. Len(p) \in Nat /\ DOMAIN p = 1..Len(p)
  BY PartsTyped
<1>7. \A n \in 1..(Len(p) + 1) : f[n] \in Nat /\ g[n] \in Nat
  BY <1>5
<1>8. \A n \in 1..(Len(p) + 1) :
        /\ NodeAt(p, n) = Modules(p) + f[n]
        /\ CheckAt(p, n) = NodeAt(p, Len(p) + 1) + g[n]
  BY <1>2, <1>3 DEF NodeAt, CheckAt
<1>9. /\ 1 \in 1..(Len(p) + 1) /\ Len(p) + 1 \in 1..(Len(p) + 1)
      /\ \A n \in DOMAIN p : n \in 1..(Len(p) + 1) /\ n + 1 \in 1..(Len(p) + 1)
  BY <1>6
<1>10. \A n \in DOMAIN p : Len(EffectiveLines(p, n)) \in Nat
                             /\ Len(EffectiveVerifyLines(p, n)) \in Nat
  BY PartsTyped
<1>11. \A n \in 1..(Len(p) + 1) :
         /\ NodeAt(p, n) \in Nat /\ CheckAt(p, n) \in Nat
         /\ NodeAt(p, Len(p) + 1) <= CheckAt(p, n)
  BY <1>1, <1>7, <1>8, <1>9
<1>12. NodeAt(p, 1) = Modules(p) /\ CheckAt(p, 1) = NodeAt(p, Len(p) + 1)
  BY <1>1, <1>5, <1>8, <1>9, <1>11
<1>13. ASSUME NEW n \in DOMAIN p
       PROVE  /\ NodeAt(p, n + 1) = NodeAt(p, n) + Len(EffectiveLines(p, n))
              /\ CheckAt(p, n + 1) = CheckAt(p, n) + Len(EffectiveVerifyLines(p, n))
  <2>1. PICK e \in Nat : e = Len(EffectiveLines(p, n))
    BY <1>10
  <2>2. PICK v \in Nat : v = Len(EffectiveVerifyLines(p, n))
    BY <1>10
  <2>3. f[n + 1] = f[n] + e /\ g[n + 1] = g[n] + v /\ f[n] \in Nat /\ g[n] \in Nat
    BY <1>5, <1>7, <1>9, <2>1, <2>2
  <2>4. NodeAt(p, n + 1) = NodeAt(p, n) + e
    BY <1>1, <1>8, <1>9, <2>3
  <2>5. CheckAt(p, n + 1) = CheckAt(p, n) + v
    <3>1. PICK c \in Nat : c = NodeAt(p, Len(p) + 1)
      BY <1>9, <1>11
    <3>2. CheckAt(p, n) = c + g[n] /\ CheckAt(p, n + 1) = c + g[n + 1]
      BY <1>8, <1>9, <3>1
    <3> QED BY <2>3, <3>2
  <2> QED BY <2>1, <2>2, <2>4, <2>5
<1> QED BY <1>1, <1>11, <1>12, <1>13

(* ScriptGenerator.emit: its lines are the commands of the live run. *)
LEMMA EmitMeans ==
  ASSUME plan \in Plans
  PROVE  Emitted(plan, Emit)
<1>1. PICK T : T = ScriptLine(plan)
  OBVIOUS
<1>2. PICK S : S = {line \in T : line.op = "mountpoint"}
  OBVIOUS
<1>3. PICK len : len = Len(plan)
  OBVIOUS
<1>4. len \in Nat /\ DOMAIN plan = 1..len
  BY <1>3, PartsTyped
<1> DEFINE N == NodeLines(plan)
           C == CheckLines(plan)
           m == ModuleLines
           a == FlattenSeq(N)
           b == FlattenSeq(C)
           f == Offset(N)
           g == Offset(C)
<1>5. Emit = (m \o a) \o b
  <2>1. Emit = m \o a \o b
    BY DEF Emit, NodeLines, CheckLines
  <2> QED BY <2>1
<1>6. /\ m \in Seq(T) /\ Len(m) = Modules(plan)
      /\ \A k \in 1..Modules(plan) : m[k] = Line(0, Checked("modprobe"))
  <2>1. Modules(plan) \in Nat /\ Line(0, Checked("modprobe")) \in T
    BY <1>1, Starts DEF ScriptLine
  <2>2. CASE plan = <<>>
    BY <2>2 DEF ModuleLines, Modules
  <2>3. CASE plan # <<>>
    <3>1. m = [k \in 1..Modules(plan) |-> Line(0, Checked("modprobe"))]
      BY <2>3 DEF ModuleLines, Modules
    <3> QED BY <2>1, <3>1
  <2> QED BY <2>2, <2>3
<1>7. /\ a \in Seq(T) /\ IsOffset(N, f) /\ IsFlat(N, f, a) /\ Len(N) = len
  BY <1>1, <1>3, PartsTyped, Flattened
<1>8. C \in Seq(Seq(S)) /\ Len(C) = len
  <2>1. C \in Seq(Seq(T)) /\ Len(C) = len
    BY <1>1, <1>3, PartsTyped
  <2>2. ASSUME NEW n \in 1..len PROVE C[n] \in Seq(S)
    <3>1. C[n] \in Seq(T)
      BY <2>1, <2>2
    <3>2. \A k \in 1..Len(C[n]) : C[n][k].op = "mountpoint"
      <4>1. C[n] = LinesOf(n, EffectiveVerifyLines(plan, n))
        BY <1>4, PartsTyped
      <4>2. \A k \in DOMAIN EffectiveVerifyLines(plan, n) :
              /\ EffectiveVerifyLines(plan, n)[k].op = "mountpoint"
              /\ LinesOf(n, EffectiveVerifyLines(plan, n))[k].op
                   = EffectiveVerifyLines(plan, n)[k].op
        BY <1>4, EffectiveTyped DEF LinesOf, Line
      <4>3. DOMAIN EffectiveVerifyLines(plan, n) = 1..Len(C[n])
        BY <1>4, PartsTyped
      <4> QED BY <4>1, <4>2, <4>3
    <3>3. PICK c : c = C[n]
      OBVIOUS
    <3>4. \A k \in 1..Len(c) : c[k] \in S
      BY <1>2, <3>1, <3>2, <3>3
    <3>5. c \in Seq(S)
      BY <3>1, <3>3, <3>4
    <3> QED BY <3>3, <3>5
  <2>3. PICK Q : Q = Seq(S)
    OBVIOUS
  <2>4. C \in Seq(Q)
    <3> HIDE DEF C
    <3> QED BY <2>1, <2>2, <2>3
  <2> QED BY <2>1, <2>3, <2>4
<1>9. b \in Seq(S) /\ IsOffset(C, g) /\ IsFlat(C, g, b)
  BY <1>8, Flattened
<1>10. b \in Seq(T)
  <2> HIDE DEF b
  <2> QED BY <1>2, <1>9
<1>11. /\ NodeAt(plan, len + 1) = Len(m) + Len(a)
       /\ CheckAt(plan, len + 1) = Len(m) + Len(a) + Len(b)
       /\ \A n \in 1..len : /\ NodeAt(plan, n) = Len(m) + f[n]
                            /\ CheckAt(plan, n) = Len(m) + Len(a) + g[n]
       /\ \A n \in 1..len : f[n] \in Nat /\ g[n] \in Nat
  <2>1. Len(a) = f[len + 1] /\ Len(b) = g[len + 1]
    BY <1>7, <1>8, <1>9 DEF IsFlat
  <2>2. \A n \in 1..len : f[n] \in Nat /\ g[n] \in Nat
    BY <1>4, <1>7, <1>8, <1>9 DEF IsOffset
  <2> QED BY <1>3, <1>6, <2>1, <2>2 DEF NodeAt, CheckAt
<1> DEFINE s == Emit
<1>12. /\ s \in Seq(T) /\ Len(s) = Len(m) + Len(a) + Len(b)
       /\ Len(m) \in Nat /\ Len(a) \in Nat /\ Len(b) \in Nat
       /\ \A k \in 1..Len(m) : s[k] = m[k]
       /\ \A k \in 1..Len(a) : s[Len(m) + k] = a[k]
       /\ \A k \in 1..Len(b) : s[Len(m) + Len(a) + k] = b[k]
  <2> HIDE DEF m, a, b, N, C
  <2>1. PICK ma : ma = m \o a
    OBVIOUS
  <2>2. /\ Len(ma) = Len(m) + Len(a) /\ Len(m) \in Nat /\ Len(a) \in Nat
        /\ \A k \in 1..Len(m) : ma[k] = m[k]
        /\ \A k \in 1..Len(a) : ma[Len(m) + k] = a[k]
    BY <1>6, <1>7, <2>1, Concatenated
  <2>3. s = ma \o b /\ ma \in Seq(T)
    BY <1>5, <1>6, <1>7, <2>1
  <2> HIDE DEF s
  <2>4. /\ Len(s) = Len(ma) + Len(b) /\ Len(b) \in Nat
        /\ \A k \in 1..Len(ma) : s[k] = ma[k]
        /\ \A k \in 1..Len(b) : s[Len(ma) + k] = b[k]
    BY <1>10, <2>3, Concatenated
  <2>5. s \in Seq(T)
    BY <1>10, <2>3
  <2> QED BY <2>2, <2>4, <2>5
<1> HIDE DEF m, a, b, s, f, g
<1>13. ASSUME NEW n \in DOMAIN plan, NEW k \in DOMAIN EffectiveLines(plan, n)
       PROVE  /\ NodeAt(plan, n) + k \in 1..NodeAt(plan, len + 1)
              /\ NodeAt(plan, n) + k \in 1..Len(s)
              /\ s[NodeAt(plan, n) + k] = Line(n, EffectiveLines(plan, n)[k])
  <2>0. /\ N[n] = LinesOf(n, EffectiveLines(plan, n))
        /\ DOMAIN EffectiveLines(plan, n) = 1..Len(N[n]) /\ n \in 1..len
    BY <1>4, PartsTyped
  <2>1. n \in 1..len /\ k \in 1..Len(N[n]) /\ k \in Nat
    BY <2>0
  <2>2. N[n][k] = Line(n, EffectiveLines(plan, n)[k])
    BY <2>0 DEF LinesOf
  <2>3. f[n] + k \in 1..Len(a) /\ a[f[n] + k] = N[n][k]
    BY <1>7, <2>1 DEF IsFlat
  <2> HIDE DEF N
  <2>4. f[n] \in Nat /\ NodeAt(plan, n) = Len(m) + f[n]
    BY <1>11, <2>1
  <2>5. NodeAt(plan, n) + k = Len(m) + (f[n] + k)
    BY <1>12, <2>1, <2>4
  <2>6. PICK j \in 1..Len(a) :
          j = f[n] + k /\ a[j] = Line(n, EffectiveLines(plan, n)[k])
    BY <2>2, <2>3
  <2>7. s[Len(m) + j] = a[j] /\ Len(m) + j \in 1..(Len(m) + Len(a))
        /\ Len(m) + j \in 1..Len(s)
    BY <1>12
  <2> QED BY <1>11, <2>5, <2>6, <2>7
<1>14. ASSUME NEW n \in DOMAIN plan, NEW k \in DOMAIN EffectiveVerifyLines(plan, n)
       PROVE  /\ CheckAt(plan, n) + k \in 1..Len(s)
              /\ s[CheckAt(plan, n) + k] = Line(n, EffectiveVerifyLines(plan, n)[k])
  <2>0. /\ C[n] = LinesOf(n, EffectiveVerifyLines(plan, n))
        /\ DOMAIN EffectiveVerifyLines(plan, n) = 1..Len(C[n]) /\ n \in 1..len
    BY <1>4, PartsTyped
  <2>1. n \in 1..len /\ k \in 1..Len(C[n]) /\ k \in Nat
    BY <2>0
  <2>2. C[n][k] = Line(n, EffectiveVerifyLines(plan, n)[k])
    BY <2>0 DEF LinesOf
  <2>3. g[n] + k \in 1..Len(b) /\ b[g[n] + k] = C[n][k]
    BY <1>8, <1>9, <2>1 DEF IsFlat
  <2> HIDE DEF C
  <2>4. g[n] \in Nat /\ CheckAt(plan, n) = Len(m) + Len(a) + g[n]
    BY <1>11, <2>1
  <2>5. CheckAt(plan, n) + k = Len(m) + Len(a) + (g[n] + k)
    BY <1>12, <2>1, <2>4
  <2> QED BY <1>12, <2>2, <2>3, <2>4, <2>5
<1>15. ASSUME NEW k \in 1..Len(s), k > NodeAt(plan, len + 1)
       PROVE  s[k].op = "mountpoint"
  <2>1. PICK j : j = k - (Len(m) + Len(a))
    OBVIOUS
  <2>2. j \in 1..Len(b) /\ k = Len(m) + Len(a) + j
    BY <1>11, <1>12, <1>15, <2>1
  <2>3. b[j] \in S
    BY <1>9, <2>2
  <2> QED BY <1>2, <1>12, <2>2, <2>3
<1>16. \A k \in 1..Modules(plan) :
         /\ k \in 1..NodeAt(plan, len + 1) /\ k \in 1..Len(s)
         /\ s[k] = Line(0, Checked("modprobe"))
  BY <1>6, <1>11, <1>12
<1>17. Emitted(plan, s)
  BY <1>1, <1>3, <1>11, <1>12, <1>13, <1>14, <1>15, <1>16 DEF Emitted
<1> QED BY <1>17 DEF s
-----------------------------------------------------------------------------
(* The shell is where it says it is, and the script is that of the plan.   *)
ShellOK ==
  /\ shell \in {"none", "running", "done", "stopped"}
  /\ pos \in 1..(Len(script) + 1)
  /\ shell = "running" => pos \in 1..Len(script)
  /\ shell = "done" => pos = Len(script) + 1
  /\ shell = "none" => script = <<>>
  /\ shell # "none" => /\ Emitted(plan, script)
                       /\ \A n \in DOMAIN plan : ~Unresolved(plan, n)
  /\ machine \in KernelStates(plan)
  /\ phase = "preflight" => shell = "none"
  /\ exit = "none" <=> phase \notin {"cleanup", "exited"}

(* The shell has one line behind it for each command of the live run.      *)
InLine ==
  /\ phase = "modprobe" => pos = step /\ step \in 1..(Modules(plan) + 1)
  /\ phase = "execute" /\ step = 0 => pos = NodeAt(plan, at) + 1
  /\ phase = "execute" /\ step # 0 =>
       /\ at \in DOMAIN plan /\ pos = NodeAt(plan, at) + step
       /\ step \in 1..(Len(EffectiveLines(plan, at)) + 1)
  /\ phase = "verify" => pos = CheckAt(plan, at) + 1

(* Until the live run fails, the two are in line on machines that are      *)
(* alike.                                                                  *)
Alongside ==
  shell # "none" =>
    /\ exit \in {"none", "success"} /\ ~dry => machine = kernel
    /\ exit = "none" => InLine /\ shell \in {"running", "done"}
    /\ exit = "success" => shell = "done"

(* What the lines the shell has passed have shown.                         *)
Shown ==
  shell # "none" /\ ~dry =>
    \A n \in OfKind(plan, "filesystem") :
      ~plan[n].ignore /\ pos > CheckAt(plan, n) + 1 =>
        MountedAt(plan, machine, n) # {}

ScriptInv == RunInv /\ ShellOK /\ Alongside /\ Shown
-----------------------------------------------------------------------------
(* The command the live run is about to start is the line of the shell. *)
LEMMA AtModprobe ==
  ASSUME ScriptInv, shell # "none", phase = "modprobe", plan # <<>>,
         step <= ModprobeCount(plan, ControlModules)
  PROVE  /\ shell = "running" /\ pos \in 1..Len(script)
         /\ script[pos] = Line(0, Checked("modprobe"))
         /\ pos <= NodeAt(plan, Len(plan) + 1)
<1>1. /\ pos = step /\ step \in 1..(Modules(plan) + 1)
      /\ shell \in {"running", "done"} /\ Emitted(plan, script)
      /\ shell = "done" => pos = Len(script) + 1
  BY DEF ScriptInv, ShellOK, Alongside, InLine
<1>2. Modules(plan) \in Nat /\ Modules(plan) = ModprobeCount(plan, ControlModules)
  BY Starts DEF Modules, ScriptInv, RunInv, TypeOK
<1>3. pos \in 1..Modules(plan)
  BY <1>1, <1>2
<1>4. /\ pos \in 1..NodeAt(plan, Len(plan) + 1) /\ pos \in 1..Len(script)
      /\ script[pos] = Line(0, Checked("modprobe"))
  BY <1>1, <1>3 DEF Emitted
<1> QED BY <1>1, <1>4

LEMMA AtCommand ==
  ASSUME ScriptInv, shell # "none", phase = "execute", at <= Len(plan),
         step \in DOMAIN EffectiveLines(plan, at)
  PROVE  /\ shell = "running" /\ pos \in 1..Len(script) /\ at \in DOMAIN plan
         /\ script[pos] = Line(at, EffectiveLines(plan, at)[step])
         /\ pos <= NodeAt(plan, Len(plan) + 1)
<1>1. /\ exit = "none" /\ shell \in {"running", "done"} /\ Emitted(plan, script)
      /\ shell = "done" => pos = Len(script) + 1
      /\ step # 0 => pos = NodeAt(plan, at) + step
  BY DEF ScriptInv, ShellOK, Alongside, InLine
<1>2. at \in DOMAIN plan
  BY PlanShape DEF ScriptInv, RunInv, TypeOK, UndoLog
<1>3. step # 0
  BY <1>2, PartsTyped DEF ScriptInv, RunInv, TypeOK
<1>4. /\ pos \in 1..NodeAt(plan, Len(plan) + 1) /\ pos \in 1..Len(script)
      /\ script[pos] = Line(at, EffectiveLines(plan, at)[step])
  BY <1>1, <1>2, <1>3 DEF Emitted
<1> QED BY <1>1, <1>2, <1>4

LEMMA AtCheck ==
  ASSUME ScriptInv, shell # "none", phase = "verify", at <= Len(plan),
         EffectiveVerifyLines(plan, at) # <<>>
  PROVE  /\ shell = "running" /\ pos \in 1..Len(script) /\ at \in DOMAIN plan
         /\ Len(EffectiveVerifyLines(plan, at)) = 1
         /\ script[pos] = Line(at, EffectiveVerifyLines(plan, at)[1])
         /\ script[pos] = Line(at, Head(EffectiveVerifyLines(plan, at)))
         /\ EffectiveVerifyLines(plan, at)[1].op = "mountpoint"
<1>1. /\ exit = "none" /\ shell \in {"running", "done"} /\ Emitted(plan, script)
      /\ shell = "done" => pos = Len(script) + 1
      /\ pos = CheckAt(plan, at) + 1
  BY DEF ScriptInv, ShellOK, Alongside, InLine
<1>2. plan \in Plans /\ at \in DOMAIN plan
  BY PlanShape DEF ScriptInv, RunInv, TypeOK, UndoLog
<1>3. PICK lines : lines = EffectiveVerifyLines(plan, at)
  OBVIOUS
<1>4. PICK S : S = LineOf(OpsOf(plan[at].kind))
  OBVIOUS
<1>5. lines \in Seq(S) /\ Len(lines) <= 1 /\ lines # <<>>
      /\ \A k \in DOMAIN lines : lines[k].op = "mountpoint"
  BY <1>2, <1>3, <1>4, EffectiveTyped
<1>6. Len(lines) = 1 /\ Head(lines) = lines[1] /\ 1 \in DOMAIN lines
  <2>1. Len(lines) \in Nat /\ Len(lines) # 0
    BY <1>5, EmptySeq
  <2>2. Len(lines) = 1 /\ DOMAIN lines = 1..Len(lines)
    <3>1. PICK len \in Nat : len = Len(lines)
      BY <2>1
    <3>2. len <= 1 /\ len # 0
      BY <1>5, <2>1, <3>1
    <3>3. len = 1
      BY <3>2
    <3>4. lines \in Seq(S)
      BY <1>5
    <3>5. DOMAIN lines = 1..Len(lines)
      BY <3>4
    <3> QED BY <3>1, <3>3, <3>5
  <2> QED BY <2>2 DEF Head
<1>7. pos \in 1..Len(script) /\ script[pos] = Line(at, lines[1])
  BY <1>1, <1>2, <1>3, <1>6 DEF Emitted
<1> QED BY <1>1, <1>2, <1>3, <1>5, <1>6, <1>7

(* modprobe and mountpoint leave the machine as it is. *)
LEMMA NoEffect ==
  ASSUME NEW p, NEW k \in KernelStates(p), NEW n, NEW op,
         op \in {"modprobe", "mountpoint"}
  PROVE  Effect(p, k, n, op) = k
<1>1. MadeBy(p, k, n, op) = k.made
  BY Zenon DEF MadeBy
<1>2. UpBy(k, n, op) = k.up
  BY DEF UpBy
<1> QED BY <1>1, <1>2 DEF Effect, KernelStates

(* The shell runs a line: it goes on or stops, and the machine stays one.  *)
LEMMA LineRun ==
  ASSUME ScriptInv, shell = "running", NEW outcome, RunLine(outcome)
  PROVE  /\ script' = script /\ shell' \in {"running", "done", "stopped"}
         /\ pos' \in 1..(Len(script) + 1)
         /\ shell' = "running" => pos' \in 1..Len(script)
         /\ shell' = "done" => pos' = Len(script) + 1
         /\ Stops(script[pos], outcome) <=> shell' = "stopped"
         /\ IF shell' = "stopped" THEN pos' = pos ELSE pos' = pos + 1
         /\ machine' \in KernelStates(plan)
         /\ script[pos].op \in {"modprobe", "mountpoint"} => machine' = machine
<1>1. /\ plan \in Plans /\ pos \in 1..Len(script) /\ machine \in KernelStates(plan)
      /\ Emitted(plan, script) /\ Len(script) \in Nat
  <2>1. /\ plan \in Plans /\ pos \in 1..Len(script) /\ machine \in KernelStates(plan)
        /\ Emitted(plan, script)
    BY DEF ScriptInv, ShellOK, RunInv, TypeOK
  <2>2. script \in Seq(ScriptLine(plan))
    <3>1. CASE shell = "none"
      BY <2>1, <3>1, EmptySeq
    <3>2. CASE shell # "none"
      BY <2>1, <3>2 DEF Emitted
    <3> QED BY <3>1, <3>2
  <2> QED BY <2>1, <2>2
<1>2. PICK line : line = script[pos]
  OBVIOUS
<1>3. /\ line.op \in {"modprobe", "mountpoint"} \/ line.node \in DOMAIN plan
      /\ line.op \in Raising => line.node \in LiveNodes(plan)
  <2>1. line \in ScriptLine(plan)
    BY <1>1, <1>2 DEF Emitted
  <2>2. CASE line = Line(0, Checked("modprobe"))
    BY <2>2 DEF Line, Checked, Raising
  <2>3. CASE \E n \in DOMAIN plan : \E cmd \in LineOf(OpsOf(plan[n].kind)) :
               line = Line(n, cmd)
    <3>0. PICK n \in DOMAIN plan : \E cmd \in LineOf(OpsOf(plan[n].kind)) :
            line = Line(n, cmd)
      BY <2>3
    <3>1. PICK cmd \in LineOf(OpsOf(plan[n].kind)) : line = Line(n, cmd)
      BY <3>0
    <3>2. line.node = n /\ line.op = cmd.op /\ cmd.op \in OpsOf(plan[n].kind)
      BY <3>1 DEF Line, LineOf
    <3> QED BY <3>2 DEF OpsOf, Still, Raising, LiveNodes
  <2> QED BY <2>1, <2>2, <2>3 DEF ScriptLine
<1>4. /\ script' = script
      /\ IF Stops(line, outcome)
         THEN shell' = "stopped" /\ pos' = pos
         ELSE pos' = pos + 1 /\ shell' = ShellAt(pos + 1, script)
      /\ machine' = machine
           \/ machine' = Effect(plan, machine, line.node, line.op)
  BY <1>2 DEF RunLine
<1>5. line.op \in {"modprobe", "mountpoint"} => machine' = machine
  BY <1>1, <1>4, NoEffect
<1>6. machine' \in KernelStates(plan)
  BY <1>1, <1>3, <1>4, <1>5, KernelTyped
<1> QED BY <1>1, <1>2, <1>4, <1>5, <1>6 DEF ShellAt

(* scriptgen.py: the shell goes past a `mountpoint` that is not guarded    *)
(* only if it found a mount. *)
LEMMA LineShows ==
  ASSUME ScriptInv, shell = "running", NEW outcome, RunLine(outcome), plan' = plan,
         dry' = dry,
         ~dry /\ pos > NodeAt(plan, Len(plan) + 1) =>
           outcome \in
             Outcomes(Faults \ {"silent"},
                      Refused(plan, machine, script[pos].node, script[pos].op))
  PROVE  Shown'
<1> SUFFICES ASSUME ~dry, NEW n \in OfKind(plan, "filesystem"), ~plan[n].ignore,
                    pos' > CheckAt(plan, n) + 1
             PROVE  MountedAt(plan, machine', n) # {}
  BY DEF Shown, OfKind, MountedAt, CheckAt, NodeAt, Modules
<1>1. /\ plan \in Plans /\ pos \in 1..Len(script) /\ n \in DOMAIN plan
      /\ plan[n].kind = "filesystem" /\ Emitted(plan, script)
  BY DEF ScriptInv, ShellOK, RunInv, TypeOK, OfKind
<1>2. /\ CheckAt(plan, n) \in Nat /\ NodeAt(plan, Len(plan) + 1) \in Nat
      /\ NodeAt(plan, Len(plan) + 1) <= CheckAt(plan, n)
  <2>1. n \in 1..(Len(plan) + 1) /\ Len(plan) + 1 \in 1..(Len(plan) + 1)
    BY <1>1, PartsTyped
  <2> QED BY <1>1, <2>1, Starts
<1>3. (pos' = pos + 1 /\ ~Stops(script[pos], outcome)) \/ pos' = pos
  BY LineRun
<1>4. pos > NodeAt(plan, Len(plan) + 1) => script[pos].op = "mountpoint"
  BY <1>1 DEF Emitted
<1>5. pos >= CheckAt(plan, n) + 1
  BY <1>1, <1>2, <1>3
<1>6. machine' = machine
  BY <1>1, <1>2, <1>4, <1>5, LineRun
<1>7. CASE pos > CheckAt(plan, n) + 1
  BY <1>6, <1>7 DEF ScriptInv, Shown
<1>8. CASE pos = CheckAt(plan, n) + 1
  <2>1. script[pos] = Line(n, Checked("mountpoint"))
    BY <1>1, <1>8, MountpointLine DEF Emitted
  <2>2. /\ script[pos].node = n /\ script[pos].op = "mountpoint"
        /\ ~script[pos].guarded
    <3>1. Checked("mountpoint").op = "mountpoint" /\ Checked("mountpoint").check
      BY DEF Checked
    <3>2. script[pos].node = n /\ script[pos].op = Checked("mountpoint").op
      BY <2>1 DEF Line
    <3>3. script[pos].guarded = ~Checked("mountpoint").check
      BY <2>1 DEF Line
    <3> QED BY <3>1, <3>2, <3>3, Zenon
  <2>3. ~Stops(script[pos], outcome)
    BY <1>1, <1>2, <1>3, <1>8
  <2>4. outcome \in
          Outcomes(Faults \ {"silent"}, Refused(plan, machine, n, "mountpoint"))
    BY <1>1, <1>2, <1>8, <2>2
  <2>5. ~Refused(plan, machine, n, "mountpoint")
    BY <2>2, <2>3, <2>4, ProvisionerAssumption DEF Stops, Outcomes, FaultKinds
  <2> QED BY <1>6, <2>5 DEF Refused
<1> QED BY <1>1, <1>2, <1>5, <1>7, <1>8

-----------------------------------------------------------------------------
(* A line keeps the invariant, if the live run has kept in line with it.   *)
LEMMA LineInv ==
  ASSUME ScriptInv, shell = "running", NEW outcome, RunLine(outcome), RunInv',
         plan' = plan, dry' = dry, phase' # "preflight", exit' # "success",
         exit' = "none" <=> phase' \notin {"cleanup", "exited"},
         exit' = "none" => /\ ~Stops(script[pos], outcome)
                           /\ pos' = pos + 1 => InLine'
                           /\ ~dry => machine' = kernel',
         ~dry /\ pos > NodeAt(plan, Len(plan) + 1) =>
           outcome \in
             Outcomes(Faults \ {"silent"},
                      Refused(plan, machine, script[pos].node, script[pos].op))
  PROVE  ScriptInv'
<1>1. Shown'
  BY LineShows
<1>2. /\ script' = script /\ shell' \in {"running", "done", "stopped"}
      /\ pos' \in 1..(Len(script) + 1)
      /\ shell' = "running" => pos' \in 1..Len(script)
      /\ shell' = "done" => pos' = Len(script) + 1
      /\ Stops(script[pos], outcome) <=> shell' = "stopped"
      /\ IF shell' = "stopped" THEN pos' = pos ELSE pos' = pos + 1
      /\ machine' \in KernelStates(plan)
  BY LineRun
<1>3. Emitted(plan, script) /\ \A n \in DOMAIN plan : ~Unresolved(plan, n)
  BY DEF ScriptInv, ShellOK
<1>4. Emitted(plan, script)' /\ (\A n \in DOMAIN plan : ~Unresolved(plan, n))'
  <2>1. \A q, s : q = plan /\ s = script => Emitted(q, s)
    BY <1>3
  <2>2. \A q, s : q = plan /\ s = script => \A n \in DOMAIN q : ~Unresolved(q, n)
    BY <1>3
  <2> QED BY <1>2, <2>1, <2>2
<1>5. ShellOK'
  BY <1>2, <1>4 DEF ShellOK
<1>6. Alongside'
  BY <1>2 DEF Alongside
<1> QED BY <1>1, <1>5, <1>6 DEF ScriptInv

(* The steps of the live run are those of Provisioner, without kills and   *)
(* further runs. *)
LEMMA LiveNext ==
  /\ Launch => Next
  /\ Paired => Next
  /\ LiveOnly => Next
BY DEF Launch, Paired, LiveOnly, Next, Process, Modprobe, RunCommand, VerifyNode

LEMMA ScriptInitInv == ScriptInit => ScriptInv
<1> SUFFICES ASSUME ScriptInit PROVE ScriptInv
  OBVIOUS
<1>1. RunInv /\ plan \in Plans
  BY InitInv DEF ScriptInit, Init
<1>2. machine \in KernelStates(plan)
  BY <1>1 DEF ScriptInit, RunInv, TypeOK
<1>3. ShellOK
  BY <1>2 DEF ScriptInit, Init, ShellOK
<1> QED BY <1>1, <1>3 DEF ScriptInit, ScriptInv, Alongside, Shown

LEMMA LaunchInv == ScriptInv /\ Launch => ScriptInv'
<1> SUFFICES ASSUME ScriptInv, Launch PROVE ScriptInv'
  OBVIOUS
<1>1. /\ RunInv' /\ plan \in Plans /\ plan' = plan /\ dry' = dry
      /\ phase' = "modprobe" /\ step' = 1 /\ exit' = exit /\ exit = "none"
      /\ pos' = 1 /\ machine' = kernel' /\ kernel' \in KernelStates(plan)
  <2>1. RunInv'
    BY StepInv, LiveNext DEF ScriptInv
  <2>2. /\ plan \in Plans /\ plan' = plan /\ dry' = dry
        /\ phase' = "modprobe" /\ step' = 1 /\ exit' = exit /\ exit = "none"
        /\ pos' = 1 /\ machine' = kernel'
    BY DEF ScriptInv, RunInv, TypeOK, ShellOK, Launch, Preflight, config
  <2>3. kernel' \in KernelStates(plan)
    BY <2>1, <2>2 DEF RunInv, TypeOK
  <2> QED BY <2>1, <2>2, <2>3
<1>2. CASE EmitRaises(plan)
  <2>1. script' = <<>> /\ shell' = "none"
    BY <1>2 DEF Launch
  <2> QED BY <1>1, <2>1 DEF ScriptInv, ShellOK, Alongside, Shown
<1>3. CASE ~EmitRaises(plan)
  <2>1. script' = Emit /\ shell' = ShellAt(1, script')
    BY <1>3 DEF Launch
  <2>2. Emitted(plan, script') /\ \A n \in DOMAIN plan : ~Unresolved(plan, n)
    BY <1>1, <1>3, <2>1, EmitMeans DEF EmitRaises
  <2>3. Len(script') \in Nat
    <3>1. script' \in Seq(ScriptLine(plan))
      BY <2>2 DEF Emitted
    <3> QED BY <3>1
  <2>4. Emitted(plan, script)' /\ (\A n \in DOMAIN plan : ~Unresolved(plan, n))'
    <3>1. \A q : q = plan =>
            Emitted(q, script') /\ \A n \in DOMAIN q : ~Unresolved(q, n)
      BY <2>2
    <3> QED BY <1>1, <3>1
  <2>5. ShellOK'
    BY <1>1, <2>1, <2>3, <2>4 DEF ShellOK, ShellAt
  <2>6. InLine'
    <3>1. Modules(plan') \in Nat
      BY <1>1, Starts
    <3> QED BY <1>1, <3>1 DEF InLine
  <2>7. Alongside'
    BY <1>1, <2>1, <2>3, <2>6 DEF Alongside, ShellAt
  <2>8. Shown'
    <3>1. \A n \in DOMAIN plan : CheckAt(plan, n) \in Nat
      BY <1>1, Starts, PartsTyped
    <3>2. \A n \in DOMAIN plan' : CheckAt(plan', n) \in Nat
      <4>1. \A q : q = plan => \A n \in DOMAIN q : CheckAt(q, n) \in Nat
        BY <3>1
      <4> QED BY <1>1, <4>1
    <3>3. \A n \in DOMAIN plan' : ~(pos' > CheckAt(plan', n) + 1)
      BY <1>1, <3>2
    <3> QED BY <3>3 DEF Shown, OfKind
  <2> QED BY <1>1, <2>5, <2>7, <2>8 DEF ScriptInv
<1> QED BY <1>2, <1>3

(* While the shell runs no line, its part of the invariant depends on the  *)
(* live run through the phase and the way it ended.                        *)
LEMMA ShellStays ==
  ASSUME ScriptInv, UNCHANGED scriptVars, RunInv', plan' = plan, dry' = dry,
         phase' # "preflight",
         exit' = "none" <=> phase' \notin {"cleanup", "exited"},
         shell # "none" =>
           /\ exit' \in {"none", "success"} /\ ~dry => machine = kernel'
           /\ exit' = "none" => InLine' /\ shell \in {"running", "done"}
           /\ exit' = "success" => shell = "done"
  PROVE  ScriptInv'
<1>1. UNCHANGED <<script, pos, shell, machine>>
  BY DEF scriptVars
<1>2. /\ shell \in {"none", "running", "done", "stopped"}
      /\ pos \in 1..(Len(script) + 1)
      /\ shell = "running" => pos \in 1..Len(script)
      /\ shell = "done" => pos = Len(script) + 1
      /\ shell = "none" => script = <<>>
      /\ machine \in KernelStates(plan)
      /\ shell # "none" => Emitted(plan, script)
      /\ shell # "none" => \A n \in DOMAIN plan : ~Unresolved(plan, n)
      /\ Shown
  BY DEF ScriptInv, ShellOK
<1>3. \A q, s, k : q = plan /\ s = script /\ k = machine =>
        /\ shell # "none" => Emitted(q, s)
        /\ shell # "none" => \A n \in DOMAIN q : ~Unresolved(q, n)
        /\ k \in KernelStates(q)
  BY <1>2
<1>4. ShellOK'
  BY <1>1, <1>2, <1>3 DEF ShellOK
<1>5. Shown'
  <2>1. \A q, k : q = plan /\ k = machine =>
          (shell # "none" /\ ~dry =>
             \A n \in OfKind(q, "filesystem") :
               ~q[n].ignore /\ pos > CheckAt(q, n) + 1 => MountedAt(q, k, n) # {})
    BY <1>2 DEF Shown
  <2> QED BY <1>1, <2>1 DEF Shown
<1> QED BY <1>1, <1>4, <1>5 DEF ScriptInv, Alongside

-----------------------------------------------------------------------------
(* A module is loaded, in both. *)
LEMMA ModprobePaired ==
  ASSUME ScriptInv, NEW outcome, ModprobeAs(outcome), RunInv',
         IF shell = "running" THEN RunLine(outcome) ELSE UNCHANGED scriptVars
  PROVE  ScriptInv'
<1>1. /\ phase = "modprobe" /\ plan # <<>> /\ plan' = plan /\ dry' = dry
      /\ step <= ModprobeCount(plan, ControlModules)
      /\ kernel' = kernel /\ exit = "none" /\ plan \in Plans
  BY DEF ModprobeAs, ScriptInv, ShellOK, config, RunInv, TypeOK
<1>2. \/ /\ Raises(outcome, TRUE) /\ phase' = "exited" /\ exit' = "traceback"
      \/ /\ ~Raises(outcome, TRUE) /\ phase' = "modprobe" /\ exit' = "none"
         /\ step' = step + 1
  BY <1>1 DEF ModprobeAs
<1>3. CASE shell = "none"
  <2>1. UNCHANGED scriptVars
    BY <1>3
  <2> QED BY <1>1, <1>2, <1>3, <2>1, ShellStays
<1>4. CASE shell # "none"
  <2>1. /\ shell = "running" /\ script[pos] = Line(0, Checked("modprobe"))
        /\ pos <= NodeAt(plan, Len(plan) + 1) /\ pos \in Nat
    BY <1>1, <1>4, AtModprobe
  <2>2. RunLine(outcome)
    BY <2>1
  <2>3. script[pos].op = "modprobe" /\ ~script[pos].guarded
    <3>1. Checked("modprobe").op = "modprobe" /\ Checked("modprobe").check
      BY DEF Checked
    <3>2. script[pos].op = Checked("modprobe").op
      BY <2>1 DEF Line
    <3>3. script[pos].guarded = ~Checked("modprobe").check
      BY <2>1 DEF Line
    <3> QED BY <3>1, <3>2, <3>3, Zenon
  <2>4. machine' = machine
    BY <2>1, <2>2, <2>3, LineRun
  <2>5. exit' = "none" =>
          /\ ~Stops(script[pos], outcome)
          /\ pos' = pos + 1 => InLine'
          /\ ~dry => machine' = kernel'
    <3> SUFFICES ASSUME exit' = "none"
                 PROVE  /\ ~Stops(script[pos], outcome)
                        /\ pos' = pos + 1 => InLine'
                        /\ ~dry => machine' = kernel'
      OBVIOUS
    <3>1. ~Raises(outcome, TRUE) /\ phase' = "modprobe" /\ step' = step + 1
      BY <1>2
    <3>2. ~Stops(script[pos], outcome)
      BY <3>1 DEF Stops, Raises
    <3>3. ~dry => machine' = kernel'
      BY <1>1, <1>4, <2>4 DEF ScriptInv, Alongside
    <3>4. pos = step /\ step \in 1..Modules(plan) /\ Modules(plan) \in Nat
      <4>1. pos = step /\ step \in 1..(Modules(plan) + 1)
        BY <1>1, <1>4 DEF ScriptInv, Alongside, InLine
      <4>2. Modules(plan) = ModprobeCount(plan, ControlModules)
        BY <1>1 DEF Modules
      <4> QED BY <1>1, <4>1, <4>2, Starts
    <3>5. Modules(plan') = Modules(plan)
      BY <1>1
    <3>6. pos' = pos + 1 => InLine'
      BY <3>1, <3>4, <3>5 DEF InLine
    <3> QED BY <3>2, <3>3, <3>6
  <2>6. ~(pos > NodeAt(plan, Len(plan) + 1))
    <3>1. NodeAt(plan, Len(plan) + 1) \in Nat
      BY <1>1, Starts, PartsTyped
    <3> QED BY <2>1, <3>1
  <2> QED BY <1>1, <1>2, <2>1, <2>2, <2>5, <2>6, LineInv
<1> QED BY <1>3, <1>4

(* A command of a node is run, in both: on machines that are alike it is   *)
(* refused by both or by none, and what stops the script raises.           *)
LEMMA CommandPaired ==
  ASSUME ScriptInv, NEW outcome, RunCommandAs(outcome), RunInv',
         IF shell = "running" THEN RunLine(outcome) ELSE UNCHANGED scriptVars
  PROVE  ScriptInv'
<1> DEFINE cmd == EffectiveLines(plan, at)[step]
           refused == Refused(plan, kernel, at, cmd.op)
<1>1. /\ phase = "execute" /\ at <= Len(plan) /\ plan' = plan /\ dry' = dry
      /\ step \in DOMAIN EffectiveLines(plan, at)
      /\ exit = "none" /\ plan \in Plans
      /\ kernel' = IF TakesEffect(outcome, refused)
                   THEN Effect(plan, kernel, at, cmd.op) ELSE kernel
  BY DEF RunCommandAs, ScriptInv, ShellOK, config, RunInv, TypeOK
<1>2. \/ /\ Raises(outcome, cmd.check) /\ phase' = "cleanup" /\ exit' = "failed"
      \/ /\ ~Raises(outcome, cmd.check) /\ phase' = "execute" /\ exit' = "none"
         /\ step' = step + 1 /\ at' = at
  BY <1>1 DEF RunCommandAs, Fail
<1>3. CASE shell = "none"
  <2>1. UNCHANGED scriptVars
    BY <1>3
  <2> QED BY <1>1, <1>2, <1>3, <2>1, ShellStays
<1>4. CASE shell # "none"
  <2>1. /\ shell = "running" /\ script[pos] = Line(at, cmd) /\ at \in DOMAIN plan
        /\ pos <= NodeAt(plan, Len(plan) + 1) /\ pos \in Nat
    BY <1>1, <1>4, AtCommand
  <2>2. RunLine(outcome)
    BY <2>1
  <2>3. /\ script[pos].op = cmd.op /\ script[pos].node = at
        /\ script[pos].guarded = ~cmd.check
    BY <2>1 DEF Line
  <2>4. /\ step \in 1..Len(EffectiveLines(plan, at))
        /\ Len(EffectiveLines(plan, at)) \in Nat
    BY <1>1, <2>1, PartsTyped
  <2>5. exit' = "none" =>
          /\ ~Stops(script[pos], outcome)
          /\ pos' = pos + 1 => InLine'
          /\ ~dry => machine' = kernel'
    <3> SUFFICES ASSUME exit' = "none"
                 PROVE  /\ ~Stops(script[pos], outcome)
                        /\ pos' = pos + 1 => InLine'
                        /\ ~dry => machine' = kernel'
      OBVIOUS
    <3>1. /\ ~Raises(outcome, cmd.check) /\ phase' = "execute"
          /\ step' = step + 1 /\ at' = at
      BY <1>2
    <3>2. ~Stops(script[pos], outcome)
      <4>1. script[pos].guarded \/ cmd.check
        BY <2>3, Zenon
      <4> QED BY <3>1, <4>1, <2>3, Zenon DEF Stops, Raises
    <3>3. ~dry => machine' = kernel'
      <4> SUFFICES ASSUME ~dry PROVE machine' = kernel'
        OBVIOUS
      <4>1. machine = kernel
        BY <1>1, <1>4 DEF ScriptInv, Alongside
      <4>2. machine' = IF TakesEffect(outcome, Refused(plan, machine, at, cmd.op))
                       THEN Effect(plan, machine, at, cmd.op) ELSE machine
        BY <2>2, <2>3 DEF RunLine
      <4> HIDE DEF cmd
      <4> QED BY <1>1, <4>1, <4>2
    <3>4. pos = NodeAt(plan, at) + step /\ NodeAt(plan, at) \in Nat
      <4>1. step # 0 => pos = NodeAt(plan, at) + step
        BY <1>1, <1>4 DEF ScriptInv, Alongside, InLine
      <4> QED BY <1>1, <2>1, <2>4, <4>1, Starts, PartsTyped
    <3>5. NodeAt(plan', at') = NodeAt(plan, at)
            /\ EffectiveLines(plan', at') = EffectiveLines(plan, at)
      BY <1>1, <3>1
    <3>6. ASSUME pos' = pos + 1 PROVE InLine'
      <4>1. /\ step' \in 1..(Len(EffectiveLines(plan, at)) + 1)
            /\ pos' = NodeAt(plan, at) + step' /\ step' # 0
        BY <2>4, <3>1, <3>4, <3>6
      <4>2. /\ at' \in DOMAIN plan' /\ pos' = NodeAt(plan', at') + step'
            /\ step' \in 1..(Len(EffectiveLines(plan', at')) + 1)
        BY <1>1, <2>1, <3>1, <3>5, <4>1
      <4> QED BY <3>1, <4>1, <4>2 DEF InLine
    <3> QED BY <3>2, <3>3, <3>6
  <2>6. ~(pos > NodeAt(plan, Len(plan) + 1))
    <3>1. NodeAt(plan, Len(plan) + 1) \in Nat
      BY <1>1, Starts, PartsTyped
    <3> QED BY <2>1, <3>1
  <2> QED BY <1>1, <1>2, <2>1, <2>2, <2>5, <2>6, LineInv
<1> QED BY <1>3, <1>4

(* A mount is verified, in both. *)
LEMMA CheckPaired ==
  ASSUME ScriptInv, NEW outcome, VerifyNodeAs(outcome), RunInv',
         IF shell = "running" THEN RunLine(outcome) ELSE UNCHANGED scriptVars
  PROVE  ScriptInv'
<1> DEFINE cmd == Head(EffectiveVerifyLines(plan, at))
           refused == Refused(plan, kernel, at, cmd.op)
<1>1. /\ phase = "verify" /\ at <= Len(plan) /\ plan' = plan /\ dry' = dry
      /\ EffectiveVerifyLines(plan, at) # <<>>
      /\ exit = "none" /\ plan \in Plans /\ kernel' = kernel
      /\ outcome \in Outcomes(Faults \ {"silent"}, refused)
  BY DEF VerifyNodeAs, ScriptInv, ShellOK, config, RunInv, TypeOK
<1>2. \/ /\ Raises(outcome, cmd.check) /\ phase' = "cleanup" /\ exit' = "failed"
      \/ /\ ~Raises(outcome, cmd.check) /\ phase' = "verify" /\ exit' = "none"
         /\ at' = at + 1
  BY <1>1 DEF VerifyNodeAs, Fail
<1>3. CASE shell = "none"
  <2>1. UNCHANGED scriptVars
    BY <1>3
  <2> QED BY <1>1, <1>2, <1>3, <2>1, ShellStays
<1>4. CASE shell # "none"
  <2>1. /\ shell = "running" /\ script[pos] = Line(at, cmd) /\ at \in DOMAIN plan
        /\ Len(EffectiveVerifyLines(plan, at)) = 1 /\ cmd.op = "mountpoint"
        /\ pos \in Nat
    BY <1>1, <1>4, AtCheck DEF Line
  <2>2. RunLine(outcome)
    BY <2>1
  <2>3. /\ script[pos].op = cmd.op /\ script[pos].node = at
        /\ script[pos].guarded = ~cmd.check
    BY <2>1 DEF Line
  <2>4. machine' = machine
    BY <2>1, <2>2, <2>3, LineRun
  <2>5. exit' = "none" =>
          /\ ~Stops(script[pos], outcome)
          /\ pos' = pos + 1 => InLine'
          /\ ~dry => machine' = kernel'
    <3> SUFFICES ASSUME exit' = "none"
                 PROVE  /\ ~Stops(script[pos], outcome)
                        /\ pos' = pos + 1 => InLine'
                        /\ ~dry => machine' = kernel'
      OBVIOUS
    <3>1. ~Raises(outcome, cmd.check) /\ phase' = "verify" /\ at' = at + 1
      BY <1>2
    <3>2. ~Stops(script[pos], outcome)
      <4>1. script[pos].guarded \/ cmd.check
        BY <2>3, Zenon
      <4> QED BY <3>1, <4>1, <2>3, Zenon DEF Stops, Raises
    <3>3. ~dry => machine' = kernel'
      BY <1>1, <1>4, <2>4 DEF ScriptInv, Alongside
    <3>4. pos = CheckAt(plan, at) + 1
      BY <1>1, <1>4 DEF ScriptInv, Alongside, InLine
    <3>5. CheckAt(plan, at + 1) = CheckAt(plan, at) + 1
      BY <1>1, <2>1, Starts
    <3>6. CheckAt(plan', at') = CheckAt(plan, at + 1)
      BY <1>1, <3>1
    <3>7. pos' = pos + 1 => InLine'
      BY <3>1, <3>4, <3>5, <3>6 DEF InLine
    <3> QED BY <3>2, <3>3, <3>7
  <2>6. ~dry => outcome \in Outcomes(Faults \ {"silent"},
                   Refused(plan, machine, script[pos].node, script[pos].op))
    <3>1. ~dry => machine = kernel
      BY <1>1, <1>4 DEF ScriptInv, Alongside
    <3> QED BY <1>1, <2>3, <3>1
  <2> QED BY <1>1, <1>2, <2>1, <2>2, <2>5, <2>6, LineInv
<1> QED BY <1>3, <1>4

(* The steps of the live run that start no command leave the two in line.  *)
LEMMA LiveOnlyInv == ScriptInv /\ LiveOnly => ScriptInv'
<1> SUFFICES ASSUME ScriptInv, LiveOnly PROVE ScriptInv'
  OBVIOUS
<1>1. RunInv'
  BY StepInv, LiveNext DEF ScriptInv
<1>2. /\ UNCHANGED scriptVars /\ plan \in Plans /\ Len(plan) \in Nat
      /\ DOMAIN plan = 1..Len(plan)
      /\ exit = "none" <=> phase \notin {"cleanup", "exited"}
      /\ shell # "none" =>
           /\ exit \in {"none", "success"} /\ ~dry => machine = kernel
           /\ exit = "none" => InLine /\ shell \in {"running", "done"}
           /\ exit = "success" => shell = "done"
           /\ \A n \in DOMAIN plan : ~Unresolved(plan, n)
      /\ shell = "running" => pos \in 1..Len(script)
      /\ shell = "done" => pos = Len(script) + 1
      /\ shell # "none" => Len(script) = CheckAt(plan, Len(plan) + 1)
  BY PlanShape DEF LiveOnly, ScriptInv, ShellOK, Alongside, RunInv, TypeOK, Emitted
<1>3. /\ Modules(plan) \in Nat /\ NodeAt(plan, 1) = Modules(plan)
      /\ CheckAt(plan, 1) = NodeAt(plan, Len(plan) + 1)
      /\ \A n \in 1..(Len(plan) + 1) :
           NodeAt(plan, n) \in Nat /\ CheckAt(plan, n) \in Nat
  BY <1>2, Starts
<1>4. CASE StartNodes
  <2>1. /\ phase = "modprobe" /\ phase' = "execute" /\ at' = 1 /\ step' = 0
        /\ plan' = plan /\ dry' = dry /\ exit' = exit /\ kernel' = kernel
        /\ plan = <<>> \/ step > ModprobeCount(plan, ControlModules)
    BY <1>4 DEF StartNodes, config
  <2>2. ASSUME shell # "none" PROVE InLine'
    <3>1. pos = step /\ step \in 1..(Modules(plan) + 1)
      BY <1>2, <2>1, <2>2 DEF InLine
    <3>2. step = Modules(plan) + 1
      BY <1>3, <2>1, <3>1 DEF Modules
    <3>3. NodeAt(plan', at') = NodeAt(plan, 1)
      BY <2>1
    <3>4. pos' = NodeAt(plan', at') + 1
      BY <1>2, <1>3, <3>1, <3>2, <3>3 DEF scriptVars
    <3> QED BY <2>1, <3>4 DEF InLine
  <2> QED BY <1>1, <1>2, <2>1, <2>2, ShellStays
<1>5. CASE EnterNode
  <2>1. /\ phase = "execute" /\ step = 0 /\ plan' = plan /\ dry' = dry
        /\ at \in DOMAIN plan /\ kernel' = kernel /\ exit = "none"
    BY <1>2, <1>5 DEF EnterNode, config, ScriptInv, RunInv, TypeOK, UndoLog
  <2>2. CASE Unresolved(plan, at)
    <3>1. shell = "none" /\ phase' = "cleanup" /\ exit' = "failed"
      BY <1>2, <1>5, <2>1, <2>2 DEF EnterNode, Fail
    <3> QED BY <1>1, <1>2, <2>1, <3>1, ShellStays
  <2>3. CASE ~Unresolved(plan, at)
    <3>1. step' = 1 /\ phase' = phase /\ at' = at /\ exit' = exit
      BY <1>5, <2>3 DEF EnterNode
    <3>2. ASSUME shell # "none" PROVE InLine'
      <4>1. pos = NodeAt(plan, at) + 1
        BY <1>2, <2>1, <3>2 DEF InLine
      <4>2. Len(EffectiveLines(plan, at)) \in Nat
        BY <1>2, <2>1, PartsTyped
      <4>3. /\ pos' = pos /\ NodeAt(plan', at') = NodeAt(plan, at)
            /\ EffectiveLines(plan', at') = EffectiveLines(plan, at)
            /\ at' \in DOMAIN plan'
        BY <1>2, <2>1, <3>1 DEF scriptVars
      <4>4. step' \in 1..(Len(EffectiveLines(plan', at')) + 1)
        BY <3>1, <4>2, <4>3
      <4> QED BY <2>1, <3>1, <4>1, <4>3, <4>4 DEF InLine
    <3> QED BY <1>1, <1>2, <2>1, <3>1, <3>2, ShellStays
  <2> QED BY <2>2, <2>3
<1>6. CASE CompleteNode
  <2>1. /\ phase = "execute" /\ plan' = plan /\ dry' = dry
        /\ at \in DOMAIN plan /\ kernel' = kernel /\ exit' = exit
        /\ step = Len(EffectiveLines(plan, at)) + 1
        /\ at' = at + 1 /\ step' = 0 /\ phase' = phase
    BY <1>2, <1>6 DEF CompleteNode, config, ScriptInv, RunInv, TypeOK, UndoLog
  <2>2. ASSUME shell # "none" PROVE InLine'
    <3>1. Len(EffectiveLines(plan, at)) \in Nat
      BY <1>2, <2>1, PartsTyped
    <3>2. pos = NodeAt(plan, at) + step
      BY <1>2, <2>1, <2>2, <3>1 DEF InLine
    <3>3. NodeAt(plan, at + 1) = NodeAt(plan, at) + Len(EffectiveLines(plan, at))
      BY <1>2, <2>1, Starts
    <3>4. NodeAt(plan, at) \in Nat
      BY <1>2, <1>3, <2>1
    <3>5. NodeAt(plan', at') = NodeAt(plan, at + 1)
      BY <2>1
    <3>6. pos' = NodeAt(plan', at') + 1
      BY <1>2, <2>1, <3>1, <3>2, <3>3, <3>4, <3>5 DEF scriptVars
    <3> QED BY <2>1, <3>6 DEF InLine
  <2> QED BY <1>1, <1>2, <2>1, <2>2, ShellStays
<1>7. CASE StartVerify
  <2>1. /\ phase = "execute" /\ plan' = plan /\ dry' = dry /\ at = Len(plan) + 1
        /\ kernel' = kernel /\ exit' = exit /\ phase' = "verify" /\ at' = 1
    BY <1>7 DEF StartVerify, config
  <2>2. ASSUME shell # "none" PROVE InLine'
    <3>1. at \notin DOMAIN plan
      BY <1>2, <2>1
    <3>2. pos = NodeAt(plan, at) + 1
      BY <1>2, <2>1, <2>2, <3>1 DEF InLine
    <3>3. CheckAt(plan', at') = NodeAt(plan, at)
      BY <1>3, <2>1
    <3> QED BY <1>2, <2>1, <3>2, <3>3 DEF InLine, scriptVars
  <2> QED BY <1>1, <1>2, <2>1, <2>2, ShellStays
<1>8. CASE PassNode
  <2>1. /\ phase = "verify" /\ plan' = plan /\ dry' = dry /\ at \in DOMAIN plan
        /\ kernel' = kernel /\ exit' = exit /\ phase' = phase /\ at' = at + 1
        /\ EffectiveVerifyLines(plan, at) = <<>>
    BY <1>2, <1>8 DEF PassNode, config, ScriptInv, RunInv, TypeOK, UndoLog
  <2>2. ASSUME shell # "none" PROVE InLine'
    <3>1. pos = CheckAt(plan, at) + 1
      BY <1>2, <2>1, <2>2 DEF InLine
    <3>2. Len(EffectiveVerifyLines(plan, at)) = 0
      BY <2>1
    <3>3. CheckAt(plan, at + 1) = CheckAt(plan, at) /\ CheckAt(plan, at) \in Nat
      BY <1>2, <1>3, <2>1, <3>2, Starts
    <3>4. CheckAt(plan', at') = CheckAt(plan, at + 1)
      BY <2>1
    <3> QED BY <1>2, <2>1, <3>1, <3>3, <3>4 DEF InLine, scriptVars
  <2> QED BY <1>1, <1>2, <2>1, <2>2, ShellStays
<1>9. CASE Succeed
  <2>1. /\ phase = "verify" /\ plan' = plan /\ dry' = dry /\ at = Len(plan) + 1
        /\ kernel' = kernel /\ exit = "none" /\ exit' = "success" /\ phase' = "exited"
    BY <1>2, <1>9 DEF Succeed, config
  <2>2. ASSUME shell # "none" PROVE shell = "done"
    <3>1. pos = CheckAt(plan, Len(plan) + 1) + 1 /\ shell \in {"running", "done"}
      BY <1>2, <2>1, <2>2 DEF InLine
    <3>2. pos = Len(script) + 1 /\ Len(script) \in Nat
      BY <1>2, <1>3, <2>2, <3>1
    <3> QED BY <1>2, <3>1, <3>2
  <2> QED BY <1>1, <1>2, <2>1, <2>2, ShellStays
<1>10. CASE CleanupNode \/ EndCleanup
  <2>1. /\ phase = "cleanup" /\ plan' = plan /\ dry' = dry /\ exit' = exit
        /\ phase' \in {"cleanup", "exited"}
    BY <1>10 DEF CleanupNode, EndCleanup, config
  <2>2. exit # "success" /\ exit # "none"
    BY <1>2, <2>1 DEF ScriptInv, RunInv, Verified
  <2> QED BY <1>1, <1>2, <2>1, <2>2, ShellStays
<1> QED BY <1>4, <1>5, <1>6, <1>7, <1>8, <1>9, <1>10 DEF LiveOnly

(* A script that goes on alone is of no concern to the live run. *)
LEMMA AloneInv == ScriptInv /\ ScriptAlone => ScriptInv'
<1> SUFFICES ASSUME ScriptInv, ScriptAlone PROVE ScriptInv'
  OBVIOUS
<1> DEFINE line == script[pos]
           refused == Refused(plan, machine, line.node, line.op)
           kinds == IF line.op = "mountpoint" THEN Faults \ {"silent"} ELSE Faults
<1>1. PICK outcome \in Outcomes(kinds, refused) :
        CountFault(outcome, refused) /\ RunLine(outcome)
  BY DEF ScriptAlone
<1>2. /\ phase = "exited" /\ shell = "running" /\ plan \in Plans
      /\ UNCHANGED <<plan, dry, skip, phase, at, step, exit, succeeded, registered,
                     kernel, before, blame, run>>
  BY DEF ScriptAlone, config, status, books, ScriptInv, RunInv, TypeOK
<1>3. RunInv'
  <2>1. faults' \in 0..MaxFaults
    BY <1>1, FaultBound DEF ScriptInv, RunInv, TypeOK
  <2>2. TypeOK'
    BY <1>2, <2>1 DEF ScriptInv, RunInv, TypeOK
  <2>3. UndoLog' /\ Verified' /\ SuccessMeansMounted'
    BY <1>2 DEF ScriptInv, RunInv, UndoLog, Verified, SuccessMeansMounted
  <2> QED BY <2>2, <2>3 DEF RunInv
<1>4. exit # "success" /\ exit # "none"
  BY <1>2 DEF ScriptInv, ShellOK, Alongside
<1>5. pos > NodeAt(plan, Len(plan) + 1) => line.op = "mountpoint"
  BY <1>2 DEF ScriptInv, ShellOK, Emitted
<1>6. pos > NodeAt(plan, Len(plan) + 1) =>
        outcome \in Outcomes(Faults \ {"silent"}, refused)
  BY <1>1, <1>5
<1> HIDE DEF refused, line
<1> QED BY <1>1, <1>2, <1>3, <1>4, <1>6, LineInv DEF refused, line

(* ScriptInv is inductive. *)
LEMMA ScriptStepInv == ScriptInv /\ [ScriptNext]_allVars => ScriptInv'
<1> SUFFICES ASSUME ScriptInv, [ScriptNext]_allVars PROVE ScriptInv'
  OBVIOUS
<1>1. CASE UNCHANGED allVars
  <2>1. /\ UNCHANGED vars /\ UNCHANGED scriptVars
        /\ UNCHANGED <<plan, dry, phase, at, step, exit, kernel>>
    BY <1>1 DEF allVars, vars, config, status
  <2>2. RunInv'
    BY <2>1, StepInv DEF ScriptInv
  <2>3. CASE phase = "preflight"
    <3>1. shell = "none" /\ exit = "none"
      BY <2>3 DEF ScriptInv, ShellOK
    <3> QED BY <2>1, <2>2, <2>3, <3>1
            DEF ScriptInv, ShellOK, Alongside, Shown, scriptVars
  <2>4. CASE phase # "preflight"
    <3>1. InLine => InLine'
      BY <2>1 DEF InLine, scriptVars
    <3>2. /\ exit = "none" <=> phase \notin {"cleanup", "exited"}
          /\ shell # "none" =>
               /\ exit \in {"none", "success"} /\ ~dry => machine = kernel
               /\ exit = "none" => InLine /\ shell \in {"running", "done"}
               /\ exit = "success" => shell = "done"
      BY DEF ScriptInv, ShellOK, Alongside
    <3> QED BY <2>1, <2>2, <2>4, <3>1, <3>2, ShellStays
  <2> QED BY <2>3, <2>4
<1>2. CASE Launch BY <1>2, LaunchInv
<1>3. CASE Paired
  <2>1. PICK outcome \in Outcome :
          /\ ModprobeAs(outcome) \/ RunCommandAs(outcome) \/ VerifyNodeAs(outcome)
          /\ IF shell = "running" THEN RunLine(outcome) ELSE UNCHANGED scriptVars
    BY <1>3 DEF Paired
  <2>2. RunInv'
    BY <1>3, StepInv, LiveNext DEF ScriptInv
  <2> QED BY <2>1, <2>2, ModprobePaired, CommandPaired, CheckPaired
<1>4. CASE LiveOnly BY <1>4, LiveOnlyInv
<1>5. CASE ScriptAlone BY <1>5, AloneInv
<1> QED BY <1>1, <1>2, <1>3, <1>4, <1>5 DEF ScriptNext

(* ScriptInv holds in every reachable state of the two runs. *)
THEOREM ScriptCorrect == ScriptSpec => []ScriptInv
BY ScriptInitInv, ScriptStepInv, PTL DEF ScriptSpec
-----------------------------------------------------------------------------
(* The shell never runs a line that the script does not have, nor one of a *)
(* node that the plan does not have.                                       *)
THEOREM ScriptTypeCorrect == ScriptSpec => []ScriptTypeOK
<1>1. ScriptInv => ScriptTypeOK
  <2> SUFFICES ASSUME ScriptInv PROVE ScriptTypeOK
    OBVIOUS
  <2>1. /\ shell \in {"none", "running", "done", "stopped"}
        /\ pos \in 1..(Len(script) + 1) /\ plan \in Plans
        /\ shell = "running" => pos \in 1..Len(script)
        /\ shell = "none" => script = <<>>
        /\ shell # "none" => Emitted(plan, script)
        /\ machine \in KernelStates(plan)
    BY DEF ScriptInv, ShellOK, RunInv, TypeOK
  <2>2. script \in Seq(ScriptLine(plan))
    <3>1. CASE shell = "none"
      BY <2>1, <3>1, EmptySeq
    <3>2. CASE shell # "none"
      BY <2>1, <3>2 DEF Emitted
    <3> QED BY <3>1, <3>2
  <2>3. Len(plan) \in Nat /\ DOMAIN plan = 1..Len(plan)
    BY <2>1, PlanShape
  <2>4. \A k \in DOMAIN script : script[k].node \in 0..Len(plan)
    <3>1. \A line \in ScriptLine(plan) : line.node \in 0..Len(plan)
      BY <2>3 DEF ScriptLine, Line
    <3> QED BY <2>2, <3>1
  <2>5. plan = <<>> => script = <<>>
    <3> SUFFICES ASSUME plan = <<>>, shell # "none" PROVE script = <<>>
      BY <2>1
    <3>1. Len(script) = Modules(plan)
      BY <2>1, Starts DEF Emitted
    <3>2. Modules(plan) = 0
      BY DEF Modules
    <3> QED BY <2>2, <3>1, <3>2, EmptySeq
  <2>6. shell = "running" => pos <= Len(script)
    BY <2>1, <2>2
  <2> QED BY <2>1, <2>4, <2>5, <2>6 DEF ScriptTypeOK
<1> QED BY <1>1, ScriptCorrect, PTL

(* What the live run may be about to start. *)
LEMMA LiveLinesAre ==
  ASSUME NEW line \in LiveLines
  PROVE  \/ /\ phase = "modprobe" /\ plan # <<>>
            /\ step <= ModprobeCount(plan, ControlModules)
            /\ line = Line(0, Checked("modprobe"))
         \/ /\ phase = "execute" /\ at <= Len(plan)
            /\ step \in DOMAIN EffectiveLines(plan, at)
            /\ line = Line(at, EffectiveLines(plan, at)[step])
         \/ /\ phase = "verify" /\ at <= Len(plan)
            /\ \E k \in DOMAIN EffectiveVerifyLines(plan, at) :
                 line = Line(at, EffectiveVerifyLines(plan, at)[k])
BY Zenon DEF LiveLines, Range

(* README.md:220, CHANGELOG.md:63: until the live run fails, the script is *)
(* at the same command on a machine in the same state, and when the live   *)
(* run has succeeded, so has the script.                                   *)
THEOREM ScriptInStep == ScriptSpec => []InStep
<1>1. ScriptInv => InStep
  <2> SUFFICES ASSUME ScriptInv, shell # "none", exit \in {"none", "success"}
               PROVE  /\ ~dry => machine = kernel
                      /\ \A line \in LiveLines : shell = "running" /\ script[pos] = line
                      /\ exit = "success" => shell = "done"
    BY DEF InStep
  <2>1. /\ ~dry => machine = kernel
        /\ exit = "success" => shell = "done"
    BY DEF ScriptInv, Alongside
  <2>2. ASSUME NEW line \in LiveLines
        PROVE  shell = "running" /\ script[pos] = line
    <3>1. CASE /\ phase = "modprobe" /\ plan # <<>>
               /\ step <= ModprobeCount(plan, ControlModules)
               /\ line = Line(0, Checked("modprobe"))
      BY <3>1, AtModprobe
    <3>2. CASE /\ phase = "execute" /\ at <= Len(plan)
               /\ step \in DOMAIN EffectiveLines(plan, at)
               /\ line = Line(at, EffectiveLines(plan, at)[step])
      BY <3>2, AtCommand
    <3>3. CASE /\ phase = "verify" /\ at <= Len(plan)
               /\ \E k \in DOMAIN EffectiveVerifyLines(plan, at) :
                    line = Line(at, EffectiveVerifyLines(plan, at)[k])
      <4>1. PICK k \in DOMAIN EffectiveVerifyLines(plan, at) :
              line = Line(at, EffectiveVerifyLines(plan, at)[k])
        BY <3>3
      <4>2. EffectiveVerifyLines(plan, at) # <<>>
        BY <4>1
      <4>3. /\ shell = "running" /\ at \in DOMAIN plan /\ plan \in Plans
            /\ Len(EffectiveVerifyLines(plan, at)) = 1
            /\ script[pos] = Line(at, EffectiveVerifyLines(plan, at)[1])
        BY <3>3, <4>2, AtCheck DEF ScriptInv, RunInv, TypeOK
      <4>4. k = 1
        BY <4>1, <4>3, PartsTyped
      <4> QED BY <4>1, <4>3, <4>4
    <3> QED BY <3>1, <3>2, <3>3, LiveLinesAre
  <2> QED BY <2>1, <2>2
<1> QED BY <1>1, ScriptCorrect, PTL

(* journal, "Per-node `ignore_errors`": what stops the script makes the    *)
(* live run fail, and the other way round, but for an unchecked command    *)
(* that the live run cannot start.                                         *)
THEOREM ScriptAbortsTogether == ScriptSpec => AbortTogether
<1>1. ScriptInv /\ [ScriptNext]_allVars =>
        [shell = "running" /\ ~dry /\ exit = "none" =>
           /\ shell' = "stopped" => exit' \in {"failed", "traceback"}
           /\ exit' \in {"failed", "traceback"} =>
                shell' = "stopped" \/ script[pos].guarded]_allVars
  <2> SUFFICES ASSUME ScriptInv, ScriptNext, shell = "running", ~dry, exit = "none"
               PROVE  /\ shell' = "stopped" => exit' \in {"failed", "traceback"}
                      /\ exit' \in {"failed", "traceback"} =>
                           shell' = "stopped" \/ script[pos].guarded
    OBVIOUS
  <2>1. ScriptInv'
    BY ScriptStepInv
  <2>2. phase \notin {"preflight", "cleanup", "exited"}
    BY DEF ScriptInv, ShellOK
  <2>3. CASE LiveOnly
    <3>1. shell' = "running"
      BY <2>3 DEF LiveOnly, scriptVars
    <3>2. ~EnterNode \/ ~Unresolved(plan, at)
      BY PlanShape DEF EnterNode, ScriptInv, ShellOK, RunInv, TypeOK, UndoLog
    <3>3. exit' \in {"none", "success"}
      BY <2>2, <2>3, <3>2
         DEF LiveOnly, StartNodes, EnterNode, CompleteNode, StartVerify, PassNode,
             Succeed, CleanupNode, EndCleanup
    <3> QED BY <3>1, <3>3
  <2>4. CASE Paired
    <3>1. PICK outcome \in Outcome :
            /\ ModprobeAs(outcome) \/ RunCommandAs(outcome) \/ VerifyNodeAs(outcome)
            /\ RunLine(outcome)
      BY <2>4 DEF Paired
    <3>2. shell' = "stopped" <=> Stops(script[pos], outcome)
      BY <3>1, LineRun
    <3>3. shell' = "stopped" => exit' \in {"failed", "traceback"}
      <4>1. exit' = "none" => shell' # "stopped"
        BY <2>1, <3>1, LineRun DEF ScriptInv, Alongside
      <4>2. exit' \in {"none", "failed", "traceback"}
        BY <3>1 DEF ModprobeAs, RunCommandAs, VerifyNodeAs, Fail
      <4> QED BY <4>1, <4>2
    <3>4. ASSUME exit' \in {"failed", "traceback"}
          PROVE  Stops(script[pos], outcome) \/ script[pos].guarded
      <4>1. CASE ModprobeAs(outcome)
        <5>1. Raises(outcome, TRUE)
          BY <3>4, <4>1 DEF ModprobeAs
        <5> QED BY <5>1 DEF Stops, Raises
      <4>2. CASE RunCommandAs(outcome)
        <5>1. Raises(outcome, EffectiveLines(plan, at)[step].check)
          BY <3>4, <4>2 DEF RunCommandAs
        <5> QED BY <5>1 DEF Stops, Raises
      <4>3. CASE VerifyNodeAs(outcome)
        <5>1. Raises(outcome, Head(EffectiveVerifyLines(plan, at)).check)
          BY <3>4, <4>3 DEF VerifyNodeAs
        <5> QED BY <5>1 DEF Stops, Raises
      <4> QED BY <3>1, <4>1, <4>2, <4>3
    <3> QED BY <3>2, <3>3, <3>4
  <2>5. ~Launch /\ ~ScriptAlone
    BY <2>2 DEF Launch, Preflight, ScriptAlone
  <2> QED BY <2>3, <2>4, <2>5 DEF ScriptNext
<1> QED BY <1>1, ScriptCorrect, PTL DEF ScriptSpec, AbortTogether

(* README.md:48 "emits the same checks": a script that ran to its end has  *)
(* something mounted at the mountpoint of every filesystem that does not   *)
(* ignore errors, whatever became of the live run.                         *)
THEOREM ScriptIsVerified == ScriptSpec => []ScriptSuccess
<1>1. ScriptInv => ScriptSuccess
  <2> SUFFICES ASSUME ScriptInv, shell = "done", ~dry,
                      NEW n \in OfKind(plan, "filesystem"), ~plan[n].ignore
               PROVE  MountedAt(plan, machine, n) # {}
    BY DEF ScriptSuccess
  <2>1. /\ plan \in Plans /\ n \in DOMAIN plan /\ plan[n].kind = "filesystem"
        /\ Emitted(plan, script) /\ pos = Len(script) + 1
    BY DEF ScriptInv, ShellOK, RunInv, TypeOK, OfKind
  <2>2. CheckAt(plan, n) + 1 \in 1..Len(script)
    <3>1. 1 \in DOMAIN EffectiveVerifyLines(plan, n)
      BY <2>1, MountpointLine
    <3> QED BY <2>1, <3>1 DEF Emitted
  <2>3. Len(script) \in Nat
    <3>1. script \in Seq(ScriptLine(plan))
      BY <2>1 DEF Emitted
    <3> QED BY <3>1
  <2>4. pos > CheckAt(plan, n) + 1
    BY <2>1, <2>2, <2>3
  <2> QED BY <2>4 DEF ScriptInv, Shown
<1> QED BY <1>1, ScriptCorrect, PTL
=============================================================================
