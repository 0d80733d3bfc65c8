--------------------------- MODULE CleanupProofs ---------------------------
(***************************************************************************)
(* Reverse cleanup: what a failed run leaves behind, whom it may release,  *)
(* that a run is all or nothing, and that the next one is not obstructed.  *)
(* For every set of prepared plans.                                        *)
(***************************************************************************)
EXTENDS ProvisionerProofs, PlanProofs

(* The nodes of a plan that a run can bring up: live ones that are not     *)
(* behind a node whose parents have no device.                             *)
Reach(p) == {n \in LiveNodes(p) : ResolvedTo(p, n)}

(* What the cleanup actions of R up to the a-th node are for. *)
Undoable(p, R, a) == UNION {CleanupTargets(p, c) : c \in {c \in R : c <= a}}

-----------------------------------------------------------------------------
(* Path of a mount is a prefix of itself. *)
LEMMA PrefixReflexive ==
  ASSUME NEW p, p \in Seq(NodeRecord(DOMAIN p)), NEW n \in DOMAIN p
  PROVE  IsPrefix(p[n].path, p[n].path)
<1>1. PICK T : T = STRING
  OBVIOUS
<1>2. p[n].path \in Seq(T)
  BY <1>1, NodeTyped
<1>3. Len(p[n].path) \in Nat
  BY <1>2
<1> QED BY <1>2, <1>3, PrefixMeans

(* A cleanup action leaves up what it is for only if something live rests  *)
(* on it: by holding it, or by being mounted over it.                      *)
LEMMA NotReleased ==
  ASSUME NEW p, Prepared(p), NEW k, k.up \subseteq DOMAIN p,
         NEW n \in DOMAIN p, NEW u \in k.up,
         u \in CleanupTargets(p, n), u \notin Released(p, k, n)
  PROVE  \E x \in k.up : u \in Beneath(p, x)
<1>1. p \in Seq(NodeRecord(DOMAIN p)) /\ DOMAIN p = 1..Len(p) /\ Len(p) \in Nat
  BY DEF Prepared
<1>2. CASE p[n].kind # "filesystem"
  BY <1>2 DEF Released, Busy
<1>3. CASE p[n].kind = "filesystem"
  <2> DEFINE there == {g \in k.up : p[g].kind = "filesystem" /\ p[g].path = p[n].path}
  <2>1. u = n
    BY <1>3 DEF CleanupTargets
  <2>2. CASE \A h \in there : h <= n
    <3>1. n \in MountedAt(p, k, n)
      BY <1>3, <2>1, <2>2 DEF MountedAt
    <3> QED BY <1>3, <2>1, <3>1 DEF Released, Busy
  <2>3. CASE \E h \in there : ~(h <= n)
    <3>1. PICK h \in there : ~(h <= n)
      BY <2>3
    <3>2. h \in DOMAIN p /\ n \in 1..(h - 1) /\ IsPrefix(p[n].path, p[h].path)
      BY <1>1, <3>1, PrefixReflexive
    <3>3. n \in Enclosing(p, h)
      BY <1>3, <3>1, <3>2 DEF Enclosing
    <3>4. n \in Beneath(p, h)
      BY <3>2, <3>3, BeneathOrdered
    <3> QED BY <2>1, <3>1, <3>4
  <2> QED BY <2>2, <2>3
<1> QED BY <1>2, <1>3

(* Where the targets of a cleanup action are: the node itself, or volumes  *)
(* after it, which are built from their group alone.                       *)
LEMMA TargetsAfter ==
  ASSUME NEW p, Prepared(p), NEW n \in DOMAIN p, NEW u \in CleanupTargets(p, n)
  PROVE  /\ u \in DOMAIN p /\ n <= u
         /\ p[n].kind # "lvm-vg" => u = n
         /\ p[n].kind = "lvm-vg" =>
              n < u /\ p[u].kind = "lvm-lv" /\ Beneath(p, u) \subseteq 1..n
<1>1. p \in Seq(NodeRecord(DOMAIN p)) /\ DOMAIN p = 1..Len(p) /\ Len(p) \in Nat
  BY DEF Prepared
<1>2. CASE p[n].kind # "lvm-vg"
  BY <1>1, <1>2 DEF CleanupTargets
<1>3. CASE p[n].kind = "lvm-vg"
  <2>1. u \in DOMAIN p /\ p[u].kind = "lvm-lv" /\ n \in ParentsOf(p[u])
    BY <1>3 DEF CleanupTargets, OfKind
  <2>2. n < u
    BY <1>3, <2>1 DEF Prepared
  <2>3. ParentsOf(p[u]) = {n}
    <3>1. Len(p[u].parents) = 1
      BY <2>1 DEF Prepared, Valid, ValidLv, OneParent
    <3>2. p[u].parents \in Seq(DOMAIN p)
      BY <1>1, <2>1, NodeTyped
    <3>3. DOMAIN p[u].parents = {1}
      BY <3>1, <3>2
    <3> QED BY <2>1, <3>3 DEF ParentsOf
  <2>4. Devices(p)[u] = {n} \cup Devices(p)[n] /\ Devices(p)[n] \subseteq 1..(n - 1)
    <3>1. Below(p, u) = {n}
      BY <2>2, <2>3 DEF Below
    <3> QED BY <1>1, <2>1, <3>1, DevicesAre, DevicesOrdered
  <2>5. Enclosing(p, u) = {}
    BY <2>1 DEF Enclosing
  <2>6. Beneath(p, u) = Devices(p)[u]
    BY <2>1, <2>5, BeneathOrdered
  <2>7. Beneath(p, u) \subseteq 1..n
    BY <1>1, <2>4, <2>6
  <2> QED BY <1>1, <1>3, <2>1, <2>2, <2>7
<1> QED BY <1>2, <1>3

(* Nothing that is still to be cleaned up rests on what is cleaned now.    *)
LEMMA TargetsApart ==
  ASSUME NEW p, Prepared(p), NEW n \in DOMAIN p, NEW c \in DOMAIN p, c <= n,
         NEW u \in CleanupTargets(p, n), NEW x \in CleanupTargets(p, c)
  PROVE  u \notin Beneath(p, x)
<1> SUFFICES ASSUME u \in Beneath(p, x) PROVE FALSE
  OBVIOUS
<1>1. DOMAIN p = 1..Len(p) /\ Len(p) \in Nat
  BY DEF Prepared
<1>2. x \in DOMAIN p /\ u \in DOMAIN p /\ n <= u
  BY TargetsAfter
<1>3. u < x
  BY <1>1, <1>2, BeneathOrdered
<1>4. p[c].kind = "lvm-vg"
  BY <1>1, <1>2, <1>3, TargetsAfter
<1>5. u <= c
  BY <1>1, <1>4, TargetsAfter
<1>6. u = c /\ n = c
  BY <1>1, <1>2, <1>5
<1> QED BY <1>1, <1>4, <1>6, TargetsAfter

(* executor.py _cleanup: one node of the reversed list. Whatever is left   *)
(* of its targets is kept by B, if everything live was so far kept by B or *)
(* still to be undone.                                                     *)
LEMMA CleanupStep ==
  ASSUME NEW p, Prepared(p), NEW k, k.up \subseteq DOMAIN p,
         NEW n \in DOMAIN p, NEW R \in SUBSET DOMAIN p, NEW B \in SUBSET Reach(p),
         k.up \subseteq Kept(p, B) \cup Undoable(p, R, n)
  PROVE  k.up \ Released(p, k, n) \subseteq Kept(p, B) \cup Undoable(p, R, n - 1)
<1> SUFFICES ASSUME NEW u \in k.up, u \notin Released(p, k, n),
                    u \notin Kept(p, B)
             PROVE  u \in Undoable(p, R, n - 1)
  OBVIOUS
<1>1. DOMAIN p = 1..Len(p) /\ Len(p) \in Nat
  BY DEF Prepared
<1>2. PICK c \in R : c <= n /\ u \in CleanupTargets(p, c)
  BY DEF Undoable
<1>3. CASE c # n
  BY <1>1, <1>2, <1>3 DEF Undoable
<1>4. CASE c = n
  <2>1. PICK x \in k.up : u \in Beneath(p, x)
    BY <1>2, <1>4, NotReleased
  <2>2. CASE x \in Kept(p, B)
    <3>1. PICK b \in B : x = b \/ x \in Beneath(p, b)
      BY <2>2 DEF Kept
    <3>2. b \in DOMAIN p /\ ResolvedTo(p, b)
      BY DEF Reach, LiveNodes
    <3>3. u \in Beneath(p, b)
      BY <2>1, <3>1, <3>2, BeneathOrdered
    <3> QED BY <3>3 DEF Kept
  <2>3. CASE x \in Undoable(p, R, n)
    <3>1. PICK d \in R : d <= n /\ x \in CleanupTargets(p, d)
      BY <2>3 DEF Undoable
    <3> QED BY <1>2, <1>4, <2>1, <3>1, TargetsApart
  <2> QED BY <2>2, <2>3
<1> QED BY <1>3, <1>4
-----------------------------------------------------------------------------
(* The nodes that have been entered. *)
Begun == IF step = 0 THEN at - 1 ELSE at

(* What has come up in this run, before its cleanup begins. *)
UpInv ==
  /\ kernel.up \subseteq Reach(plan) /\ before \subseteq Reach(plan)
  /\ exit = "killed" => phase = "exited"
  /\ phase = "modprobe" => kernel.up = before
  /\ dry /\ phase # "preflight" /\ exit # "killed" => kernel.up = before
  /\ phase = "execute" =>
       ResolvedTo(plan, Begun) /\ kernel.up \subseteq before \cup 1..Begun

(* What cleanup has left so far: kept by a node that was blamed, or still  *)
(* to be undone.                                                           *)
LeftInv ==
  phase = "cleanup" \/ (phase = "exited" /\ exit = "failed") =>
    /\ phase = "exited" => at = 0
    /\ kernel.up \subseteq Kept(plan, Blamed \cap Reach(plan))
                             \cup Undoable(plan, registered, at)

LeakInv == UpInv /\ LeftInv

(* A volume is undone with its group. *)
LEMMA VolumeUndone ==
  ASSUME NEW p, Prepared(p), NEW n \in DOMAIN p, p[n].kind = "lvm-lv",
         NEW R \in SUBSET Nat,
         \A c \in 1..(n - 1) :
           c \in DOMAIN p /\ p[c].kind \in HasCleanup => c \in R
  PROVE  n \in Undoable(p, R, n - 1)
<1>1. p \in Seq(NodeRecord(DOMAIN p)) /\ DOMAIN p = 1..Len(p) /\ Len(p) \in Nat
  BY DEF Prepared
<1>2. /\ Len(p[n].parents) = 1 /\ p[n].parents \in Seq(DOMAIN p)
      /\ p[p[n].parents[1]].kind = "lvm-vg"
  BY <1>1, NodeTyped DEF Prepared, Valid, ValidLv, OneParent
<1> DEFINE g == p[n].parents[1]
<1>3. g \in DOMAIN p /\ g \in ParentsOf(p[n])
  BY <1>2 DEF ParentsOf
<1>4. g < n
  <2>1. \A q \in ParentsOf(p[n]) : p[q].kind # "filesystem" => q < n
    BY <1>1 DEF Prepared
  <2>2. p[g].kind # "filesystem"
    BY <1>2
  <2> QED BY <1>3, <2>1, <2>2
<1>5. n \in CleanupTargets(p, g)
  BY <1>1, <1>2, <1>3 DEF CleanupTargets, OfKind
<1>6. g \in R
  BY <1>1, <1>2, <1>3, <1>4 DEF HasCleanup
<1> QED BY <1>1, <1>3, <1>4, <1>5, <1>6 DEF Undoable

(* Every live node has a cleanup action: its own, or its group's. *)
LEMMA LiveUndone ==
  ASSUME NEW p, Prepared(p), NEW a \in Nat, NEW n \in LiveNodes(p), n <= a,
         NEW R \in SUBSET Nat,
         \A c \in 1..a : c \in DOMAIN p /\ p[c].kind \in HasCleanup => c \in R
  PROVE  n \in Undoable(p, R, a)
<1>1. p \in Seq(NodeRecord(DOMAIN p)) /\ DOMAIN p = 1..Len(p) /\ Len(p) \in Nat
      /\ n \in DOMAIN p
  BY DEF Prepared, LiveNodes
<1>2. CASE p[n].kind # "lvm-lv"
  <2>1. n \in CleanupTargets(p, n) /\ p[n].kind \in HasCleanup
    BY <1>2 DEF LiveNodes, Live, HasCleanup, CleanupTargets
  <2> QED BY <1>1, <2>1 DEF Undoable
<1>3. CASE p[n].kind = "lvm-lv"
  <2>1. n \in Undoable(p, R, n - 1)
    BY <1>1, <1>3, VolumeUndone
  <2>2. PICK c \in R : c <= n - 1 /\ n \in CleanupTargets(p, c)
    BY <2>1 DEF Undoable
  <2> QED BY <1>1, <2>2 DEF Undoable
<1> QED BY <1>2, <1>3

(* One node fewer to undo. *)
LEMMA UndoableLess ==
  ASSUME NEW p, NEW a \in Nat, NEW R \in SUBSET Nat, NEW u \in Undoable(p, R, a)
  PROVE  \/ u \in Undoable(p, R, a - 1)
         \/ a \in R /\ u \in CleanupTargets(p, a)
<1>1. PICK c \in R : c <= a /\ u \in CleanupTargets(p, c)
  BY DEF Undoable
<1>2. CASE c = a
  BY <1>1, <1>2
<1>3. CASE c # a
  BY <1>1, <1>3 DEF Undoable
<1> QED BY <1>2, <1>3

LEMMA InitLeak == Init => LeakInv
<1> SUFFICES ASSUME Init PROVE LeakInv
  OBVIOUS
<1>1. kernel.up = {} /\ before = {}
  BY DEF Init, Blank
<1>2. phase = "preflight" /\ exit = "none"
  BY DEF Init
<1> QED BY <1>1, <1>2 DEF LeakInv, UpInv, LeftInv

(* A command brings up nothing but its node. *)
LEMMA RunCommandUp ==
  ASSUME RunInv, NEW outcome, RunCommandAs(outcome)
  PROVE  /\ at \in DOMAIN plan /\ step \in Nat \ {0}
         /\ \/ kernel'.up = kernel.up
            \/ at \in LiveNodes(plan) /\ kernel'.up = kernel.up \cup {at}
         /\ dry => kernel' = kernel
<1>1. /\ plan \in Plans /\ DOMAIN plan = 1..Len(plan) /\ Len(plan) \in Nat
      /\ at \in DOMAIN plan /\ step \in DOMAIN EffectiveLines(plan, at)
  BY PlanShape DEF RunInv, TypeOK, UndoLog, RunCommandAs
<1>2. CommandLines(plan, at) \in Seq(LineOf(OpsOf(plan[at].kind)))
  BY <1>1, LinesTyped
<1>3. step \in Nat \ {0}
  BY <1>1, <1>2 DEF EffectiveLines, ApplyIgnore
<1> DEFINE op == EffectiveLines(plan, at)[step].op
<1>4. op \in Raising => at \in LiveNodes(plan)
  BY <1>1, EffectiveOp
<1>5. Effect(plan, kernel, at, op).up = UpBy(kernel, at, op)
  BY DEF Effect
<1> QED BY <1>1, <1>3, <1>4, <1>5 DEF RunCommandAs, TakesEffect, UpBy, Raising

(* The shape of a state, for the proofs of its steps. *)
LEMMA RunShape ==
  ASSUME RunInv
  PROVE  /\ plan \in Plans /\ Prepared(plan) /\ Len(plan) \in Nat
         /\ DOMAIN plan = 1..Len(plan) /\ LiveNodes(plan) \subseteq DOMAIN plan
         /\ kernel \in KernelStates(plan)
         /\ kernel.up \subseteq LiveNodes(plan) /\ before \subseteq DOMAIN plan
         /\ at \in 0..(Len(plan) + 1) /\ step \in Nat
         /\ Len(succeeded) \in Nat /\ Len(succeeded) <= Len(plan)
         /\ DOMAIN succeeded = 1..Len(succeeded)
         /\ registered \subseteq DOMAIN plan /\ registered \in SUBSET Nat
         /\ phase = "cleanup" => at <= Len(succeeded)
<1>1. plan \in Plans /\ kernel \in KernelStates(plan)
  BY DEF RunInv, TypeOK
<1>2. /\ Prepared(plan) /\ Len(plan) \in Nat /\ DOMAIN plan = 1..Len(plan)
      /\ LiveNodes(plan) \subseteq DOMAIN plan
  BY <1>1, PlanShape, ProvisionerAssumption DEF LiveNodes
<1>3. kernel.up \subseteq LiveNodes(plan)
  BY <1>1 DEF KernelStates
<1>4. /\ before \subseteq DOMAIN plan /\ registered \subseteq DOMAIN plan
      /\ at \in 0..(Len(plan) + 1) /\ step \in Nat
      /\ succeeded \in Seq(DOMAIN plan)
  BY DEF RunInv, TypeOK
<1>5. /\ Len(succeeded) \in Nat /\ DOMAIN succeeded = 1..Len(succeeded)
      /\ Len(succeeded) <= Len(plan) /\ (phase = "cleanup" => at <= Len(succeeded))
  BY <1>4 DEF RunInv, UndoLog
<1>6. registered \in SUBSET Nat
  BY <1>2, <1>4
<1> QED BY <1>1, <1>2, <1>3, <1>4, <1>5, <1>6

(* The pre-flight unmount only takes down. *)
LEMMA PreflightUp ==
  ASSUME RunInv, Preflight
  PROVE  /\ kernel'.up \subseteq kernel.up /\ before' = kernel'.up
         /\ dry => kernel' = kernel
BY DEF Preflight, SkipPreflight, Without, RunInv, TypeOK, KernelStates

(* A step of cleanup releases what the node's action is for, or else       *)
(* blames the node.                                                        *)
LEMMA CleanupUp ==
  ASSUME RunInv, CleanupNode
  PROVE  /\ at \in DOMAIN plan /\ at' = at - 1
         /\ \/ at \notin registered /\ UNCHANGED <<kernel, blame>>
            \/ dry /\ UNCHANGED <<kernel, blame>>
            \/ /\ at \in registered /\ ~dry
               /\ blame' = blame \cup {at} /\ kernel' = kernel
            \/ /\ at \in registered /\ blame' = blame
               /\ kernel'.up = kernel.up \ Released(plan, kernel, at)
<1>1. at \in DOMAIN plan /\ NextToClean = at
  BY RunShape DEF CleanupNode, RunInv, UndoLog, NextToClean
<1>2. \A S : Without(kernel, S).up = kernel.up \ S
  BY RunShape DEF Without, KernelStates
<1> QED BY <1>1, <1>2 DEF CleanupNode, TakesEffect

(* Keeping is monotonic. *)
LEMMA KeptGrows ==
  ASSUME NEW p, NEW S, NEW B, S \subseteq B
  PROVE  S \subseteq Kept(p, S) /\ Kept(p, S) \subseteq Kept(p, B)
BY DEF Kept

(* executor.py run: a node that fails hands over to cleanup what has been  *)
(* executed, and it may hold something itself.                             *)
LEMMA FailLeft ==
  ASSUME RunInv, UNCHANGED <<config, books, before>>, Fail,
         phase = "execute" => Len(succeeded) = at - 1,
         phase = "verify" => Len(succeeded) = Len(plan),
         NEW B \in SUBSET Reach(plan), before \subseteq B,
         kernel'.up \subseteq B \cup 1..Len(succeeded),
         kernel'.up \subseteq LiveNodes(plan)
  PROVE  kernel'.up \subseteq Kept(plan, B) \cup Undoable(plan, registered, at')
<1>1. at' = Len(succeeded)
  BY DEF Fail
<1>2. Prepared(plan) /\ Len(succeeded) \in Nat /\ registered \in SUBSET Nat
  BY RunShape
<1>3. \A c \in 1..Len(succeeded) :
        c \in DOMAIN plan /\ plan[c].kind \in HasCleanup => c \in registered
  BY RunShape DEF RunInv, UndoLog
<1>4. \A n \in LiveNodes(plan) : n <= Len(succeeded) =>
        n \in Undoable(plan, registered, Len(succeeded))
  BY <1>2, <1>3, LiveUndone
<1>5. B \subseteq Kept(plan, B)
  BY KeptGrows
<1> QED BY <1>1, <1>2, <1>4, <1>5

(* executor.py run and _cleanup: every step keeps what is up within what   *)
(* was there, what has been entered, and what is blamed or will be undone. *)
LEMMA LeakStep == RunInv /\ LeakInv /\ [Next]_vars => LeakInv'
<1> SUFFICES ASSUME RunInv, LeakInv, [Next]_vars PROVE LeakInv'
  OBVIOUS
<1> USE DEF LeakInv
<1>1. /\ Prepared(plan) /\ Len(plan) \in Nat
      /\ DOMAIN plan = 1..Len(plan) /\ LiveNodes(plan) \subseteq DOMAIN plan
      /\ at \in 0..(Len(plan) + 1) /\ step \in Nat /\ Len(succeeded) \in Nat
  BY RunShape
<1>2. Reach(plan) \subseteq LiveNodes(plan)
  BY DEF Reach
<1>3. CASE UNCHANGED vars
  BY <1>3 DEF vars, config, status, books, UpInv, LeftInv, Begun, Blamed
<1>4. CASE Preflight
  <2>1. kernel'.up \subseteq kernel.up /\ before' = kernel'.up
    BY <1>4, PreflightUp
  <2>2. phase' = "modprobe" /\ plan' = plan
    BY <1>4 DEF Preflight, config
  <2>3. kernel'.up \subseteq Reach(plan) /\ exit' = exit /\ phase = "preflight"
    BY <1>4, <2>1 DEF Preflight, UpInv
  <2> QED BY <2>1, <2>2, <2>3 DEF UpInv, LeftInv
<1>5. CASE Modprobe
  <2>1. UNCHANGED <<config, kernel, before>> /\ phase = "modprobe"
        /\ \/ phase' = phase /\ exit' = exit
           \/ phase' = "exited" /\ exit' = "traceback"
    BY <1>5 DEF Modprobe, ModprobeAs
  <2> QED BY <2>1 DEF UpInv, LeftInv, config
<1>6. CASE StartNodes
  <2>1. /\ UNCHANGED <<config, kernel, before, exit>> /\ phase = "modprobe"
        /\ phase' = "execute" /\ at' = 1 /\ step' = 0
    BY <1>6 DEF StartNodes
  <2>2. Begun' = 0
    BY <2>1 DEF Begun
  <2>3. ResolvedTo(plan, 0)
    BY DEF ResolvedTo
  <2> QED BY <2>1, <2>2, <2>3 DEF UpInv, LeftInv, config
<1>7. CASE EnterNode
  <2>1. /\ UNCHANGED <<config, books, kernel, before>> /\ phase = "execute"
        /\ at \in DOMAIN plan /\ step = 0 /\ Len(succeeded) = at - 1
    BY <1>1, <1>7 DEF EnterNode, RunInv, UndoLog
  <2>2. Begun = at - 1 /\ exit # "killed"
    BY <2>1 DEF Begun, UpInv
  <2>3. CASE Unresolved(plan, at)
    <3>1. Fail /\ before' = before /\ blame' = blame \cup {at}
          /\ phase' = "cleanup" /\ exit' = "failed"
      BY <1>7, <2>1, <2>3 DEF EnterNode, Fail
    <3> DEFINE B == Blamed' \cap Reach(plan)
    <3>2. before \subseteq B /\ B \subseteq Reach(plan)
      BY <2>1, <3>1 DEF Blamed, UpInv
    <3>3. /\ kernel'.up \subseteq B \cup 1..Len(succeeded)
          /\ kernel'.up \subseteq LiveNodes(plan)
      BY <1>2, <2>1, <2>2, <3>2 DEF UpInv
    <3> HIDE DEF B
    <3>4. kernel'.up \subseteq Kept(plan, B) \cup Undoable(plan, registered, at')
      BY <2>1, <3>1, <3>2, <3>3, FailLeft
    <3> QED BY <2>1, <2>2, <3>1, <3>4 DEF UpInv, LeftInv, config, books, B
  <2>4. CASE ~Unresolved(plan, at)
    <3>1. step' = 1 /\ UNCHANGED <<phase, at, exit>>
      BY <1>7, <2>4 DEF EnterNode
    <3>2. Begun' = at
      BY <3>1 DEF Begun
    <3>3. ResolvedTo(plan, at) /\ 1..(at - 1) \subseteq 1..at
      BY <1>1, <2>1, <2>2, <2>4 DEF UpInv, ResolvedTo
    <3> QED BY <2>1, <2>2, <3>1, <3>2, <3>3 DEF UpInv, LeftInv, config
  <2> QED BY <2>3, <2>4
<1>8. CASE RunCommand
  <2>0. PICK outcome \in Outcome : RunCommandAs(outcome)
    BY <1>8 DEF RunCommand
  <2>1. /\ UNCHANGED <<config, books, before>> /\ phase = "execute"
        /\ Len(succeeded) = at - 1
    BY <2>0 DEF RunCommandAs, RunInv, UndoLog
  <2>2. /\ at \in DOMAIN plan /\ step \in Nat \ {0}
        /\ \/ kernel'.up = kernel.up
           \/ at \in LiveNodes(plan) /\ kernel'.up = kernel.up \cup {at}
        /\ dry => kernel' = kernel
    BY <2>0, RunCommandUp
  <2>3. Begun = at /\ exit # "killed"
    BY <2>1, <2>2 DEF Begun, UpInv
  <2>4. kernel'.up \subseteq Reach(plan) /\ kernel'.up \subseteq before \cup 1..at
    BY <1>1, <2>1, <2>2, <2>3 DEF UpInv, Reach
  <2>5. CASE Fail /\ blame' = blame \cup {at}
    <3> DEFINE B == Blamed' \cap Reach(plan)
    <3>1. before \subseteq B /\ B \subseteq Reach(plan)
      BY <2>1 DEF Blamed, UpInv
    <3>2. \A n \in kernel'.up : n \in B \cup 1..Len(succeeded)
      <4>1. at \in Reach(plan) => at \in B
        BY <2>5 DEF Blamed
      <4>2. \A n \in 1..at : n = at \/ n \in 1..(at - 1)
        BY <1>1, <2>2
      <4> QED BY <2>1, <2>4, <3>1, <4>1, <4>2
    <3> HIDE DEF B
    <3>3. kernel'.up \subseteq Kept(plan, B) \cup Undoable(plan, registered, at')
      BY <1>2, <2>1, <2>4, <2>5, <3>1, <3>2, FailLeft
    <3>4. phase' = "cleanup" /\ exit' = "failed"
      BY <2>5 DEF Fail
    <3> QED BY <2>1, <2>2, <2>3, <2>4, <3>3, <3>4 DEF UpInv, LeftInv, config, books, B
  <2>6. CASE step' = step + 1 /\ UNCHANGED <<phase, at, exit, blame>>
    <3>1. Begun' = at
      BY <1>1, <2>6 DEF Begun
    <3> QED BY <2>1, <2>2, <2>3, <2>4, <2>6, <3>1 DEF UpInv, LeftInv, config
  <2> QED BY <2>0, <2>5, <2>6 DEF RunCommandAs
<1>9. CASE CompleteNode
  <2>1. /\ UNCHANGED <<config, kernel, before, exit>>
        /\ phase = "execute" /\ phase' = phase
        /\ at \in DOMAIN plan /\ at' = at + 1 /\ step' = 0
    BY <1>1, <1>9 DEF CompleteNode, RunInv, UndoLog
  <2>2. step # 0
    <3>1. CommandLines(plan, at) \in Seq(LineOf(OpsOf(plan[at].kind)))
      BY <2>1, RunShape, LinesTyped
    <3>2. Len(EffectiveLines(plan, at)) \in Nat
      BY <3>1 DEF EffectiveLines, ApplyIgnore
    <3> QED BY <1>9, <3>2 DEF CompleteNode
  <2>3. Begun = at /\ Begun' = at
    BY <1>1, <2>1, <2>2 DEF Begun
  <2> QED BY <2>1, <2>3 DEF UpInv, LeftInv, config
<1>10. CASE StartVerify
  BY <1>10 DEF StartVerify, UpInv, LeftInv, config
<1>11. CASE PassNode \/ VerifyNode
  <2>1. /\ UNCHANGED <<config, books, kernel, before, blame>> /\ phase = "verify"
        /\ (Fail \/ UNCHANGED <<phase, exit>>)
    BY <1>11 DEF PassNode, VerifyNode, VerifyNodeAs
  <2>2. CASE Fail
    <3> DEFINE B == Blamed' \cap Reach(plan)
    <3>1. before \subseteq B /\ B \subseteq Reach(plan)
      BY <2>1 DEF Blamed, UpInv
    <3>2. kernel'.up \subseteq LiveNodes(plan) /\ Len(succeeded) = Len(plan)
      BY <1>2, <2>1 DEF UpInv, RunInv, UndoLog
    <3>3. kernel'.up \subseteq B \cup 1..Len(succeeded)
      BY <1>1, <3>2
    <3> HIDE DEF B
    <3>4. kernel'.up \subseteq Kept(plan, B) \cup Undoable(plan, registered, at')
      BY <2>1, <2>2, <3>1, <3>2, <3>3, FailLeft
    <3>5. phase' = "cleanup" /\ exit' = "failed"
      BY <2>2 DEF Fail
    <3> QED BY <2>1, <3>4, <3>5 DEF UpInv, LeftInv, config, books, B
  <2>3. CASE UNCHANGED <<phase, exit>>
    BY <2>1, <2>3 DEF UpInv, LeftInv, config
  <2> QED BY <2>1, <2>2, <2>3
<1>12. CASE Succeed
  BY <1>12 DEF Succeed, UpInv, LeftInv, config
<1>13. CASE CleanupNode
  <2>1. /\ UNCHANGED <<config, books, before, phase, exit>> /\ phase = "cleanup"
    BY <1>13 DEF CleanupNode
  <2>2. at \in DOMAIN plan /\ at' = at - 1
    BY <1>13, CleanupUp
  <2> DEFINE B == Blamed \cap Reach(plan)
             C == Blamed' \cap Reach(plan)
  <2>3. /\ kernel.up \subseteq Kept(plan, B) \cup Undoable(plan, registered, at)
        /\ kernel.up \subseteq Reach(plan)
        /\ before \subseteq B /\ B \subseteq Reach(plan)
        /\ exit # "killed"
    BY <2>1 DEF UpInv, LeftInv, Blamed
  <2>4. B \subseteq C /\ kernel'.up \subseteq kernel.up
        /\ (dry => kernel' = kernel)
    BY <1>13, <2>1, CleanupUp, RunShape DEF Blamed, CleanupNode, TakesEffect
  <2>5. /\ Kept(plan, B) \subseteq Kept(plan, C)
        /\ B \subseteq Kept(plan, C) /\ C \subseteq Kept(plan, C)
    BY <2>4, KeptGrows
  <2>6. \A u \in Undoable(plan, registered, at) :
          \/ u \in Undoable(plan, registered, at - 1)
          \/ at \in registered /\ u \in CleanupTargets(plan, at)
    <3>1. at \in Nat /\ registered \in SUBSET Nat
      BY <1>1, RunShape
    <3> QED BY <3>1, UndoableLess
  <2>7. kernel'.up \subseteq Kept(plan, C) \cup Undoable(plan, registered, at - 1)
    <3>1. CASE at \notin registered /\ UNCHANGED <<kernel, blame>>
      BY <2>3, <2>5, <2>6, <3>1
    <3>2. CASE dry /\ UNCHANGED <<kernel, blame>>
      <4>1. kernel'.up \subseteq B
        BY <2>1, <2>3, <3>2 DEF UpInv
      <4> QED BY <2>5, <4>1
    <3>3. CASE at \in registered /\ blame' = blame \cup {at} /\ kernel' = kernel
      <4>1. \A u \in kernel.up : u \in CleanupTargets(plan, at) => u \in C
        BY <2>1, <2>3, <3>3 DEF Blamed, config
      <4> HIDE DEF B, C
      <4> QED BY <2>3, <2>5, <2>6, <3>3, <4>1
    <3>4. CASE at \in registered /\ blame' = blame
               /\ kernel'.up = kernel.up \ Released(plan, kernel, at)
      <4>1. kernel.up \subseteq DOMAIN plan /\ registered \subseteq DOMAIN plan
        BY RunShape
      <4> HIDE DEF B, C
      <4>2. kernel.up \ Released(plan, kernel, at)
              \subseteq Kept(plan, B) \cup Undoable(plan, registered, at - 1)
        BY <1>1, <2>2, <2>3, <4>1, CleanupStep
      <4> QED BY <2>5, <3>4, <4>2
    <3> QED BY <1>13, <3>1, <3>2, <3>3, <3>4, CleanupUp
  <2> HIDE DEF B
  <2> QED BY <2>1, <2>2, <2>3, <2>4, <2>7 DEF UpInv, LeftInv, config, books
<1>14. CASE EndCleanup
  BY <1>14 DEF EndCleanup, UpInv, LeftInv, Blamed, config, books
<1>15. CASE Interrupt
  <2>1. UNCHANGED <<config, before>> /\ phase' = "exited" /\ exit' = "killed"
    BY <1>15 DEF Interrupt
  <2>2. kernel'.up \subseteq kernel.up
    BY <1>15, RunShape DEF Interrupt, Without, KernelStates
  <2> QED BY <2>1, <2>2 DEF UpInv, LeftInv, config
<1>16. CASE Rerun
  <2>1. UNCHANGED <<plan, kernel, before>> /\ phase' = "preflight" /\ exit' = "none"
    BY <1>16 DEF Rerun
  <2> QED BY <2>1 DEF UpInv, LeftInv
<1> QED BY <1>3, <1>4, <1>5, <1>6, <1>7, <1>8, <1>9, <1>10, <1>11, <1>12, <1>13,
           <1>14, <1>15, <1>16 DEF Next, Process

(* README.md:42 "reverse cleanup": whatever fails, whatever ignores errors *)
(* and whatever earlier runs left, a failed run leaves up only what was up *)
(* or was to come up at a node that failed, and what that rests on.        *)
THEOREM LeaksConfined == Spec => []LeakConfined
<1>1. Init => RunInv /\ LeakInv
  BY InitInv, InitLeak
<1>2. RunInv /\ LeakInv /\ [Next]_vars => RunInv' /\ LeakInv'
  BY StepInv, LeakStep
<1>3. RunInv /\ LeakInv => LeakConfined
  <2> SUFFICES ASSUME RunInv, LeakInv, phase = "exited", exit = "failed"
               PROVE  kernel.up \subseteq Kept(plan, Blamed)
    BY DEF LeakConfined
  <2>1. Undoable(plan, registered, 0) = {}
    BY RunShape DEF Undoable
  <2>2. kernel.up \subseteq Kept(plan, Blamed \cap Reach(plan))
    BY <2>1 DEF LeakInv, LeftInv
  <2> QED BY <2>2, KeptGrows
<1> QED BY <1>1, <1>2, <1>3, PTL DEF Spec
-----------------------------------------------------------------------------
(* The command that claims a node for the run: it brings the node up, or   *)
(* makes the group whose volumes cleanup will take down.                   *)
KeyAt(p, n) ==
  IF p[n].kind = "raid1" THEN Len(p[n].parents) + 1
  ELSE IF p[n].kind = "lvm-vg" THEN 1
  ELSE IF p[n].kind = "filesystem" THEN 3 ELSE 2

KeyOps(kind) ==
  IF kind = "lvm-vg" THEN {"vgcreate"}
  ELSE IF kind = "lvm-lv" THEN {"lvchange"} ELSE Raising \cap NeedsDown

Keyed(lines, key, ops) ==
  /\ DOMAIN lines = 1..Len(lines) /\ Len(lines) \in Nat
  /\ key \in DOMAIN lines
  /\ lines[key].op \in ops /\ lines[key].check = TRUE
  /\ \A k \in DOMAIN lines : lines[k].op \in Raising => k = key

LEMMA KeyedLines ==
  ASSUME NEW node, Len(node.parents) \in Nat, DOMAIN node.parents = 1..Len(node.parents)
  PROVE  /\ Keyed(Raid1Lines(node), Len(node.parents) + 1, {"create"})
         /\ Keyed(LuksLines(node), 2, {"open"})
         /\ Keyed(VgLines, 1, {"vgcreate"})
         /\ Keyed(LvLines, 2, {"lvchange"})
         /\ Keyed(FilesystemLines, 3, {"mount"})
         /\ Keyed(SwapLines, 2, {"swapon"})
<1>1. Keyed(Raid1Lines(node), Len(node.parents) + 1, {"create"})
  <2> DEFINE len == Len(node.parents)
             zero == [k \in 1..len |-> Unchecked("zero_superblock")]
             lines == zero \o <<Checked("create")>>
  <2>1. PICK S : Unchecked("zero_superblock") \in S /\ Checked("create") \in S
    <3>1. /\ Unchecked("zero_superblock")
               \in {Unchecked("zero_superblock"), Checked("create")}
          /\ Checked("create") \in {Unchecked("zero_superblock"), Checked("create")}
      OBVIOUS
    <3> QED BY <3>1
  <2>2. zero \in Seq(S) /\ Len(zero) = len
    BY <2>1
  <2>3. /\ Len(lines) = len + 1 /\ DOMAIN lines = 1..(len + 1)
        /\ \A k \in 1..len : lines[k] = Unchecked("zero_superblock")
        /\ lines[len + 1] = Checked("create")
    BY <2>1, <2>2
  <2>4. Raid1Lines(node) = lines
    BY DEF Raid1Lines
  <2> HIDE DEF lines, len
  <2>5. \A k \in 1..(len + 1) : k = len + 1 \/ k \in 1..len
    BY DEF len
  <2>6. Unchecked("zero_superblock").op \notin Raising /\ Checked("create").check = TRUE
        /\ Checked("create").op = "create"
    BY DEF Unchecked, Checked, Raising
  <2>7. len + 1 \in 1..(len + 1) /\ len + 1 \in Nat
    BY DEF len
  <2> QED BY <2>3, <2>4, <2>5, <2>6, <2>7 DEF Keyed, len
<1>2. Keyed(LuksLines(node), 2, {"open"})
  <2> DEFINE key == Passphrase(node)
             both == key \o <<"newline">> \o key
  <2>1. PICK a, b, c, d : a = Fed("luksFormat", key) /\ b = Fed("open", key)
                         /\ c = Fed("luksAddKey", both) /\ d = Fed("luksKillSlot", key)
    OBVIOUS
  <2>2. LuksLines(node) = <<a, b>> \o When("slot" \in node.opts, <<c, d>>)
    BY <2>1 DEF LuksLines
  <2>3. /\ a.op \notin Raising /\ b.op = "open" /\ b.check = TRUE
        /\ c.op \notin Raising /\ d.op \notin Raising
    BY <2>1 DEF Fed, Raising
  <2> DEFINE lines == LuksLines(node)
  <2>4. CASE "slot" \in node.opts
    <3>1. lines = <<a, b>> \o <<c, d>>
      BY <2>2, <2>4 DEF When
    <3>2. /\ Len(lines) = 4 /\ DOMAIN lines = 1..4 /\ lines[1] = a /\ lines[2] = b
          /\ lines[3] = c /\ lines[4] = d
      <4> HIDE DEF lines
      <4> QED BY <3>1
    <3> HIDE DEF lines
    <3> QED BY <2>3, <3>2 DEF Keyed, lines
  <2>5. CASE "slot" \notin node.opts
    <3>1. lines = <<a, b>> \o <<>>
      BY <2>2, <2>5 DEF When
    <3>2. /\ Len(lines) = 2 /\ DOMAIN lines = 1..2 /\ lines[1] = a /\ lines[2] = b
      <4> HIDE DEF lines
      <4> QED BY <3>1
    <3> HIDE DEF lines
    <3> QED BY <2>3, <3>2 DEF Keyed, lines
  <2> QED BY <2>4, <2>5
<1>3. Keyed(VgLines, 1, {"vgcreate"})
  BY DEF VgLines, Keyed, Checked, Raising
<1>4. Keyed(LvLines, 2, {"lvchange"})
  BY DEF LvLines, Keyed, Checked, Raising
<1>5. Keyed(FilesystemLines, 3, {"mount"})
  BY DEF FilesystemLines, Keyed, Checked, Raising
<1>6. Keyed(SwapLines, 2, {"swapon"})
  BY DEF SwapLines, Keyed, Checked, Raising
<1> QED BY <1>1, <1>2, <1>3, <1>4, <1>5, <1>6

LEMMA KeyLine ==
  ASSUME NEW p \in Plans, NEW n \in DOMAIN p, ~p[n].ignore,
         p[n].kind \in HasCleanup \cup Live
  PROVE  Keyed(EffectiveLines(p, n), KeyAt(p, n), KeyOps(p[n].kind))
<1>1. PICK node : node = p[n]
  OBVIOUS
<1>2. /\ Len(node.parents) \in Nat /\ DOMAIN node.parents = 1..Len(node.parents)
      /\ node.kind \in HasCleanup \cup Live /\ node.ignore = FALSE
  BY <1>1, PlanShape DEF NodeRecord
<1>3. \A lines, key, ops, more :
        Keyed(lines, key, ops) /\ ops \subseteq more => Keyed(lines, key, more)
  BY DEF Keyed
<1>4. /\ {"create"} \subseteq Raising \cap NeedsDown
      /\ {"open"} \subseteq Raising \cap NeedsDown
      /\ {"mount"} \subseteq Raising \cap NeedsDown
      /\ {"swapon"} \subseteq Raising \cap NeedsDown
  BY DEF Raising, NeedsDown
<1>5. Keyed(CommandLines(p, n), KeyAt(p, n), KeyOps(node.kind))
  <2>1. CASE node.kind = "raid1"
    BY <1>1, <1>2, <1>3, <1>4, <2>1, KeyedLines, LinesByKind DEF KeyAt, KeyOps
  <2>2. CASE node.kind = "dm-crypt-luks"
    BY <1>1, <1>2, <1>3, <1>4, <2>2, KeyedLines, LinesByKind DEF KeyAt, KeyOps
  <2>3. CASE node.kind = "lvm-vg"
    BY <1>1, <1>2, <1>3, <1>4, <2>3, KeyedLines, LinesByKind DEF KeyAt, KeyOps
  <2>4. CASE node.kind = "lvm-lv"
    BY <1>1, <1>2, <1>3, <1>4, <2>4, KeyedLines, LinesByKind DEF KeyAt, KeyOps
  <2>5. CASE node.kind = "filesystem"
    BY <1>1, <1>2, <1>3, <1>4, <2>5, KeyedLines, LinesByKind DEF KeyAt, KeyOps
  <2>6. CASE node.kind = "swap"
    BY <1>1, <1>2, <1>3, <1>4, <2>6, KeyedLines, LinesByKind DEF KeyAt, KeyOps
  <2> QED BY <1>2, <2>1, <2>2, <2>3, <2>4, <2>5, <2>6 DEF HasCleanup, Live
<1> DEFINE lines == CommandLines(p, n)
<1>6. lines \in Seq(LineOf(OpsOf(p[n].kind)))
  BY LinesTyped
<1> HIDE DEF lines
<1>7. /\ DOMAIN EffectiveLines(p, n) = DOMAIN lines
      /\ EffectiveLines(p, n) = [k \in 1..Len(lines) |-> EffectiveLines(p, n)[k]]
      /\ \A k \in DOMAIN lines : EffectiveLines(p, n)[k].op = lines[k].op
           /\ EffectiveLines(p, n)[k].check = (lines[k].check /\ TRUE)
  <2>1. \A k \in DOMAIN lines : lines[k] \in LineOf(OpsOf(p[n].kind))
    BY <1>6
  <2> QED BY <1>1, <1>2, <1>6, <2>1 DEF EffectiveLines, ApplyIgnore, LineOf, lines
<1>8. Len(EffectiveLines(p, n)) = Len(lines)
  BY <1>6, <1>7
<1> QED BY <1>1, <1>5, <1>7, <1>8 DEF Keyed, lines
-----------------------------------------------------------------------------
(* No node ignores errors, and no command succeeds without its effect. *)
Strict ==
  /\ "silent" \notin Faults
  /\ \A p \in Plans : \A n \in DOMAIN p : ~p[n].ignore

(* Nothing is up without what it rests on. *)
Closed(p, up) == \A m \in up : Beneath(p, m) \cap LiveNodes(p) \subseteq up

(* What the run has made of a node whose claiming command succeeded. *)
Claimed(n) ==
  /\ n \in LiveNodes(plan) => n \in kernel.up
  /\ plan[n].kind \in HasCleanup => CleanupTargets(plan, n) \cap before = {}

(* What is up when commands are taken at their word, and whose it is. *)
OwnInv ==
  /\ Closed(plan, kernel.up) /\ Closed(plan, before)
  /\ phase \in {"modprobe", "execute", "verify"} => before \subseteq kernel.up
  /\ phase = "execute" /\ ~dry =>
       /\ LiveNodes(plan) \cap 1..(at - 1) \subseteq kernel.up
       /\ at \in DOMAIN plan /\ plan[at].kind \in HasCleanup \cup Live
            /\ step > KeyAt(plan, at) => Claimed(at)
  /\ phase = "verify" /\ ~dry => LiveNodes(plan) \subseteq kernel.up
  /\ phase = "cleanup" /\ ~dry =>
       OfKind(plan, "filesystem") \cap 1..at \subseteq kernel.up
  /\ phase \in {"execute", "verify", "cleanup"} /\ ~dry =>
       \A n \in registered : CleanupTargets(plan, n) \cap before = {}

(* A volume group that can be made has no volume up. *)
LEMMA GroupIsFree ==
  ASSUME NEW p, Prepared(p), NEW k, NEW n \in DOMAIN p,
         p[n].kind = "lvm-vg", ~Unresolved(p, n), ~Refused(p, k, n, "vgcreate")
  PROVE  CleanupTargets(p, n) \cap k.up = {}
<1> SUFFICES ASSUME NEW u \in CleanupTargets(p, n), u \in k.up
             PROVE  FALSE
  OBVIOUS
<1>1. p \in Seq(NodeRecord(DOMAIN p)) /\ DOMAIN p = 1..Len(p) /\ Len(p) \in Nat
  BY DEF Prepared
<1>2. u \in DOMAIN p /\ n < u /\ p[u].kind = "lvm-lv" /\ n \in ParentsOf(p[u])
  BY TargetsAfter DEF CleanupTargets, OfKind
<1>3. p[n].parents \in Seq(DOMAIN p) /\ Len(p[n].parents) >= 1
  BY <1>1, NodeTyped DEF Prepared, Valid, ValidVg
<1>4. PICK q \in ParentsOf(p[n]) : q \in DOMAIN p
  BY <1>3 DEF ParentsOf
<1>5. HasDevice(p)[q]
  BY <1>4 DEF Unresolved, Fence
<1>6. p[q].kind # "filesystem"
  BY <1>1, <1>4, <1>5, MountHasNoDevice
<1>7. q < n
  BY <1>4, <1>6 DEF Prepared
<1>8. q \in Devices(p)[n] /\ n \in Below(p, u)
  BY <1>1, <1>2, <1>4, <1>7, DevicesAre DEF Below
<1>9. q \in Devices(p)[u]
  BY <1>1, <1>2, <1>8, DevicesAre
<1>10. q \in Beneath(p, u)
  BY <1>2, <1>9, BeneathOrdered
<1>11. Busy(p, k, q)
  BY <1>10 DEF Busy
<1> QED BY <1>4, <1>11 DEF Refused, Exclusive

(* A command that is taken at its word has been accepted, and is done. *)
LEMMA KeyClaims ==
  ASSUME Strict, RunInv, UpInv, OwnInv, ~dry, NEW outcome, RunCommandAs(outcome),
         ~Fail, plan[at].kind \in HasCleanup \cup Live, step = KeyAt(plan, at)
  PROVE  at' = at /\ Claimed(at)'
<1>1. /\ plan \in Plans /\ Prepared(plan) /\ at \in DOMAIN plan /\ phase = "execute"
      /\ UNCHANGED <<config, books, before>> /\ ~plan[at].ignore
  BY RunShape, RunCommandUp DEF Strict, RunCommandAs
<1> DEFINE op == EffectiveLines(plan, at)[step].op
<1>2. op \in KeyOps(plan[at].kind) /\ EffectiveLines(plan, at)[step].check = TRUE
  BY <1>1, KeyLine DEF Keyed
<1>3. ~Raises(outcome, TRUE) /\ at' = at
  BY <1>2 DEF RunCommandAs
<1>4. ~Refused(plan, kernel, at, op) /\ outcome = "ok"
  <2>1. outcome \in Outcomes(Faults, Refused(plan, kernel, at, op))
    BY DEF RunCommandAs
  <2> QED BY <1>3, <2>1, ProvisionerAssumption DEF Outcomes, Raises, FaultKinds, Strict
<1>5. kernel' = Effect(plan, kernel, at, op)
  BY <1>4 DEF RunCommandAs, TakesEffect
<1>6. before \subseteq kernel.up
  BY <1>1 DEF OwnInv
<1>7. op \in Raising => at \in kernel'.up
  BY <1>5 DEF Effect, UpBy, Raising
<1>8. ~Unresolved(plan, at) /\ at \in 1..Len(plan)
  <2>1. step # 0 /\ at \in 1..at
    BY <1>1, RunShape, RunCommandUp
  <2> QED BY <1>1, <2>1, RunShape DEF UpInv, Begun, ResolvedTo
<1>9. CASE plan[at].kind = "lvm-vg"
  <2>1. op = "vgcreate" /\ at \notin LiveNodes(plan)
    BY <1>2, <1>9 DEF KeyOps, LiveNodes, Live
  <2>2. CleanupTargets(plan, at) \cap kernel.up = {}
    BY <1>1, <1>4, <1>8, <1>9, <2>1, GroupIsFree
  <2> QED BY <1>1, <1>3, <1>6, <2>1, <2>2 DEF Claimed, config
<1>10. CASE plan[at].kind = "lvm-lv"
  <2>1. op \in Raising
    BY <1>2, <1>10 DEF KeyOps, Raising
  <2> QED BY <1>1, <1>3, <1>7, <1>10, <2>1 DEF Claimed, config, HasCleanup
<1>11. CASE plan[at].kind \notin {"lvm-vg", "lvm-lv"}
  <2>1. op \in Raising /\ op \in NeedsDown
    BY <1>2, <1>11 DEF KeyOps
  <2>2. at \notin kernel.up
    BY <1>4, <2>1 DEF Refused
  <2>3. CleanupTargets(plan, at) = {at}
    BY <1>11 DEF CleanupTargets
  <2> QED BY <1>1, <1>3, <1>6, <1>7, <2>1, <2>2, <2>3 DEF Claimed, config
<1> QED BY <1>9, <1>10, <1>11

(* Only what nothing else rests on is released. *)
LEMMA ReleaseCloses ==
  ASSUME NEW p, NEW k, Closed(p, k.up), NEW n
  PROVE  Closed(p, k.up \ Released(p, k, n))
BY DEF Closed, Released, Busy

(* The whole tree that is unmounted carries nothing else. *)
LEMMA UnmountCloses ==
  ASSUME NEW p, Prepared(p), NEW k, k.up \subseteq Reach(p), Closed(p, k.up)
  PROVE  Closed(p, k.up \ UnmountedTree(p, k))
<1>1. p \in Seq(NodeRecord(DOMAIN p)) /\ DOMAIN p = 1..Len(p) /\ Len(p) \in Nat
  BY DEF Prepared
<1> DEFINE gone == UnmountedTree(p, k)
<1>2. gone \subseteq k.up /\ \A r \in gone : p[r].kind = "filesystem"
  BY DEF UnmountedTree, OfKind
<1> SUFFICES ASSUME NEW m \in k.up \ gone, NEW r \in Beneath(p, m), r \in gone
             PROVE  FALSE
  BY DEF Closed
<1>3. m \in DOMAIN p /\ ResolvedTo(p, m)
  BY DEF Reach, LiveNodes
<1>4. r \in Enclosing(p, m)
  <2>1. \A g \in {m} \cup Enclosing(p, m) : r \notin Devices(p)[g]
    <3> SUFFICES ASSUME NEW g \in {m} \cup Enclosing(p, m), r \in Devices(p)[g]
                 PROVE  FALSE
      OBVIOUS
    <3>1. g \in DOMAIN p /\ g \in 1..m
      BY <1>1, <1>3 DEF Enclosing
    <3>2. ~Unresolved(p, g)
      BY <1>3, <3>1 DEF ResolvedTo
    <3> QED BY <1>2, <3>1, <3>2, NoMountInDevices
  <2> QED BY <1>3, <2>1, BeneathOrdered
<1>5. /\ p[m].kind = "filesystem" /\ p[r].kind = "filesystem" /\ r < m /\ r \in DOMAIN p
      /\ IsPrefix(p[r].path, p[m].path)
  BY <1>1, <1>3, <1>4 DEF Enclosing
<1>6. m \in OfKind(p, "filesystem") /\ r \in OfKind(p, "filesystem")
  BY <1>3, <1>5 DEF OfKind
<1>7. p[m].path = <<>>
  BY <1>2, <1>6 DEF UnmountedTree
<1>8. p[r].path = <<>>
  <2>1. PICK T : T = STRING
    OBVIOUS
  <2>2. p[r].path \in Seq(T) /\ p[m].path \in Seq(T)
    BY <1>1, <1>3, <1>5, <2>1, NodeTyped
  <2>3. Len(p[r].path) <= Len(p[m].path)
    BY <1>5, <2>2, PrefixMeans
  <2> QED BY <1>7, <2>2, <2>3
<1>9. m <= r
  BY <1>6, <1>7, <1>8 DEF UnmountedTree
<1> QED BY <1>1, <1>3, <1>5, <1>9

(* Cleanup of a node that this run claimed releases nothing that was       *)
(* there before, and no mount that is still to be cleaned up.              *)
LEMMA ReleaseOwn ==
  ASSUME NEW p, Prepared(p), NEW k, k.up \subseteq LiveNodes(p),
         NEW old, Closed(p, old), NEW n \in DOMAIN p,
         CleanupTargets(p, n) \cap old = {},
         OfKind(p, "filesystem") \cap 1..n \subseteq k.up
  PROVE  /\ Released(p, k, n) \cap old = {}
         /\ Released(p, k, n) \cap OfKind(p, "filesystem") \cap 1..(n - 1) = {}
<1>1. p \in Seq(NodeRecord(DOMAIN p)) /\ DOMAIN p = 1..Len(p) /\ Len(p) \in Nat
  BY DEF Prepared
<1> SUFFICES ASSUME NEW u \in Released(p, k, n)
             PROVE  u \notin old /\ (p[u].kind = "filesystem" => n <= u)
  BY <1>1 DEF OfKind
<1>2. CASE p[n].kind # "filesystem"
  <2>1. u \in CleanupTargets(p, n)
    BY <1>2 DEF Released
  <2> QED BY <1>1, <1>2, <2>1, TargetsAfter
<1>3. CASE p[n].kind = "filesystem"
  <2>1. n \in k.up /\ n \in OfKind(p, "filesystem") /\ n \notin old
    BY <1>1, <1>3 DEF OfKind, CleanupTargets
  <2>2. /\ u \in k.up /\ u \in DOMAIN p /\ p[u].kind = "filesystem"
        /\ p[u].path = p[n].path /\ n <= u
    BY <1>3, <2>1 DEF Released, MountedAt, LiveNodes
  <2>3. CASE u = n
    BY <2>1, <2>2, <2>3
  <2>4. CASE u # n
    <3>1. IsPrefix(p[n].path, p[u].path)
      BY <1>1, <2>2, PrefixReflexive
    <3>2. n \in Enclosing(p, u)
      BY <1>1, <1>3, <2>2, <2>4, <3>1 DEF Enclosing
    <3>3. n \in Beneath(p, u) /\ n \in LiveNodes(p)
      BY <1>3, <2>2, <3>2, BeneathOrdered DEF LiveNodes, Live
    <3> QED BY <2>1, <2>2, <3>3 DEF Closed
  <2> QED BY <2>3, <2>4
<1> QED BY <1>2, <1>3

LEMMA InitOwn == Init => OwnInv
<1> SUFFICES ASSUME Init PROVE OwnInv
  OBVIOUS
<1>1. kernel.up = {} /\ before = {} /\ phase = "preflight"
  BY DEF Init, Blank
<1> QED BY <1>1 DEF OwnInv, Closed

(* A command that fails leaves nothing up without what it rests on, and    *)
(* cleanup finds every mount it is to undo.                                *)
LEMMA OwnCommand ==
  ASSUME Strict, RunInv, UpInv, OwnInv, NEW outcome, RunCommandAs(outcome)
  PROVE  /\ Closed(plan, kernel'.up) /\ kernel.up \subseteq kernel'.up
         /\ ~dry => LiveNodes(plan) \cap 1..(at - 1) \subseteq kernel.up
<1>1. /\ Prepared(plan) /\ DOMAIN plan = 1..Len(plan) /\ Len(plan) \in Nat
      /\ at \in DOMAIN plan /\ phase = "execute"
      /\ \/ kernel'.up = kernel.up
         \/ at \in LiveNodes(plan) /\ kernel'.up = kernel.up \cup {at}
      /\ dry => kernel' = kernel
  BY RunShape, RunCommandUp DEF RunCommandAs
<1>2. CASE kernel'.up = kernel.up
  BY <1>1, <1>2 DEF OwnInv
<1>3. CASE kernel'.up # kernel.up
  <2>1. ~dry /\ kernel'.up = kernel.up \cup {at}
    BY <1>1, <1>3
  <2>2. LiveNodes(plan) \cap 1..(at - 1) \subseteq kernel.up
    BY <1>1, <2>1 DEF OwnInv
  <2>3. Beneath(plan, at) \subseteq 1..(at - 1)
    BY <1>1, BeneathOrdered
  <2> QED BY <2>1, <2>2, <2>3 DEF OwnInv, Closed
<1> QED BY <1>2, <1>3

LEMMA OwnStep ==
  ASSUME Strict
  PROVE  RunInv /\ UpInv /\ OwnInv /\ [Next]_vars => OwnInv'
<1> SUFFICES ASSUME RunInv, UpInv, OwnInv, [Next]_vars PROVE OwnInv'
  OBVIOUS
<1>1. /\ plan \in Plans /\ Prepared(plan) /\ Len(plan) \in Nat
      /\ DOMAIN plan = 1..Len(plan) /\ LiveNodes(plan) \subseteq DOMAIN plan
      /\ at \in 0..(Len(plan) + 1) /\ step \in Nat /\ Len(succeeded) \in Nat
      /\ kernel.up \subseteq LiveNodes(plan) /\ registered \subseteq DOMAIN plan
  BY RunShape
<1>2. \A S : Without(kernel, S).up = kernel.up \ S
  BY RunShape DEF Without, KernelStates
<1>3. CASE UNCHANGED vars
  BY <1>3 DEF vars, config, status, books, OwnInv, Claimed
<1>4. CASE Preflight
  <2>1. /\ before' = kernel'.up /\ phase' = "modprobe" /\ plan' = plan
        /\ \/ kernel' = kernel
           \/ kernel'.up = kernel.up \ UnmountedTree(plan, kernel)
    BY <1>2, <1>4 DEF Preflight, config
  <2>2. Closed(plan, kernel'.up)
    BY <1>1, <2>1, UnmountCloses DEF OwnInv, UpInv
  <2> QED BY <2>1, <2>2 DEF OwnInv
<1>5. CASE Modprobe
  <2>1. UNCHANGED <<config, kernel, before>> /\ phase = "modprobe"
        /\ (phase' = phase \/ phase' = "exited")
    BY <1>5 DEF Modprobe, ModprobeAs
  <2> QED BY <2>1 DEF OwnInv, config
<1>6. CASE StartNodes
  <2>1. /\ UNCHANGED <<config, kernel, before, registered>> /\ phase = "modprobe"
        /\ phase' = "execute" /\ at' = 1 /\ step' = 0 /\ succeeded = <<>>
    BY <1>6 DEF StartNodes, books, RunInv, UndoLog
  <2>2. registered = {}
    BY <2>1 DEF RunInv, UndoLog
  <2>3. ~(step' > KeyAt(plan, at')) \/ at' \notin DOMAIN plan
    <3>1. at' \in DOMAIN plan => Len(plan[at'].parents) \in Nat
      BY <1>1, PlanShape DEF NodeRecord
    <3> QED BY <2>1, <3>1 DEF KeyAt
  <2> QED BY <2>1, <2>2, <2>3 DEF OwnInv, config
<1>7. CASE EnterNode
  <2>1. /\ UNCHANGED <<config, books, kernel, before>> /\ phase = "execute"
        /\ at \in DOMAIN plan /\ Len(succeeded) = at - 1
    BY <1>1, <1>7 DEF EnterNode, RunInv, UndoLog
  <2>2. CASE Fail
    <3>1. phase' = "cleanup" /\ at' = at - 1
      BY <2>1, <2>2 DEF Fail
    <3>2. ~dry => OfKind(plan, "filesystem") \cap 1..at' \subseteq kernel.up
      BY <2>1, <3>1 DEF OwnInv, OfKind, LiveNodes, Live
    <3> QED BY <2>1, <3>1, <3>2 DEF OwnInv, config, books
  <2>3. CASE step' = 1 /\ UNCHANGED <<phase, at>>
    <3>1. ~(step' > KeyAt(plan, at))
      <4>1. Len(plan[at].parents) \in Nat
        BY <1>1, <2>1, PlanShape DEF NodeRecord
      <4> QED BY <2>3, <4>1 DEF KeyAt
    <3> QED BY <2>1, <2>3, <3>1 DEF OwnInv, config, books
  <2> QED BY <1>7, <2>2, <2>3 DEF EnterNode
<1>8. CASE RunCommand
  <2>0. PICK outcome \in Outcome : RunCommandAs(outcome)
    BY <1>8 DEF RunCommand
  <2>1. /\ UNCHANGED <<config, books, before>> /\ phase = "execute"
        /\ Len(succeeded) = at - 1 /\ at \in DOMAIN plan
    BY <2>0, RunCommandUp DEF RunCommandAs, RunInv, UndoLog
  <2>2. /\ Closed(plan, kernel'.up) /\ kernel.up \subseteq kernel'.up
        /\ ~dry => LiveNodes(plan) \cap 1..(at - 1) \subseteq kernel.up
    BY <2>0, OwnCommand
  <2>3. CASE Fail
    <3>1. phase' = "cleanup" /\ at' = at - 1
      BY <2>1, <2>3 DEF Fail
    <3>2. ~dry => OfKind(plan, "filesystem") \cap 1..at' \subseteq kernel'.up
      BY <2>2, <3>1 DEF OfKind, LiveNodes, Live
    <3> QED BY <2>1, <2>2, <3>1, <3>2 DEF OwnInv, config, books
  <2>4. CASE ~Fail
    <3>1. step' = step + 1 /\ UNCHANGED <<phase, at>>
      BY <2>0, <2>4 DEF RunCommandAs
    <3>2. ASSUME ~dry, plan[at].kind \in HasCleanup \cup Live,
                 step + 1 > KeyAt(plan, at)
          PROVE  Claimed(at)'
      <4>1. KeyAt(plan, at) \in Nat
        <5>1. Len(plan[at].parents) \in Nat
          BY <1>1, <2>1, PlanShape DEF NodeRecord
        <5> QED BY <5>1 DEF KeyAt
      <4>2. CASE step = KeyAt(plan, at)
        BY <2>0, <2>4, <3>2, <4>2, KeyClaims
      <4>3. CASE step > KeyAt(plan, at)
        BY <2>1, <2>2, <3>1, <3>2, <4>3 DEF OwnInv, Claimed, config
      <4> QED BY <1>1, <3>2, <4>1, <4>2, <4>3
    <3>3. (plan[at].kind \in HasCleanup \cup Live /\ step' > KeyAt(plan, at) /\ ~dry)
            => Claimed(at)'
      BY <3>1, <3>2
    <3>4. before \subseteq kernel'.up
      BY <2>1, <2>2 DEF OwnInv
    <3> QED BY <2>1, <2>2, <3>1, <3>3, <3>4 DEF OwnInv, config, books
  <2> QED BY <2>3, <2>4
<1>9. CASE CompleteNode
  <2>1. /\ UNCHANGED <<config, kernel, before>> /\ phase = "execute" /\ phase' = phase
        /\ at \in DOMAIN plan /\ at' = at + 1 /\ step' = 0
        /\ step = Len(EffectiveLines(plan, at)) + 1
        /\ registered' = registered \cup RegisteredBy(at)
    BY <1>1, <1>9 DEF CompleteNode, RunInv, UndoLog
  <2>2. ASSUME ~dry, plan[at].kind \in HasCleanup \cup Live PROVE Claimed(at)
    <3>1. Keyed(EffectiveLines(plan, at), KeyAt(plan, at), KeyOps(plan[at].kind))
      BY <1>1, <2>1, <2>2, KeyLine DEF Strict
    <3>2. step > KeyAt(plan, at)
      BY <2>1, <3>1 DEF Keyed
    <3> QED BY <2>1, <2>2, <3>2 DEF OwnInv
  <2>3. ~dry => LiveNodes(plan) \cap 1..at \subseteq kernel.up
    <3>1. ~dry /\ at \in LiveNodes(plan) => at \in kernel.up
      BY <2>2 DEF Claimed, LiveNodes
    <3>2. \A n \in 1..at : n = at \/ n \in 1..(at - 1)
      BY <1>1
    <3> QED BY <2>1, <3>1, <3>2 DEF OwnInv
  <2>4. ~dry => \A n \in registered' : CleanupTargets(plan, n) \cap before = {}
    BY <2>1, <2>2 DEF OwnInv, Claimed, RegisteredBy
  <2>5. ~(step' > KeyAt(plan, at')) \/ at' \notin DOMAIN plan
    <3>1. at' \in DOMAIN plan => Len(plan[at'].parents) \in Nat
      BY <1>1, PlanShape DEF NodeRecord
    <3> QED BY <2>1, <3>1 DEF KeyAt
  <2> QED BY <1>1, <2>1, <2>3, <2>4, <2>5 DEF OwnInv, config
<1>10. CASE StartVerify
  <2>1. /\ UNCHANGED <<config, kernel, before, registered>> /\ phase = "execute"
        /\ phase' = "verify" /\ at = Len(plan) + 1
    BY <1>10 DEF StartVerify, books
  <2>2. ~dry => LiveNodes(plan) \subseteq kernel.up
    BY <1>1, <2>1 DEF OwnInv
  <2> QED BY <2>1, <2>2 DEF OwnInv, config
<1>11. CASE PassNode \/ VerifyNode
  <2>1. /\ UNCHANGED <<config, books, kernel, before>> /\ phase = "verify"
        /\ (Fail \/ phase' = phase)
    BY <1>11 DEF PassNode, VerifyNode, VerifyNodeAs
  <2>2. CASE Fail
    <3>1. phase' = "cleanup"
      BY <2>2 DEF Fail
    <3>2. ~dry => OfKind(plan, "filesystem") \subseteq kernel.up
      BY <2>1 DEF OwnInv, OfKind, LiveNodes, Live
    <3> QED BY <2>1, <3>1, <3>2 DEF OwnInv, config, books
  <2>3. CASE phase' = phase
    BY <2>1, <2>3 DEF OwnInv, config, books
  <2> QED BY <2>1, <2>2, <2>3
<1>12. CASE Succeed
  BY <1>12 DEF Succeed, OwnInv, config
<1>13. CASE CleanupNode
  <2>1. UNCHANGED <<config, books, before, phase>> /\ phase = "cleanup"
    BY <1>13 DEF CleanupNode
  <2>2. at \in DOMAIN plan /\ at' = at - 1
        /\ (kernel' = kernel \/ (/\ at \in registered /\ ~dry
                                 /\ kernel'.up = kernel.up \ Released(plan, kernel, at)))
    BY <1>13, CleanupUp DEF CleanupNode, TakesEffect
  <2>3. Closed(plan, kernel'.up)
    <3>1. Closed(plan, kernel.up)
      BY DEF OwnInv
    <3>2. Closed(plan, kernel.up \ Released(plan, kernel, at))
      BY <3>1, ReleaseCloses
    <3> QED BY <2>2, <3>1, <3>2
  <2>4. ~dry => OfKind(plan, "filesystem") \cap 1..(at - 1) \subseteq kernel'.up
    <3>1. ~dry => OfKind(plan, "filesystem") \cap 1..at \subseteq kernel.up
      BY <2>1 DEF OwnInv
    <3>2. 1..(at - 1) \subseteq 1..at
      BY <1>1
    <3>3. CASE kernel' = kernel
      BY <3>1, <3>2, <3>3
    <3>4. CASE /\ at \in registered /\ ~dry
               /\ kernel'.up = kernel.up \ Released(plan, kernel, at)
      <4>1. CleanupTargets(plan, at) \cap before = {} /\ Closed(plan, before)
        BY <2>1, <3>4 DEF OwnInv
      <4>2. Released(plan, kernel, at) \cap OfKind(plan, "filesystem")
              \cap 1..(at - 1) = {}
        BY <1>1, <2>2, <3>1, <3>4, <4>1, ReleaseOwn
      <4> QED BY <3>1, <3>2, <3>4, <4>2
    <3> QED BY <2>2, <3>3, <3>4
  <2> QED BY <2>1, <2>2, <2>3, <2>4 DEF OwnInv, config, books
<1>14. CASE EndCleanup
  BY <1>14 DEF EndCleanup, OwnInv, config, books
<1>15. CASE Interrupt
  <2>1. UNCHANGED <<config, before>> /\ phase' = "exited"
        /\ (kernel'.up = kernel.up \/ kernel'.up = {})
    BY <1>2, <1>15 DEF Interrupt
  <2> QED BY <2>1 DEF OwnInv, config, Closed
<1>16. CASE Rerun
  <2>1. UNCHANGED <<plan, kernel, before>> /\ phase' = "preflight"
    BY <1>16 DEF Rerun
  <2> QED BY <2>1 DEF OwnInv
<1> QED BY <1>3, <1>4, <1>5, <1>6, <1>7, <1>8, <1>9, <1>10, <1>11, <1>12, <1>13,
           <1>14, <1>15, <1>16 DEF Next, Process

LEMMA OwnCorrect ==
  ASSUME Strict
  PROVE  Spec => [](RunInv /\ LeakInv /\ OwnInv)
<1>1. Init => RunInv /\ LeakInv /\ OwnInv
  BY InitInv, InitLeak, InitOwn
<1>2. (RunInv /\ LeakInv /\ OwnInv) /\ [Next]_vars => (RunInv /\ LeakInv /\ OwnInv)'
  BY StepInv, LeakStep, OwnStep DEF LeakInv
<1> QED BY <1>1, <1>2, PTL DEF Spec

(* executor.py _cleanup: where no error is ignored and no command lies,    *)
(* cleanup releases nothing that was live before the run, whatever earlier *)
(* runs left mounted, open or assembled.                                   *)
THEOREM CleanupReleasesOwn ==
  ASSUME Strict
  PROVE  Spec => CleanupOwnOnly
<1>1. RunInv /\ OwnInv /\ [Next]_vars =>
        [phase = "cleanup" /\ exit' # "killed" =>
           before \cap kernel.up \subseteq kernel'.up]_vars
  <2> SUFFICES ASSUME RunInv, OwnInv, Next, phase = "cleanup", exit' # "killed"
               PROVE  before \cap kernel.up \subseteq kernel'.up
    BY DEF vars
  <2>1. CASE CleanupNode
    <3>1. /\ Prepared(plan) /\ kernel.up \subseteq LiveNodes(plan)
      BY RunShape
    <3>2. /\ at \in DOMAIN plan
          /\ (kernel' = kernel \/ (/\ at \in registered /\ ~dry
                                   /\ kernel'.up = kernel.up \ Released(plan, kernel, at)))
      BY <2>1, CleanupUp DEF CleanupNode, TakesEffect
    <3>3. CASE /\ at \in registered /\ ~dry
               /\ kernel'.up = kernel.up \ Released(plan, kernel, at)
      <4>1. /\ CleanupTargets(plan, at) \cap before = {} /\ Closed(plan, before)
            /\ OfKind(plan, "filesystem") \cap 1..at \subseteq kernel.up
        BY <3>3 DEF OwnInv
      <4>2. Released(plan, kernel, at) \cap before = {}
        BY <3>1, <3>2, <4>1, ReleaseOwn
      <4> QED BY <3>3, <4>2
    <3> QED BY <3>2, <3>3
  <2>2. CASE EndCleanup
    BY <2>2 DEF EndCleanup
  <2>3. CASE Interrupt
    BY <2>3 DEF Interrupt
  <2> QED BY <2>1, <2>2, <2>3 DEF Next, Process, Preflight, Modprobe, ModprobeAs,
        StartNodes, EnterNode, RunCommand, RunCommandAs, CompleteNode, StartVerify,
        PassNode, VerifyNode, VerifyNodeAs, Succeed, Rerun
<1> QED BY <1>1, OwnCorrect, PTL DEF Spec, CleanupOwnOnly

(* CHANGELOG.md:60: where no error is ignored and no command lies, a       *)
(* pre-flight unmount that works clears a machine whose live nodes are     *)
(* filesystems inside one root, whatever earlier runs left mounted.        *)
THEOREM PreflightClearsTree ==
  ASSUME Strict
  PROVE  Spec => PreflightClears
<1>1. RunInv /\ OwnInv /\ [Next]_vars =>
        [phase = "preflight" /\ phase' = "modprobe" /\ ~dry /\ ~skip
           /\ faults' = faults /\ InOneTree => before' = {}]_vars
  <2> SUFFICES ASSUME RunInv, OwnInv, Next, phase = "preflight", phase' = "modprobe",
                      ~dry, ~skip, faults' = faults, InOneTree
               PROVE  before' = {}
    BY DEF vars
  <2>1. Preflight
    BY DEF Next, Process, Modprobe, ModprobeAs,
        StartNodes, EnterNode, RunCommand, RunCommandAs, CompleteNode, StartVerify,
        PassNode, VerifyNode, VerifyNodeAs, Succeed, CleanupNode, EndCleanup,
        Interrupt, Rerun
  <2>2. /\ Prepared(plan) /\ kernel.up \subseteq LiveNodes(plan)
        /\ LiveNodes(plan) \subseteq DOMAIN plan /\ kernel \in KernelStates(plan)
        /\ DOMAIN plan = 1..Len(plan) /\ Len(plan) \in Nat
        /\ plan \in Seq(NodeRecord(DOMAIN plan))
    BY RunShape DEF Prepared
  <2>3. before' = kernel.up \ UnmountedTree(plan, kernel)
    <3>1. ASSUME NEW outcome, outcome # "ok", CountFault(outcome, FALSE) PROVE FALSE
      BY <3>1 DEF CountFault, RunInv, TypeOK
    <3>2. kernel' = Without(kernel, UnmountedTree(plan, kernel))
      BY <2>1, <3>1 DEF Preflight, SkipPreflight
    <3> QED BY <2>1, <2>2, <3>2 DEF Preflight, Without, KernelStates
  <2>4. PICK root \in LiveNodes(plan) :
          /\ plan[root].path = <<>>
          /\ \A n \in LiveNodes(plan) \ {root} : plan[n].path # <<>>
    BY DEF InOneTree
  <2>5. \A n \in LiveNodes(plan) :
          plan[n].kind = "filesystem" /\ n \in OfKind(plan, "filesystem")
    BY DEF InOneTree, OfKind
  <2>6. ASSUME NEW m \in kernel.up, m # root
        PROVE  root \in kernel.up
    <3>1. m \in DOMAIN plan /\ root \in DOMAIN plan /\ m \in LiveNodes(plan)
      BY <2>2
    <3>2. PICK T : T = STRING
      OBVIOUS
    <3>3. plan[m].path \in Seq(T) /\ plan[root].path \in Seq(T)
      BY <2>2, <3>1, <3>2, NodeTyped
    <3>4. Len(plan[m].path) # 0 /\ Len(plan[m].path) \in Nat /\ Len(plan[root].path) = 0
      BY <2>4, <2>6, <3>1, <3>3
    <3>5. root < m
      <4>1. m < root => Len(plan[m].path) <= Len(plan[root].path)
        BY <2>2, <2>5, <3>1 DEF Prepared
      <4> QED BY <2>2, <2>6, <3>1, <3>4, <4>1
    <3>6. IsPrefix(plan[root].path, plan[m].path)
      BY <3>3, <3>4, PrefixMeans
    <3>7. root \in Enclosing(plan, m)
      BY <2>2, <2>5, <3>1, <3>5, <3>6 DEF Enclosing
    <3>8. root \in Beneath(plan, m)
      BY <2>2, <3>1, <3>7, BeneathOrdered
    <3> QED BY <2>6, <3>8 DEF OwnInv, Closed
  <2>7. ASSUME NEW m \in kernel.up
        PROVE  m \in UnmountedTree(plan, kernel)
    <3>1. root \in kernel.up
      BY <2>6, <2>7
    <3>2. /\ m \in kernel.up \cap OfKind(plan, "filesystem")
          /\ root \in kernel.up \cap OfKind(plan, "filesystem")
      BY <2>2, <2>5, <3>1
    <3>3. {g \in kernel.up \cap OfKind(plan, "filesystem") : plan[g].path = <<>>} = {root}
      BY <2>2, <2>4, <3>2
    <3>4. root <= root
      BY <2>2
    <3>5. m = root \/ plan[m].path # <<>>
      BY <2>2, <2>4, <3>2
    <3> QED BY <3>2, <3>3, <3>4, <3>5 DEF UnmountedTree
  <2> QED BY <2>3, <2>7
<1> QED BY <1>1, OwnCorrect, PTL DEF Spec, PreflightClears
-----------------------------------------------------------------------------
(* Every failure can be undone: commands that fail leave nothing behind,   *)
(* cleanup works, no run is killed, and a container's passphrase goes in   *)
(* with the command before the one that opens it.                          *)
Reversible ==
  /\ Strict /\ DryRuns = {FALSE}
  /\ Faults \subseteq {"error", "raise"} /\ CleanupFaults = {} /\ ~MayInterrupt
  /\ \A p \in Plans : \A n \in DOMAIN p : "slot" \notin p[n].opts

(* How the process ends, and where it is. *)
ExitInv ==
  /\ exit = "none" <=> phase \notin {"cleanup", "exited"}
  /\ phase = "cleanup" => exit = "failed"

(* Runs start from nothing, and leave nothing or all. *)
AllInv ==
  /\ ExitInv /\ ~dry /\ before = {} /\ exit # "killed"
  /\ phase \in {"preflight", "modprobe"} \/ exit = "traceback" => kernel.up = {}
  /\ phase = "execute" /\ at \in kernel.up => step > KeyAt(plan, at)
  /\ phase = "cleanup" \/ exit = "failed" =>
       /\ phase = "exited" => at = 0
       /\ kernel.up \subseteq Undoable(plan, registered, at)
  /\ exit = "success" => LiveNodes(plan) \subseteq kernel.up

(* But for a volume, the command that brings a node up is its last one. *)
LEMMA KeyIsLast ==
  ASSUME NEW p \in Plans, NEW n \in LiveNodes(p), "slot" \notin p[n].opts,
         p[n].kind # "lvm-lv"
  PROVE  Len(EffectiveLines(p, n)) = KeyAt(p, n)
<1>1. /\ n \in DOMAIN p /\ p[n].kind \in Live
      /\ Len(p[n].parents) \in Nat /\ DOMAIN p[n].parents = 1..Len(p[n].parents)
  BY PlanShape DEF LiveNodes, NodeRecord
<1>2. Len(EffectiveLines(p, n)) = Len(CommandLines(p, n))
  <2>1. CommandLines(p, n) \in Seq(LineOf(OpsOf(p[n].kind)))
    BY <1>1, LinesTyped
  <2> DEFINE lines == CommandLines(p, n)
  <2>2. DOMAIN EffectiveLines(p, n) = 1..Len(lines) /\ Len(lines) \in Nat
        /\ EffectiveLines(p, n) = [k \in 1..Len(lines) |-> EffectiveLines(p, n)[k]]
    BY <2>1 DEF EffectiveLines, ApplyIgnore
  <2> QED BY <2>2
<1>3. CASE p[n].kind = "raid1"
  <2>1. CommandLines(p, n) = Raid1Lines(p[n])
    BY <1>3, LinesByKind
  <2> DEFINE len == Len(p[n].parents)
             zero == [k \in 1..len |-> Unchecked("zero_superblock")]
  <2>2. PICK S : S = {Unchecked("zero_superblock"), Checked("create")}
    OBVIOUS
  <2>3. zero \in Seq(S) /\ Len(zero) = len
    BY <1>1, <2>2
  <2>4. Len(zero \o <<Checked("create")>>) = len + 1
    <3>1. Checked("create") \in S
      BY <2>2
    <3> HIDE DEF zero, len
    <3> QED BY <2>3, <3>1
  <2>5. CommandLines(p, n) = zero \o <<Checked("create")>>
    BY <1>1, <2>1 DEF Raid1Lines
  <2> QED BY <1>2, <1>3, <2>4, <2>5 DEF KeyAt
<1>4. CASE p[n].kind = "dm-crypt-luks"
  <2>1. PICK a, b : CommandLines(p, n) = <<a, b>> \o <<>>
    <3>1. CommandLines(p, n) = LuksLines(p[n])
      BY <1>4, LinesByKind
    <3>2. LuksLines(p[n]) = <<Fed("luksFormat", Passphrase(p[n])),
                             Fed("open", Passphrase(p[n]))>> \o <<>>
      BY DEF LuksLines, When
    <3> QED BY <3>1, <3>2
  <2>2. Len(CommandLines(p, n)) = 2
    BY <2>1
  <2> QED BY <1>2, <1>4, <2>2 DEF KeyAt
<1>5. CASE p[n].kind = "filesystem"
  <2>1. CommandLines(p, n) = FilesystemLines
    BY <1>5, LinesByKind
  <2> QED BY <1>2, <1>5, <2>1 DEF KeyAt, FilesystemLines
<1>6. CASE p[n].kind = "swap"
  <2>1. CommandLines(p, n) = SwapLines
    BY <1>6, LinesByKind
  <2> QED BY <1>2, <1>6, <2>1 DEF KeyAt, SwapLines
<1> QED BY <1>1, <1>3, <1>4, <1>5, <1>6 DEF Live

(* Nothing is left but what cleanup will undo, when a node or the          *)
(* verification fails.                                                     *)
LEMMA FailUndone ==
  ASSUME RunInv, kernel.up \subseteq LiveNodes(plan),
         \/ kernel.up \subseteq 1..Len(succeeded)
         \/ /\ kernel.up \subseteq 1..(Len(succeeded) + 1)
            /\ Len(succeeded) + 1 \in DOMAIN plan
            /\ plan[Len(succeeded) + 1].kind = "lvm-lv"
  PROVE  kernel.up \subseteq Undoable(plan, registered, Len(succeeded))
<1>1. Prepared(plan) /\ Len(succeeded) \in Nat /\ registered \in SUBSET Nat
  BY RunShape
<1>2. \A c \in 1..Len(succeeded) :
        c \in DOMAIN plan /\ plan[c].kind \in HasCleanup => c \in registered
  BY RunShape DEF RunInv, UndoLog
<1>3. \A n \in LiveNodes(plan) : n <= Len(succeeded) =>
        n \in Undoable(plan, registered, Len(succeeded))
  BY <1>1, <1>2, LiveUndone
<1>4. ASSUME Len(succeeded) + 1 \in DOMAIN plan,
             plan[Len(succeeded) + 1].kind = "lvm-lv"
      PROVE  Len(succeeded) + 1 \in Undoable(plan, registered, Len(succeeded))
  <2>1. PICK n : n = Len(succeeded) + 1
    OBVIOUS
  <2>2. n - 1 = Len(succeeded)
    BY <1>1, <2>1
  <2> QED BY <1>1, <1>2, <1>4, <2>1, <2>2, VolumeUndone
<1> QED BY <1>1, <1>3, <1>4
LEMMA InitAll ==
  ASSUME Reversible
  PROVE  Init => AllInv
<1> SUFFICES ASSUME Init PROVE AllInv
  OBVIOUS
<1>1. /\ kernel.up = {} /\ before = {} /\ phase = "preflight" /\ exit = "none"
      /\ dry \in DryRuns
  BY DEF Init, Blank
<1> QED BY <1>1 DEF AllInv, ExitInv, Reversible

(* A command fails without effect, before the one that brings its node up, *)
(* or at a volume; then cleanup has all that is up to undo.                *)
LEMMA FailedCommand ==
  ASSUME Reversible, RunInv, UpInv, AllInv, NEW outcome, RunCommandAs(outcome)
  PROVE  /\ phase = "execute" /\ at \in DOMAIN plan
         /\ Fail => /\ kernel' = kernel
                    /\ kernel.up \subseteq Undoable(plan, registered, at')
         /\ ~Fail => UNCHANGED <<phase, at, exit>> /\ step' = step + 1
         /\ ~Fail /\ kernel'.up # kernel.up => step = KeyAt(plan, at)
<1>1. /\ plan \in Plans /\ Prepared(plan) /\ phase = "execute" /\ at \in DOMAIN plan
      /\ Len(succeeded) = at - 1 /\ at \in Nat /\ Len(succeeded) \in Nat
      /\ step \in Nat \ {0} /\ kernel.up \subseteq LiveNodes(plan)
      /\ DOMAIN plan = 1..Len(plan)
  BY RunShape, RunCommandUp DEF RunCommandAs, RunInv, UndoLog
<1> DEFINE lines == EffectiveLines(plan, at)
<1>2. step \in DOMAIN lines
  BY DEF RunCommandAs
<1>3. ASSUME Fail
      PROVE  kernel' = kernel
  <2>1. phase' # phase
    BY <1>1, <1>3 DEF Fail
  <2>2. Raises(outcome, lines[step].check)
    BY <2>1 DEF RunCommandAs
  <2>3. outcome \in Outcomes(Faults, Refused(plan, kernel, at, lines[step].op))
    BY DEF RunCommandAs
  <2>4. outcome \in {"error", "raise"}
    BY <2>2, <2>3 DEF Raises, Outcomes, Reversible
  <2> QED BY <2>4 DEF RunCommandAs, TakesEffect
<1>4. ASSUME at \in kernel.up
      PROVE  plan[at].kind = "lvm-lv"
  <2>1. step > KeyAt(plan, at) /\ at \in LiveNodes(plan)
    BY <1>1, <1>4 DEF AllInv
  <2>2. CASE plan[at].kind # "lvm-lv"
    <3>1. Len(lines) = KeyAt(plan, at)
      BY <1>1, <2>1, <2>2, KeyIsLast DEF Reversible
    <3>2. CommandLines(plan, at) \in Seq(LineOf(OpsOf(plan[at].kind)))
      BY <1>1, LinesTyped
    <3>3. DOMAIN lines = 1..Len(lines) /\ Len(lines) \in Nat
      BY <3>2 DEF EffectiveLines, ApplyIgnore
    <3> HIDE DEF lines
    <3> QED BY <1>2, <2>1, <3>1, <3>3
  <2> QED BY <2>2
<1>5. kernel.up \subseteq 1..at
  BY <1>1 DEF UpInv, AllInv, Begun
<1>6. kernel.up \subseteq Undoable(plan, registered, at - 1)
  <2>1. CASE at \in kernel.up
    BY <1>1, <1>4, <1>5, <2>1, FailUndone
  <2>2. CASE at \notin kernel.up
    <3>1. kernel.up \subseteq 1..(at - 1)
      BY <1>1, <1>5, <2>2
    <3> QED BY <1>1, <3>1, FailUndone
  <2> QED BY <2>1, <2>2
<1>7. Fail => at' = at - 1
  BY <1>1 DEF Fail
<1>8. ASSUME ~Fail
      PROVE  UNCHANGED <<phase, at, exit>> /\ step' = step + 1
  BY <1>8 DEF RunCommandAs
<1>9. ASSUME kernel'.up # kernel.up
      PROVE  step = KeyAt(plan, at)
  <2>1. lines[step].op \in Raising
    <3>1. Effect(plan, kernel, at, lines[step].op).up = UpBy(kernel, at, lines[step].op)
      BY DEF Effect
    <3> QED BY <1>9, <3>1 DEF RunCommandAs, UpBy, Raising
  <2>2. at \in LiveNodes(plan)
    BY <1>1, <1>2, <2>1, EffectiveOp
  <2>3. ~plan[at].ignore /\ plan[at].kind \in Live
    BY <1>1, <2>2 DEF Reversible, Strict, LiveNodes
  <2>4. Keyed(lines, KeyAt(plan, at), KeyOps(plan[at].kind))
    BY <1>1, <2>3, KeyLine
  <2> QED BY <1>2, <2>1, <2>4 DEF Keyed
<1> HIDE DEF lines
<1> QED BY <1>1, <1>3, <1>6, <1>7, <1>8, <1>9

(* executor.py run and _cleanup, when every failure can be undone.         *)
LEMMA AllStep ==
  ASSUME Reversible
  PROVE  RunInv /\ UpInv /\ OwnInv /\ AllInv /\ [Next]_vars => AllInv'
<1> SUFFICES ASSUME RunInv, UpInv, OwnInv, AllInv, [Next]_vars PROVE AllInv'
  OBVIOUS
<1>1. /\ plan \in Plans /\ Prepared(plan) /\ Len(plan) \in Nat
      /\ DOMAIN plan = 1..Len(plan) /\ LiveNodes(plan) \subseteq DOMAIN plan
      /\ at \in 0..(Len(plan) + 1) /\ step \in Nat /\ Len(succeeded) \in Nat
      /\ kernel.up \subseteq LiveNodes(plan) /\ registered \subseteq DOMAIN plan
      /\ registered \in SUBSET Nat
  BY RunShape
<1>2. ~MayInterrupt /\ DryRuns = {FALSE}
  BY DEF Reversible
<1>3. CASE UNCHANGED vars
  BY <1>3 DEF vars, config, status, books, AllInv, ExitInv
<1>4. CASE Preflight
  <2>1. /\ before' = {} /\ kernel'.up = {} /\ phase' = "modprobe" /\ phase = "preflight"
        /\ UNCHANGED <<config, exit>>
    BY <1>4, PreflightUp DEF Preflight, AllInv
  <2> QED BY <2>1 DEF AllInv, ExitInv, config
<1>5. CASE Modprobe
  <2>1. /\ UNCHANGED <<config, kernel, before>> /\ phase = "modprobe"
        /\ \/ UNCHANGED <<phase, exit>>
           \/ phase' = "exited" /\ exit' = "traceback"
    BY <1>5 DEF Modprobe, ModprobeAs
  <2> QED BY <2>1 DEF AllInv, ExitInv, config
<1>6. CASE StartNodes
  <2>1. /\ UNCHANGED <<config, kernel, before, exit>> /\ phase = "modprobe"
        /\ phase' = "execute"
    BY <1>6 DEF StartNodes
  <2> QED BY <2>1 DEF AllInv, ExitInv, config
<1>7. CASE EnterNode
  <2>1. /\ UNCHANGED <<config, books, kernel, before>> /\ phase = "execute"
        /\ at \in DOMAIN plan /\ Len(succeeded) = at - 1 /\ step = 0
    BY <1>1, <1>7 DEF EnterNode, RunInv, UndoLog
  <2>2. at \notin kernel.up
    <3>1. ~(0 > KeyAt(plan, at))
      <4>1. Len(plan[at].parents) \in Nat
        BY <1>1, <2>1, PlanShape DEF NodeRecord
      <4> QED BY <4>1 DEF KeyAt
    <3> QED BY <2>1, <3>1 DEF AllInv
  <2>3. CASE Fail
    <3>1. phase' = "cleanup" /\ exit' = "failed" /\ at' = Len(succeeded)
      BY <2>3 DEF Fail
    <3>2. kernel.up \subseteq 1..Len(succeeded)
      BY <2>1 DEF UpInv, AllInv, Begun
    <3>3. kernel.up \subseteq Undoable(plan, registered, Len(succeeded))
      BY <1>1, <3>2, FailUndone
    <3> QED BY <2>1, <3>1, <3>3 DEF AllInv, ExitInv, config, books
  <2>4. CASE UNCHANGED <<phase, at, exit>>
    BY <2>1, <2>2, <2>4 DEF AllInv, ExitInv, config, books
  <2> QED BY <1>7, <2>3, <2>4 DEF EnterNode
<1>8. CASE RunCommand
  <2>0. PICK outcome \in Outcome : RunCommandAs(outcome)
    BY <1>8 DEF RunCommand
  <2>1. /\ phase = "execute" /\ at \in DOMAIN plan
        /\ Fail => /\ kernel' = kernel
                   /\ kernel.up \subseteq Undoable(plan, registered, at')
        /\ ~Fail => UNCHANGED <<phase, at, exit>> /\ step' = step + 1
        /\ ~Fail /\ kernel'.up # kernel.up => step = KeyAt(plan, at)
    BY <2>0, FailedCommand
  <2>2. UNCHANGED <<config, books, before>>
    BY <2>0 DEF RunCommandAs
  <2>3. CASE Fail
    <3>1. phase' = "cleanup" /\ exit' = "failed"
      BY <2>3 DEF Fail
    <3> QED BY <2>1, <2>2, <2>3, <3>1 DEF AllInv, ExitInv, config, books
  <2>4. CASE ~Fail
    <3>1. KeyAt(plan, at) \in Nat
      <4>1. Len(plan[at].parents) \in Nat
        BY <1>1, <2>1, PlanShape DEF NodeRecord
      <4> QED BY <4>1 DEF KeyAt
    <3>2. at \in kernel'.up => step + 1 > KeyAt(plan, at)
      BY <1>1, <2>1, <2>4, <3>1 DEF AllInv
    <3> QED BY <2>1, <2>2, <2>4, <3>2 DEF AllInv, ExitInv, config, books
  <2> QED BY <2>3, <2>4
<1>9. CASE CompleteNode
  <2>1. /\ UNCHANGED <<config, kernel, before, phase, exit>> /\ phase = "execute"
        /\ at \in DOMAIN plan /\ at' = at + 1
    BY <1>1, <1>9 DEF CompleteNode, RunInv, UndoLog
  <2>2. at' \notin kernel.up
    BY <1>1, <2>1 DEF UpInv, AllInv, Begun
  <2> QED BY <2>1, <2>2 DEF AllInv, ExitInv, config
<1>10. CASE StartVerify
  BY <1>10 DEF StartVerify, AllInv, ExitInv, config
<1>11. CASE PassNode \/ VerifyNode
  <2>1. /\ UNCHANGED <<config, books, kernel, before>> /\ phase = "verify"
        /\ (Fail \/ UNCHANGED <<phase, exit>>)
    BY <1>11 DEF PassNode, VerifyNode, VerifyNodeAs
  <2>2. CASE Fail
    <3>1. phase' = "cleanup" /\ exit' = "failed" /\ at' = Len(succeeded)
      BY <2>2 DEF Fail
    <3>2. kernel.up \subseteq 1..Len(succeeded)
      BY <1>1, <2>1 DEF RunInv, UndoLog
    <3>3. kernel.up \subseteq Undoable(plan, registered, Len(succeeded))
      BY <1>1, <3>2, FailUndone
    <3> QED BY <2>1, <3>1, <3>3 DEF AllInv, ExitInv, config, books
  <2>3. CASE UNCHANGED <<phase, exit>>
    BY <2>1, <2>3 DEF AllInv, ExitInv, config, books
  <2> QED BY <2>1, <2>2, <2>3
<1>12. CASE Succeed
  <2>1. LiveNodes(plan) \subseteq kernel.up
    BY <1>12 DEF Succeed, OwnInv, AllInv
  <2> QED BY <1>12, <2>1 DEF Succeed, AllInv, ExitInv, config
<1>13. CASE CleanupNode
  <2>1. UNCHANGED <<config, books, before, phase, exit>> /\ phase = "cleanup"
    BY <1>13 DEF CleanupNode
  <2>2. /\ at \in DOMAIN plan /\ at' = at - 1
        /\ \/ at \notin registered /\ kernel' = kernel
           \/ kernel'.up = kernel.up \ Released(plan, kernel, at)
    <3>1. ASSUME NEW outcome \in Outcomes(CleanupFaults, FALSE)
          PROVE  TakesEffect(outcome, FALSE)
      BY DEF Outcomes, TakesEffect, AllInv, Reversible
    <3>2. \/ at \notin registered
          \/ kernel' = Without(kernel, Released(plan, kernel, NextToClean))
      BY <1>13, <3>1, CleanupUp DEF CleanupNode, NextToClean, RunInv, UndoLog
    <3>3. NextToClean = at /\ at \in DOMAIN plan
      BY <1>1, <1>13, RunShape DEF CleanupNode, NextToClean, RunInv, UndoLog
    <3> QED BY <1>13, <3>2, <3>3, CleanupUp, RunShape DEF Without, KernelStates
  <2>3. kernel.up \subseteq Undoable(plan, registered, at)
    BY <2>1 DEF AllInv
  <2>4. kernel'.up \subseteq Undoable(plan, registered, at - 1)
    <3>1. CASE at \notin registered /\ kernel' = kernel
      <4>1. \A u \in Undoable(plan, registered, at) :
              u \in Undoable(plan, registered, at - 1) \/ at \in registered
        <5>1. at \in Nat
          BY <1>1
        <5> QED BY <1>1, <5>1, UndoableLess
      <4> QED BY <2>3, <3>1, <4>1
    <3>2. CASE kernel'.up = kernel.up \ Released(plan, kernel, at)
      <4>1. Kept(plan, {}) = {}
        BY DEF Kept
      <4>2. kernel.up \subseteq DOMAIN plan /\ {} \in SUBSET Reach(plan)
            /\ registered \in SUBSET DOMAIN plan
        BY <1>1
      <4>3. kernel.up \ Released(plan, kernel, at)
              \subseteq Kept(plan, {}) \cup Undoable(plan, registered, at - 1)
        BY <1>1, <2>2, <2>3, <4>2, CleanupStep
      <4> QED BY <3>2, <4>1, <4>3
    <3> QED BY <2>2, <3>1, <3>2
  <2> QED BY <2>1, <2>2, <2>4 DEF AllInv, ExitInv, config, books
<1>14. CASE EndCleanup
  BY <1>14 DEF EndCleanup, AllInv, ExitInv, config, books
<1>15. CASE Interrupt
  BY <1>2, <1>15 DEF Interrupt
<1>16. CASE Rerun
  <2>1. /\ UNCHANGED <<plan, kernel, before>> /\ phase' = "preflight" /\ exit' = "none"
        /\ dry' \in DryRuns /\ phase = "exited" /\ exit # "success"
    BY <1>16 DEF Rerun
  <2>2. exit \in {"failed", "traceback"}
    BY <2>1 DEF AllInv, ExitInv, RunInv, TypeOK
  <2>3. Undoable(plan, registered, 0) = {}
    BY <1>1 DEF Undoable
  <2>4. kernel.up = {}
    BY <2>1, <2>2, <2>3 DEF AllInv
  <2> QED BY <1>2, <2>1, <2>4 DEF AllInv, ExitInv
<1> QED BY <1>3, <1>4, <1>5, <1>6, <1>7, <1>8, <1>9, <1>10, <1>11, <1>12, <1>13,
           <1>14, <1>15, <1>16 DEF Next, Process
-----------------------------------------------------------------------------
(* The refinement mapping of AllOrNothing. *)
Mode == CASE phase \notin {"cleanup", "exited"} -> "building"
          [] phase = "cleanup" -> "undoing"
          [] phase = "exited" /\ exit = "success" -> "complete"
          [] phase = "exited" /\ exit # "success" -> "rolledback"

LEMMA StackInitial ==
  ASSUME Init
  PROVE  Stack!StackInit
<1>1. phase = "preflight" /\ kernel.up = {}
  BY DEF Init, Blank
<1>2. Mode = "building"
  BY <1>1 DEF Mode
<1> QED BY <1>1, <1>2 DEF Stack!StackInit, Mode

(* What a step of a run must do to be a step of the stack. *)
LEMMA StackMoves ==
  ASSUME plan' = plan,
         \/ Mode' = Mode /\ kernel'.up = kernel.up
         \/ /\ Mode = "building" /\ Mode' = Mode
            /\ \E r \in LiveNodes(plan) :
                 /\ r \notin kernel.up /\ kernel'.up = kernel.up \cup {r}
                 /\ Devices(plan)[r] \cap LiveNodes(plan) \subseteq kernel.up
         \/ /\ Mode = "building" /\ Mode' = "complete"
            /\ LiveNodes(plan) \subseteq kernel.up /\ kernel'.up = kernel.up
         \/ Mode = "building" /\ Mode' = "undoing" /\ kernel'.up = kernel.up
         \/ /\ Mode = "undoing" /\ Mode' = Mode /\ kernel'.up \subseteq kernel.up
            /\ kernel.up \subseteq LiveNodes(plan)
            /\ \A r \in kernel'.up : Beneath(plan, r) \cap kernel.up \subseteq kernel'.up
         \/ /\ Mode \in {"building", "undoing"} /\ Mode' = "rolledback"
            /\ kernel.up = {} /\ kernel'.up = kernel.up
         \/ Mode = "rolledback" /\ Mode' = "building" /\ kernel'.up = kernel.up
  PROVE  [Stack!StackNext]_(Stack!stackVars)
<1>1. CASE Mode' = Mode /\ kernel'.up = kernel.up
  BY <1>1 DEF Stack!stackVars, Mode
<1>2. ASSUME Mode = "building", Mode' = Mode,
             NEW r \in LiveNodes(plan), r \notin kernel.up,
             kernel'.up = kernel.up \cup {r},
             Devices(plan)[r] \cap LiveNodes(plan) \subseteq kernel.up
      PROVE  Stack!StackNext
  <2>1. Stack!Acquire(r)
    BY <1>2 DEF Stack!Acquire, Mode
  <2> QED BY <2>1 DEF Stack!StackNext
<1>3. CASE /\ Mode = "building" /\ Mode' = "complete"
           /\ LiveNodes(plan) \subseteq kernel.up /\ kernel'.up = kernel.up
  <2>1. Stack!Complete
    BY <1>3 DEF Stack!Complete, Mode
  <2> QED BY <2>1 DEF Stack!StackNext
<1>4. CASE Mode = "building" /\ Mode' = "undoing" /\ kernel'.up = kernel.up
  <2>1. Stack!GiveUp
    BY <1>4 DEF Stack!GiveUp, Mode
  <2> QED BY <2>1 DEF Stack!StackNext
<1>5. CASE /\ Mode = "undoing" /\ Mode' = Mode /\ kernel'.up \subseteq kernel.up
           /\ kernel.up \subseteq LiveNodes(plan)
           /\ \A r \in kernel'.up : Beneath(plan, r) \cap kernel.up \subseteq kernel'.up
  <2> DEFINE S == kernel.up \ kernel'.up
  <2>1. CASE S = {}
    <3>1. kernel'.up = kernel.up
      BY <1>5, <2>1
    <3> QED BY <1>1, <1>5, <3>1
  <2>2. CASE S # {}
    <3>1. Stack!Release(S)
      BY <1>5, <2>2 DEF Stack!Release, Mode
    <3> QED BY <3>1 DEF Stack!StackNext
  <2> QED BY <2>1, <2>2
<1>6. CASE /\ Mode \in {"building", "undoing"} /\ Mode' = "rolledback"
           /\ kernel.up = {} /\ kernel'.up = kernel.up
  <2>1. Stack!RolledBack
    BY <1>6 DEF Stack!RolledBack, Mode
  <2> QED BY <2>1 DEF Stack!StackNext
<1>7. CASE Mode = "rolledback" /\ Mode' = "building" /\ kernel'.up = kernel.up
  <2>1. Stack!TryAgain
    BY <1>7 DEF Stack!TryAgain, Mode
  <2> QED BY <2>1 DEF Stack!StackNext
<1> QED BY <1>1, <1>2, <1>3, <1>4, <1>5, <1>6, <1>7

(* executor.py run and _cleanup: every step is one of the stack's, or      *)
(* changes nothing that the stack shows.                                   *)
LEMMA StackStep ==
  ASSUME Reversible, RunInv, UpInv, OwnInv, AllInv, [Next]_vars
  PROVE  [Stack!StackNext]_(Stack!stackVars)
<1>1. /\ plan \in Plans /\ Prepared(plan) /\ DOMAIN plan = 1..Len(plan) /\ Len(plan) \in Nat
      /\ kernel.up \subseteq LiveNodes(plan)
  BY RunShape
<1>2. ~MayInterrupt /\ DryRuns = {FALSE}
  BY DEF Reversible
<1>m. /\ phase \notin {"cleanup", "exited"} => Mode = "building"
      /\ phase = "cleanup" => Mode = "undoing"
      /\ phase = "exited" /\ exit = "success" => Mode = "complete"
      /\ phase = "exited" /\ exit # "success" => Mode = "rolledback"
      /\ phase' \notin {"cleanup", "exited"} => Mode' = "building"
      /\ phase' = "cleanup" => Mode' = "undoing"
      /\ phase' = "exited" /\ exit' = "success" => Mode' = "complete"
      /\ phase' = "exited" /\ exit' # "success" => Mode' = "rolledback"
  BY DEF Mode
<1>3. CASE UNCHANGED vars
  <2>1. UNCHANGED <<plan, kernel, Mode>>
    BY <1>3 DEF vars, config, status, Mode
  <2> QED BY <2>1, StackMoves
<1>4. CASE Preflight
  <2>1. /\ plan' = plan /\ kernel.up = {} /\ kernel'.up = {}
        /\ phase = "preflight" /\ phase' = "modprobe"
    BY <1>4, PreflightUp DEF Preflight, AllInv, config
  <2> QED BY <1>m, <2>1, StackMoves
<1>5. CASE Modprobe
  <2>1. /\ plan' = plan /\ kernel' = kernel /\ phase = "modprobe" /\ kernel.up = {}
        /\ \/ phase' = phase
           \/ phase' = "exited" /\ exit' = "traceback"
    BY <1>5 DEF Modprobe, ModprobeAs, config, AllInv
  <2> QED BY <1>m, <2>1, StackMoves
<1>6. CASE StartNodes
  <2>1. /\ plan' = plan /\ kernel' = kernel /\ phase = "modprobe" /\ phase' = "execute"
    BY <1>6 DEF StartNodes, config
  <2> QED BY <1>m, <2>1, StackMoves
<1>7. CASE EnterNode
  <2>1. /\ plan' = plan /\ kernel' = kernel /\ phase = "execute"
        /\ (phase' = phase \/ phase' = "cleanup")
    BY <1>7 DEF EnterNode, Fail, config
  <2> QED BY <1>m, <2>1, StackMoves
<1>8. CASE RunCommand
  <2>0. PICK outcome \in Outcome : RunCommandAs(outcome)
    BY <1>8 DEF RunCommand
  <2>1. plan' = plan /\ phase = "execute" /\ at \in DOMAIN plan
    BY <2>0, FailedCommand DEF RunCommandAs, config
  <2>2. CASE Fail
    <3>1. kernel' = kernel /\ phase' = "cleanup"
      BY <2>0, <2>2, FailedCommand DEF Fail
    <3> QED BY <1>m, <2>1, <3>1, StackMoves
  <2>3. CASE ~Fail
    <3>1. phase' = phase
      BY <2>0, <2>3, FailedCommand
    <3>2. CASE kernel'.up = kernel.up
      BY <1>m, <2>1, <3>1, <3>2, StackMoves
    <3>3. CASE kernel'.up # kernel.up
      <4>1. at \in LiveNodes(plan) /\ kernel'.up = kernel.up \cup {at}
        BY <2>0, <3>3, RunCommandUp
      <4>2. at \notin kernel.up
        BY <3>3, <4>1
      <4>3. Devices(plan)[at] \cap LiveNodes(plan) \subseteq kernel.up
        <5>1. Devices(plan)[at] \subseteq 1..(at - 1)
          BY <1>1, <2>1, DevicesOrdered DEF Prepared
        <5> QED BY <2>1, <5>1 DEF OwnInv, AllInv
      <4> QED BY <1>m, <2>1, <3>1, <4>1, <4>2, <4>3, StackMoves
    <3> QED BY <3>2, <3>3
  <2> QED BY <2>2, <2>3
<1>9. CASE CompleteNode
  <2>1. plan' = plan /\ kernel' = kernel /\ phase = "execute" /\ phase' = phase
    BY <1>9 DEF CompleteNode, config
  <2> QED BY <1>m, <2>1, StackMoves
<1>10. CASE StartVerify
  <2>1. plan' = plan /\ kernel' = kernel /\ phase = "execute" /\ phase' = "verify"
    BY <1>10 DEF StartVerify, config
  <2> QED BY <1>m, <2>1, StackMoves
<1>11. CASE PassNode \/ VerifyNode
  <2>1. /\ plan' = plan /\ kernel' = kernel /\ phase = "verify"
        /\ (phase' = phase \/ phase' = "cleanup")
    BY <1>11 DEF PassNode, VerifyNode, VerifyNodeAs, Fail, config
  <2> QED BY <1>m, <2>1, StackMoves
<1>12. CASE Succeed
  <2>1. /\ plan' = plan /\ kernel' = kernel /\ phase = "verify" /\ phase' = "exited"
        /\ exit' = "success" /\ LiveNodes(plan) \subseteq kernel.up
    BY <1>12 DEF Succeed, config, OwnInv, AllInv
  <2> QED BY <1>m, <2>1, StackMoves
<1>13. CASE CleanupNode
  <2>1. /\ plan' = plan /\ phase = "cleanup" /\ phase' = phase
        /\ \/ kernel' = kernel
           \/ kernel'.up = kernel.up \ Released(plan, kernel, at)
    BY <1>13, CleanupUp DEF CleanupNode, config
  <2>2. CASE kernel' = kernel
    BY <1>m, <2>1, <2>2, StackMoves
  <2>3. CASE kernel'.up = kernel.up \ Released(plan, kernel, at)
    <3>1. \A r \in kernel'.up : Beneath(plan, r) \cap kernel.up \subseteq kernel'.up
      BY <2>3 DEF Released, Busy
    <3> QED BY <1>1, <1>m, <2>1, <2>3, <3>1, StackMoves
  <2> QED BY <2>1, <2>2, <2>3
<1>14. CASE EndCleanup
  <2>1. /\ plan' = plan /\ kernel' = kernel /\ phase = "cleanup" /\ phase' = "exited"
        /\ exit' = exit /\ exit = "failed" /\ at = 0
    BY <1>14 DEF EndCleanup, config, AllInv, ExitInv
  <2>2. kernel.up \subseteq Undoable(plan, registered, 0)
    BY <2>1 DEF AllInv
  <2>3. Undoable(plan, registered, 0) = {}
    BY RunShape DEF Undoable
  <2>4. kernel.up = {}
    BY <2>2, <2>3
  <2> QED BY <1>m, <2>1, <2>4, StackMoves
<1>15. CASE Interrupt
  BY <1>2, <1>15 DEF Interrupt
<1>16. CASE Rerun
  <2>1. /\ plan' = plan /\ kernel' = kernel /\ phase = "exited" /\ exit # "success"
        /\ phase' = "preflight"
    BY <1>16 DEF Rerun
  <2> QED BY <1>m, <2>1, StackMoves
<1> QED BY <1>3, <1>4, <1>5, <1>6, <1>7, <1>8, <1>9, <1>10, <1>11, <1>12, <1>13,
           <1>14, <1>15, <1>16 DEF Next, Process

(* executor.py run and _cleanup: where every failure can be undone, a run  *)
(* brings up all the resources of its plan or none, from the bottom up and *)
(* from the top down, and so does every further run.                       *)
THEOREM RunsAllOrNothing ==
  ASSUME Reversible
  PROVE  Spec => AllOrNothing
<1>1. Strict
  BY DEF Reversible
<1>2. Spec => [](RunInv /\ LeakInv /\ OwnInv)
  BY <1>1, OwnCorrect
<1>3. Init => AllInv
  BY InitAll
<1>4. RunInv /\ LeakInv /\ OwnInv /\ AllInv /\ [Next]_vars => AllInv'
  BY AllStep DEF LeakInv
<1>5. Init => Stack!StackInit
  BY StackInitial
<1>6. RunInv /\ LeakInv /\ OwnInv /\ AllInv /\ [Next]_vars
        => [Stack!StackNext]_(Stack!stackVars)
  BY StackStep DEF LeakInv
<1> QED BY <1>2, <1>3, <1>4, <1>5, <1>6, PTL DEF Spec, AllOrNothing, Stack!StackSafety

-----------------------------------------------------------------------------
(* Types that take a device for themselves, those that write an object to  *)
(* disk, and those that wipe what was stored on it.                        *)
Takers == {"raid1", "dm-crypt-luks", "lvm-pv", "lvm-vg", "filesystem", "swap"}
Written == {"hardware", "partition", "dm-crypt-luks", "lvm-pv", "lvm-vg", "lvm-lv",
            "filesystem", "swap"}
Stock == {"hardware", "lvm-pv"}

(* Whatever an earlier run left on its disks, a plan can be built on them: *)
(* tables are recreated, partitions are on disks, groups on physical       *)
(* volumes, and no device is taken by a node after a live node uses it.    *)
Rebuildable(p) ==
  /\ \A n \in OfKind(p, "hardware") : "overwrite" \in p[n].opts
  /\ \A n \in OfKind(p, "partition") : ParentsOf(p[n]) \subseteq OfKind(p, "hardware")
  /\ \A n \in OfKind(p, "lvm-vg") : ParentsOf(p[n]) \subseteq OfKind(p, "lvm-pv")
  /\ \A n \in DOMAIN p : p[n].kind \in Takers =>
       \A m \in LiveNodes(p) : m < n => ParentsOf(p[n]) \cap Beneath(p, m) = {}

(* The command of a node that writes its object. *)
MakerAt(p, n) ==
  IF p[n].kind = "hardware" THEN Len(EffectiveLines(p, n)) ELSE 1

(* Operations that write an object, and that wipe a device. *)
Makes == {"mklabel", "mkpart", "luksFormat", "pvcreate", "vgcreate", "lvcreate",
          "mkfs", "mkswap"}

Zeroes == {"zero_prefix", "zero_all"}

(* What may be the k-th operation of a node whose object the m-th makes.   *)
InPlace(kind, op, k, m) ==
  /\ op \in Exclusive => kind \in Takers
  /\ op \in Uses => kind \in Takers \cup {"lvm-lv"}
  /\ op = "mklabel" => kind = "hardware"
  /\ op = "mkpart" => kind = "partition"
  /\ op \in NeedsMade => kind \in Written /\ k > m
  /\ op \in Makes => kind \in Written /\ k = m
  /\ op \in NeedsNew => kind \in {"partition", "lvm-vg", "lvm-lv"}
  /\ op \in Zeroes => k < m
  /\ op # "mountpoint"

(* The lines of a type of node: each in its place, and if the type writes  *)
(* an object, the m-th writes it and is checked.                           *)
Placed(kind, lines, m) ==
  /\ DOMAIN lines = 1..Len(lines) /\ Len(lines) \in Nat
  /\ \A k \in DOMAIN lines : InPlace(kind, lines[k].op, k, m)
  /\ kind \in Written =>
       /\ m \in DOMAIN lines /\ lines[m].check = TRUE
       /\ lines[m].op \in Makes
       /\ kind \in Stock => lines[m].op \in {"mklabel", "pvcreate"}

(* Where each operation of a type may come among its lines. *)
LEMMA OpsInPlace ==
  /\ \A k, m : InPlace("raid1", "zero_superblock", k, m)
  /\ \A k, m : InPlace("raid1", "create", k, m)
  /\ \A k, m : InPlace("partition", "partx", k, m)
  /\ \A k, m : InPlace("partition", "settle", k, m)
  /\ \A k, m : InPlace("dm-crypt-luks", "luksFormat", 1, 1)
  /\ \A k \in Nat : k > 1 => /\ InPlace("partition", "set", k, 1)
                             /\ InPlace("partition", "sgdisk", k, 1)
                             /\ InPlace("dm-crypt-luks", "open", k, 1)
                             /\ InPlace("dm-crypt-luks", "luksAddKey", k, 1)
                             /\ InPlace("dm-crypt-luks", "luksKillSlot", k, 1)
  /\ InPlace("partition", "mkpart", 1, 1)
  /\ InPlace("lvm-pv", "pvcreate", 1, 1) /\ InPlace("lvm-vg", "vgcreate", 1, 1)
  /\ InPlace("lvm-lv", "lvcreate", 1, 1) /\ InPlace("lvm-lv", "lvchange", 2, 1)
  /\ InPlace("lvm-lv", "vgmknodes", 3, 1)
  /\ InPlace("filesystem", "mkfs", 1, 1) /\ InPlace("filesystem", "mkdir", 2, 1)
  /\ InPlace("filesystem", "mount", 3, 1)
  /\ InPlace("swap", "mkswap", 1, 1) /\ InPlace("swap", "swapon", 2, 1)
  /\ \A k, m \in Nat : k < m => /\ InPlace("hardware", "zero_all", k, m)
                                /\ InPlace("hardware", "zero_prefix", k, m)
  /\ \A m : InPlace("hardware", "mklabel", m, m)
  /\ \A kind \in Fence : InPlace(kind, "argv", 1, 1)
BY DEF InPlace, Exclusive, Uses, NeedsMade, NeedsNew, Makes, Zeroes, Takers, Written,
       Fence

(* The command lines of each type. *)
LEMMA PlacedLines ==
  ASSUME NEW node, Len(node.parents) \in Nat, DOMAIN node.parents = 1..Len(node.parents)
  PROVE  /\ "overwrite" \in node.opts =>
              Placed("hardware", HardwareLines(node), Len(HardwareLines(node)))
         /\ Placed("partition", PartitionLines(node), 1)
         /\ Placed("raid1", Raid1Lines(node), 1)
         /\ Placed("dm-crypt-luks", LuksLines(node), 1)
         /\ Placed("lvm-pv", PvLines, 1) /\ Placed("lvm-vg", VgLines, 1)
         /\ Placed("lvm-lv", LvLines, 1) /\ Placed("filesystem", FilesystemLines, 1)
         /\ Placed("swap", SwapLines, 1)
         /\ \A kind \in Fence : Placed(kind, FenceLines, 1)
<1>w. /\ Written \cap ({"raid1"} \cup Fence) = {} /\ Makes \cap {"create"} = {}
      /\ {"mkpart", "luksFormat", "pvcreate", "vgcreate", "lvcreate", "mkfs", "mkswap",
          "mklabel"} = Makes
      /\ Stock = {"hardware", "lvm-pv"}
  BY DEF Written, Makes, Fence, Stock
<1> DEFINE typed(ops) == {line \in [op : ops, check : BOOLEAN, stdin : {<<>>}] : TRUE}
<1>c. \A ops : \A op \in ops :
        Checked(op) \in typed(ops) /\ Unchecked(op) \in typed(ops)
  BY DEF Checked, Unchecked
<1>o. \A ops : \A line \in typed(ops) : line.op \in ops
  OBVIOUS
<1> HIDE DEF typed
<1>1. ASSUME "overwrite" \in node.opts
      PROVE  Placed("hardware", HardwareLines(node), Len(HardwareLines(node)))
  <2>1. PICK S : S = typed({"zero_all", "zero_prefix"})
    OBVIOUS
  <2> DEFINE zero == When("erase_all" \in node.opts, <<Unchecked("zero_all")>>)
                       \o When("erase" \in node.opts, <<Checked("zero_prefix")>>)
  <2>2. zero \in Seq(S)
    <3>1. Unchecked("zero_all") \in S /\ Checked("zero_prefix") \in S
      BY <1>c, <2>1
    <3>2. /\ When("erase_all" \in node.opts, <<Unchecked("zero_all")>>) \in Seq(S)
          /\ When("erase" \in node.opts, <<Checked("zero_prefix")>>) \in Seq(S)
      BY <3>1 DEF When
    <3> QED BY <3>2
  <2>3. PICK last : last = Checked("mklabel")
    OBVIOUS
  <2>4. HardwareLines(node) = zero \o <<last>>
    BY <1>1, <2>3 DEF HardwareLines, When
  <2> HIDE DEF zero
  <2> DEFINE lines == HardwareLines(node)
             len == Len(zero)
  <2>5. /\ Len(lines) = len + 1 /\ DOMAIN lines = 1..(len + 1) /\ len \in Nat
        /\ \A k \in 1..len : lines[k] = zero[k] /\ zero[k] \in S
        /\ lines[len + 1] = last
    <3>1. PICK T : S \subseteq T /\ last \in T
      <4>1. S \subseteq S \cup {last} /\ last \in S \cup {last}
        OBVIOUS
      <4> QED BY <4>1
    <3>2. zero \in Seq(T) /\ <<last>> \in Seq(T)
      BY <2>2, <3>1
    <3> QED BY <2>2, <2>4, <3>2
  <2> HIDE DEF lines, len
  <2>6. last.op = "mklabel" /\ last.check = TRUE
    BY <2>3 DEF Checked
  <2>7. ASSUME NEW k \in DOMAIN lines PROVE InPlace("hardware", lines[k].op, k, len + 1)
    <3>1. CASE k \in 1..len
      <4>1. lines[k].op \in {"zero_all", "zero_prefix"}
        BY <1>o, <2>1, <2>5, <3>1
      <4>2. k \in Nat /\ len + 1 \in Nat /\ k < len + 1
        BY <2>5, <3>1
      <4> QED BY <4>1, <4>2, OpsInPlace
    <3>2. CASE k = len + 1
      BY <2>5, <2>6, <3>2, OpsInPlace
    <3> QED BY <2>5, <3>1, <3>2
  <2>8. len + 1 \in DOMAIN lines /\ len + 1 \in Nat
    BY <2>5
  <2> QED BY <1>w, <2>5, <2>6, <2>7, <2>8 DEF Placed, lines
<1>2. Placed("partition", PartitionLines(node), 1)
  <2>1. PICK S : S = typed({"set", "sgdisk", "partx", "settle"})
    OBVIOUS
  <2> DEFINE rest == When("flags" \in node.opts, <<Checked("set")>>)
                       \o When("uuid" \in node.opts, <<Checked("sgdisk")>>)
                       \o <<Unchecked("partx"), Checked("settle")>>
  <2>2. rest \in Seq(S)
    <3>1. /\ Checked("set") \in S /\ Checked("sgdisk") \in S
          /\ Unchecked("partx") \in S /\ Checked("settle") \in S
      BY <1>c, <2>1
    <3>2. /\ When("flags" \in node.opts, <<Checked("set")>>) \in Seq(S)
          /\ When("uuid" \in node.opts, <<Checked("sgdisk")>>) \in Seq(S)
          /\ <<Unchecked("partx"), Checked("settle")>> \in Seq(S)
      BY <3>1 DEF When
    <3> QED BY <3>2
  <2>3. PICK first : first = Checked("mkpart")
    OBVIOUS
  <2>4. PartitionLines(node) = <<first>> \o rest
    <3>1. PICK T : /\ first \in T
                   /\ Checked("set") \in T /\ Checked("sgdisk") \in T
                   /\ Unchecked("partx") \in T /\ Checked("settle") \in T
      <4> DEFINE T == {first, Checked("set"), Checked("sgdisk"), Unchecked("partx"),
                       Checked("settle")}
      <4>1. /\ first \in T
            /\ Checked("set") \in T /\ Checked("sgdisk") \in T
            /\ Unchecked("partx") \in T /\ Checked("settle") \in T
        OBVIOUS
      <4> HIDE DEF T
      <4> QED BY <4>1
    <3>2. PICK a, b, c : /\ a = When("flags" \in node.opts, <<Checked("set")>>)
                         /\ b = When("uuid" \in node.opts, <<Checked("sgdisk")>>)
                         /\ c = <<Unchecked("partx"), Checked("settle")>>
      OBVIOUS
    <3>3. a \in Seq(T) /\ b \in Seq(T) /\ c \in Seq(T) /\ <<first>> \in Seq(T)
      BY <3>1, <3>2 DEF When
    <3>4. <<first>> \o a \o b \o c = <<first>> \o (a \o b \o c)
      BY <3>3
    <3> QED BY <2>3, <3>2, <3>4 DEF PartitionLines
  <2> HIDE DEF rest
  <2> DEFINE lines == PartitionLines(node)
             len == Len(rest)
  <2>5. /\ Len(lines) = len + 1 /\ DOMAIN lines = 1..(len + 1) /\ len \in Nat
        /\ \A k \in 2..(len + 1) : lines[k] \in S
        /\ lines[1] = first
    <3>1. PICK T : S \subseteq T /\ first \in T
      <4>1. S \subseteq S \cup {first} /\ first \in S \cup {first}
        OBVIOUS
      <4> QED BY <4>1
    <3>2. rest \in Seq(T) /\ <<first>> \in Seq(T)
      BY <2>2, <3>1
    <3>3. \A k \in 2..(len + 1) : lines[k] = rest[k - 1] /\ k - 1 \in 1..len
      BY <2>4, <3>2
    <3> QED BY <2>2, <2>4, <3>2, <3>3
  <2> HIDE DEF lines, len
  <2>6. first.op = "mkpart" /\ first.check = TRUE
    BY <2>3 DEF Checked
  <2>7. ASSUME NEW k \in DOMAIN lines PROVE InPlace("partition", lines[k].op, k, 1)
    <3>1. CASE k \in 2..(len + 1)
      <4>1. lines[k].op \in {"set", "sgdisk", "partx", "settle"}
        BY <1>o, <2>1, <2>5, <3>1
      <4>2. k \in Nat /\ k > 1
        BY <2>5, <3>1
      <4> QED BY <4>1, <4>2, OpsInPlace
    <3>2. CASE k = 1
      BY <2>5, <2>6, <3>2, OpsInPlace
    <3> QED BY <2>5, <3>1, <3>2
  <2>8. 1 \in DOMAIN lines /\ len + 1 \in Nat
    BY <2>5
  <2> QED BY <1>w, <2>5, <2>6, <2>7, <2>8 DEF Placed, lines
<1>3. Placed("raid1", Raid1Lines(node), 1)
  <2> DEFINE len == Len(node.parents)
             zero == [k \in 1..len |-> Unchecked("zero_superblock")]
  <2>1. PICK S : S = typed({"zero_superblock", "create"})
    OBVIOUS
  <2>2. Unchecked("zero_superblock") \in S /\ Checked("create") \in S
    BY <1>c, <2>1
  <2>3. zero \in Seq(S) /\ <<Checked("create")>> \in Seq(S)
    BY <2>2
  <2>4. Raid1Lines(node) = zero \o <<Checked("create")>>
    BY DEF Raid1Lines
  <2> HIDE DEF zero
  <2>5. Raid1Lines(node) \in Seq(S)
    BY <2>3, <2>4
  <2> DEFINE lines == Raid1Lines(node)
  <2> HIDE DEF lines
  <2>6. /\ DOMAIN lines = 1..Len(lines) /\ Len(lines) \in Nat
        /\ \A k \in DOMAIN lines : lines[k] \in S
    BY <2>5 DEF lines
  <2>7. \A k \in DOMAIN lines : lines[k].op \in {"zero_superblock", "create"}
    BY <1>o, <2>1, <2>6
  <2>8. \A k \in DOMAIN lines : InPlace("raid1", lines[k].op, k, 1)
    BY <2>7, OpsInPlace
  <2> QED BY <1>w, <2>6, <2>8 DEF Placed, lines
<1>4. Placed("dm-crypt-luks", LuksLines(node), 1)
  <2> DEFINE key == Passphrase(node)
             both == key \o <<"newline">> \o key
  <2>1. PICK a, b, c, d : a = Fed("luksFormat", key) /\ b = Fed("open", key)
                         /\ c = Fed("luksAddKey", both) /\ d = Fed("luksKillSlot", key)
    OBVIOUS
  <2>2. LuksLines(node) = <<a, b>> \o When("slot" \in node.opts, <<c, d>>)
    BY <2>1 DEF LuksLines
  <2>3. /\ a.op = "luksFormat" /\ b.op = "open" /\ a.check = TRUE
        /\ c.op = "luksAddKey" /\ d.op = "luksKillSlot"
    BY <2>1 DEF Fed
  <2> DEFINE lines == LuksLines(node)
  <2>o. /\ InPlace("dm-crypt-luks", a.op, 1, 1) /\ InPlace("dm-crypt-luks", b.op, 2, 1)
        /\ InPlace("dm-crypt-luks", c.op, 3, 1) /\ InPlace("dm-crypt-luks", d.op, 4, 1)
    BY <2>3, OpsInPlace
  <2>4. CASE "slot" \in node.opts
    <3>1. lines = <<a, b>> \o <<c, d>>
      BY <2>2, <2>4 DEF When
    <3>2. /\ Len(lines) = 4 /\ DOMAIN lines = 1..4 /\ lines[1] = a /\ lines[2] = b
          /\ lines[3] = c /\ lines[4] = d
      <4> HIDE DEF lines
      <4> QED BY <3>1
    <3> HIDE DEF lines
    <3>3. \A k \in 1..4 : k = 1 \/ k = 2 \/ k = 3 \/ k = 4
      OBVIOUS
    <3>4. \A k \in DOMAIN lines : InPlace("dm-crypt-luks", lines[k].op, k, 1)
      BY <2>o, <3>2, <3>3
    <3> QED BY <1>w, <2>3, <3>2, <3>4 DEF Placed, lines
  <2>5. CASE "slot" \notin node.opts
    <3>1. lines = <<a, b>> \o <<>>
      BY <2>2, <2>5 DEF When
    <3>2. /\ Len(lines) = 2 /\ DOMAIN lines = 1..2 /\ lines[1] = a /\ lines[2] = b
      <4> HIDE DEF lines
      <4> QED BY <3>1
    <3> HIDE DEF lines
    <3>3. \A k \in 1..2 : k = 1 \/ k = 2
      OBVIOUS
    <3>4. \A k \in DOMAIN lines : InPlace("dm-crypt-luks", lines[k].op, k, 1)
      BY <2>o, <3>2, <3>3
    <3> QED BY <1>w, <2>3, <3>2, <3>4 DEF Placed, lines
  <2> QED BY <2>4, <2>5
<1>5. Placed("lvm-pv", PvLines, 1) /\ Placed("lvm-vg", VgLines, 1)
  BY <1>w, OpsInPlace DEF PvLines, VgLines, Placed, Checked
<1>6. Placed("lvm-lv", LvLines, 1)
  BY <1>w, OpsInPlace DEF LvLines, Placed, Checked
<1>7. Placed("filesystem", FilesystemLines, 1)
  BY <1>w, OpsInPlace DEF FilesystemLines, Placed, Checked
<1>8. Placed("swap", SwapLines, 1)
  BY <1>w, OpsInPlace DEF SwapLines, Placed, Checked
<1>9. \A kind \in Fence : Placed(kind, FenceLines, 1)
  BY <1>w, OpsInPlace DEF FenceLines, Placed, Checked
<1> QED BY <1>1, <1>2, <1>3, <1>4, <1>5, <1>6, <1>7, <1>8, <1>9
-----------------------------------------------------------------------------
(* The node has written its object. *)
Done(n) == n < at \/ (n = at /\ step > MakerAt(plan, n))

(* What is on the disks while nodes are executed from a clean start: what  *)
(* they wrote, and nothing of what comes later on what they wiped.         *)
DiskInv ==
  phase = "execute" /\ ~dry /\ before = {} =>
    /\ \A n \in DOMAIN plan : plan[n].kind \in Written /\ Done(n) => n \in kernel.made
    /\ \A s \in DOMAIN plan : plan[s].kind \in Stock /\ Done(s) =>
         \A n \in Content(plan, s) \cap kernel.made : Done(n)
    /\ at \in kernel.up => step > KeyAt(plan, at)

(* So are the lines of a node of a rebuildable plan. *)
LEMMA PlacedLine ==
  ASSUME NEW p \in Plans, Rebuildable(p), NEW n \in DOMAIN p, ~p[n].ignore
  PROVE  /\ Placed(p[n].kind, EffectiveLines(p, n), MakerAt(p, n))
         /\ MakerAt(p, n) \in Nat \ {0}
<1>1. PICK node : node = p[n]
  OBVIOUS
<1>2. /\ Len(node.parents) \in Nat /\ DOMAIN node.parents = 1..Len(node.parents)
      /\ node.kind \in Kind /\ node.ignore = FALSE
  <2>1. node \in NodeRecord(DOMAIN p) /\ ~node.ignore
    BY <1>1, PlanShape
  <2> QED BY <2>1 DEF NodeRecord
<1> DEFINE lines == CommandLines(p, n)
           maker == IF node.kind = "hardware" THEN Len(lines) ELSE 1
<1>3. Placed(node.kind, lines, maker)
  <2>1. CASE node.kind = "hardware"
    <3>1. "overwrite" \in node.opts
      BY <1>1, <2>1 DEF Rebuildable, OfKind
    <3>2. lines = HardwareLines(node)
      BY <1>1, <2>1, LinesByKind
    <3> QED BY <1>2, <2>1, <3>1, <3>2, PlacedLines
  <2>2. CASE node.kind # "hardware"
    <3>1. maker = 1
      BY <2>2
    <3>2. CASE node.kind \in Fence
      <4>1. lines = FenceLines
        BY <1>1, <3>2, LinesByKind
      <4> QED BY <1>2, <3>1, <3>2, <4>1, PlacedLines
    <3>3. CASE node.kind \notin Fence
      <4> HIDE DEF lines, maker
      <4>1. /\ node.kind = "partition" => lines = PartitionLines(node)
            /\ node.kind = "raid1" => lines = Raid1Lines(node)
            /\ node.kind = "dm-crypt-luks" => lines = LuksLines(node)
            /\ node.kind = "lvm-pv" => lines = PvLines
            /\ node.kind = "lvm-vg" => lines = VgLines
            /\ node.kind = "lvm-lv" => lines = LvLines
            /\ node.kind = "filesystem" => lines = FilesystemLines
            /\ node.kind = "swap" => lines = SwapLines
        BY <1>1, LinesByKind DEF lines
      <4>2. node.kind \in {"partition", "raid1", "dm-crypt-luks", "lvm-pv", "lvm-vg",
                          "lvm-lv", "filesystem", "swap"}
        BY <1>2, <2>2, <3>3 DEF Kind, Fence
      <4>3. /\ Placed("partition", PartitionLines(node), 1)
            /\ Placed("raid1", Raid1Lines(node), 1)
            /\ Placed("dm-crypt-luks", LuksLines(node), 1)
            /\ Placed("lvm-pv", PvLines, 1) /\ Placed("lvm-vg", VgLines, 1)
            /\ Placed("lvm-lv", LvLines, 1) /\ Placed("filesystem", FilesystemLines, 1)
            /\ Placed("swap", SwapLines, 1)
        BY <1>2, PlacedLines
      <4> QED BY <3>1, <4>1, <4>2, <4>3
    <3> QED BY <3>2, <3>3
  <2> QED BY <2>1, <2>2
<1>4. lines \in Seq(LineOf(OpsOf(p[n].kind)))
  BY LinesTyped
<1> HIDE DEF lines
<1>5. /\ DOMAIN EffectiveLines(p, n) = DOMAIN lines
      /\ EffectiveLines(p, n) = [k \in 1..Len(lines) |-> EffectiveLines(p, n)[k]]
      /\ \A k \in DOMAIN lines : EffectiveLines(p, n)[k].op = lines[k].op
           /\ EffectiveLines(p, n)[k].check = (lines[k].check /\ TRUE)
  <2>1. \A k \in DOMAIN lines : lines[k] \in LineOf(OpsOf(p[n].kind))
    BY <1>4
  <2> QED BY <1>1, <1>2, <1>4, <2>1 DEF EffectiveLines, ApplyIgnore, LineOf, lines
<1>6. Len(EffectiveLines(p, n)) = Len(lines)
  BY <1>4, <1>5
<1>7. MakerAt(p, n) = maker
  BY <1>1, <1>6 DEF MakerAt
<1>8. maker \in Nat \ {0}
  <2>1. node.kind = "hardware" => maker \in DOMAIN lines /\ DOMAIN lines = 1..Len(lines)
    BY <1>3 DEF Placed, Written
  <2> QED BY <1>4, <2>1
<1> HIDE DEF maker
<1> QED BY <1>1, <1>3, <1>5, <1>6, <1>7, <1>8 DEF Placed

(* What a node that has been resolved is built from comes before it. *)
LEMMA ParentsBefore ==
  ASSUME NEW p, Prepared(p), NEW n \in DOMAIN p, ~Unresolved(p, n),
         p[n].kind \in Takers \cup {"partition", "lvm-lv"}
  PROVE  /\ \A q \in ParentsOf(p[n]) : q \in DOMAIN p /\ q < n
         /\ \A q \in ParentsOf(p[n]) :
              q \in Devices(p)[n] /\ Devices(p)[q] \subseteq Devices(p)[n]
<1>1. p \in Seq(NodeRecord(DOMAIN p)) /\ DOMAIN p = 1..Len(p) /\ Len(p) \in Nat
  BY DEF Prepared
<1>2. p[n].parents \in Seq(DOMAIN p)
  BY <1>1, NodeTyped
<1>3. \A q \in ParentsOf(p[n]) : q \in DOMAIN p
  BY <1>2 DEF ParentsOf
<1>4. ASSUME NEW q \in ParentsOf(p[n]) PROVE p[q].kind # "filesystem"
  <2>1. CASE p[n].kind = "lvm-lv"
    <3>1. OneParent(p[n]) /\ p[p[n].parents[1]].kind = "lvm-vg"
      BY <2>1 DEF Prepared, Valid, ValidLv
    <3>2. q = p[n].parents[1]
      BY <1>2, <3>1 DEF ParentsOf, OneParent
    <3> QED BY <3>1, <3>2
  <2>2. CASE p[n].kind # "lvm-lv"
    <3>1. HasDevice(p)[q]
      BY <2>2 DEF Unresolved, Fence, Takers
    <3> QED BY <1>1, <1>3, <3>1, MountHasNoDevice
  <2> QED BY <2>1, <2>2
<1>5. \A q \in ParentsOf(p[n]) : q < n
  BY <1>4 DEF Prepared
<1>6. /\ Devices(p)[n] = Below(p, n) \cup UNION {Devices(p)[q] : q \in Below(p, n)}
      /\ ParentsOf(p[n]) = Below(p, n)
  BY <1>1, <1>5, DevicesAre DEF Below
<1> QED BY <1>3, <1>5, <1>6

(* What is stored on a node comes after it. *)
LEMMA ContentAfter ==
  ASSUME NEW p, Prepared(p), NEW n \in DOMAIN p, NEW m \in Content(p, n)
  PROVE  m \in DOMAIN p /\ n < m /\ n \in Devices(p)[m]
<1>1. p \in Seq(NodeRecord(DOMAIN p)) /\ DOMAIN p = 1..Len(p) /\ Len(p) \in Nat
  BY DEF Prepared
<1>2. m \in DOMAIN p /\ n \in Devices(p)[m]
  BY DEF Content
<1>3. Devices(p)[m] \subseteq 1..(m - 1)
  BY <1>1, <1>2, DevicesOrdered
<1> QED BY <1>1, <1>2, <1>3

(* Every command that comes next is accepted. *)
LEMMA Accepted ==
  ASSUME Strict, Rebuildable(plan), RunInv, UpInv, OwnInv, DiskInv,
         ~dry, before = {}, phase = "execute", at \in DOMAIN plan,
         step \in DOMAIN EffectiveLines(plan, at)
  PROVE  ~Refused(plan, kernel, at, EffectiveLines(plan, at)[step].op)
<1> DEFINE op == EffectiveLines(plan, at)[step].op
           kind == plan[at].kind
           parents == ParentsOf(plan[at])
<1>1. /\ plan \in Plans /\ Prepared(plan) /\ Len(plan) \in Nat
      /\ DOMAIN plan = 1..Len(plan) /\ LiveNodes(plan) \subseteq DOMAIN plan
      /\ kernel.up \subseteq LiveNodes(plan) /\ at \in Nat /\ ~plan[at].ignore
  BY RunShape DEF Strict
<1>2. /\ Placed(kind, EffectiveLines(plan, at), MakerAt(plan, at))
      /\ MakerAt(plan, at) \in Nat \ {0}
  BY <1>1, PlacedLine
<1>3. InPlace(kind, op, step, MakerAt(plan, at)) /\ step \in Nat \ {0}
  BY <1>2 DEF Placed
<1>4. ~Unresolved(plan, at) /\ kernel.up \subseteq 1..at
  <2>1. Begun = at
    BY <1>3 DEF Begun
  <2> QED BY <1>1, <2>1 DEF UpInv, ResolvedTo
<1>5. \A n \in DOMAIN plan : n < at /\ plan[n].kind \in Written => n \in kernel.made
  BY DEF DiskInv, Done
<1>6. \A n \in LiveNodes(plan) : n < at => n \in kernel.up
  BY <1>1 DEF OwnInv
<1> HIDE DEF op, kind, parents
<1>7. kind \in Takers \cup {"partition", "lvm-lv"} =>
        \A q \in parents : q \in DOMAIN plan /\ q < at
  BY <1>1, <1>4, ParentsBefore DEF kind, parents
<1>8. op \in Uses => \A q \in parents : Standing(plan, kernel, q)
  <2> SUFFICES ASSUME op \in Uses, NEW q \in parents,
                      NEW r \in {q} \cup Devices(plan)[q]
               PROVE  /\ plan[r].kind \in {"raid1", "dm-crypt-luks", "lvm-lv"} =>
                           r \in kernel.up
                      /\ plan[r].kind \in {"partition", "lvm-pv", "lvm-vg"} =>
                           r \in kernel.made
    BY DEF Standing
  <2>1. q \in DOMAIN plan /\ q < at
    BY <1>3, <1>7 DEF InPlace
  <2>2. Devices(plan)[q] \subseteq 1..(q - 1)
    BY <1>1, <2>1, DevicesOrdered DEF Prepared
  <2>3. r \in DOMAIN plan /\ r < at
    BY <1>1, <2>1, <2>2
  <2> QED BY <1>5, <1>6, <2>3 DEF LiveNodes, Live, Written
<1>9. op \in Exclusive => \A q \in parents : ~Busy(plan, kernel, q)
  <2> SUFFICES ASSUME op \in Exclusive, NEW q \in parents, NEW m \in kernel.up,
                      q \in Beneath(plan, m)
               PROVE  FALSE
    BY DEF Busy
  <2>1. kind \in Takers
    BY <1>3 DEF InPlace
  <2>2. CASE m = at
    <3>1. step > KeyAt(plan, at)
      BY <2>2 DEF DiskInv
    <3>2. Keyed(EffectiveLines(plan, at), KeyAt(plan, at), KeyOps(kind))
      <4>1. kind \in HasCleanup \cup Live
        BY <1>1, <2>2 DEF LiveNodes, kind
      <4> QED BY <1>1, <4>1, KeyLine DEF kind
    <3>3. op \notin Raising
      BY <1>3, <3>1, <3>2 DEF Keyed, op
    <3>4. step > MakerAt(plan, at) \/ kind = "raid1"
      BY <1>1, <1>2, <1>3, <2>1, <3>1 DEF KeyAt, MakerAt, Takers, kind
    <3>5. op \notin Makes \/ kind = "raid1"
      BY <1>2, <1>3, <3>4 DEF InPlace
    <3> QED BY <1>3, <3>3, <3>5 DEF Exclusive, Makes, Raising, InPlace, Written
  <2>3. CASE m # at
    <3>1. m \in LiveNodes(plan) /\ m < at
      BY <1>1, <1>4, <2>3
    <3> QED BY <2>1, <3>1 DEF Rebuildable, kind, parents
  <2> QED BY <2>2, <2>3
<1>10. ~(op = "mklabel" /\ Busy(plan, kernel, at))
  <2> SUFFICES ASSUME NEW m \in kernel.up PROVE at \notin Beneath(plan, m)
    BY DEF Busy
  <2>1. Beneath(plan, m) \subseteq 1..(m - 1) /\ m \in 1..at
    BY <1>1, <1>4, BeneathOrdered
  <2> QED BY <1>1, <2>1
<1>11. op = "mkpart" => parents \subseteq kernel.made \cap OfKind(plan, "hardware")
  <2> SUFFICES ASSUME op = "mkpart", NEW q \in parents
               PROVE  q \in kernel.made \cap OfKind(plan, "hardware")
    OBVIOUS
  <2>1. kind = "partition"
    BY <1>3 DEF InPlace
  <2>2. q \in OfKind(plan, "hardware")
    BY <1>1, <2>1 DEF Rebuildable, OfKind, kind, parents
  <2> QED BY <1>5, <1>7, <2>1, <2>2 DEF OfKind, Written
<1>12. op \in NeedsMade => at \in kernel.made
  BY <1>3 DEF InPlace, DiskInv, Done, kind
<1>13. op \in NeedsNew => at \notin kernel.made
  <2> SUFFICES ASSUME op \in NeedsNew, at \in kernel.made PROVE FALSE
    OBVIOUS
  <2>1. kind \in {"partition", "lvm-vg", "lvm-lv"}
    BY <1>3 DEF InPlace
  <2>2. step = MakerAt(plan, at)
    BY <1>3 DEF InPlace, NeedsNew, Makes
  <2>3. ~Done(at)
    BY <1>1, <1>2, <2>2 DEF Done
  <2>4. PICK q \in parents : q \in DOMAIN plan
    <3>1. Len(plan[at].parents) >= 1
      BY <1>1, <2>1 DEF Prepared, Valid, ValidVg, ValidLv, OneParent, kind
    <3>2. plan[at].parents \in Seq(DOMAIN plan)
      BY <1>1, NodeTyped DEF Prepared
    <3> QED BY <3>1, <3>2 DEF ParentsOf, parents
  <2>5. \E s \in Devices(plan)[at] : plan[s].kind \in Stock
    <3>1. q \in Devices(plan)[at] /\ Devices(plan)[q] \subseteq Devices(plan)[at]
      <4>1. plan[at].kind \in Takers \cup {"partition", "lvm-lv"}
        BY <2>1 DEF Takers, kind
      <4>2. q \in ParentsOf(plan[at])
        BY <2>4 DEF parents
      <4> QED BY <1>1, <1>4, <4>1, <4>2, ParentsBefore
    <3>2. CASE kind = "partition"
      BY <1>1, <2>4, <3>1, <3>2 DEF Rebuildable, OfKind, Stock, kind, parents
    <3>3. CASE kind = "lvm-vg"
      BY <1>1, <2>4, <3>1, <3>3 DEF Rebuildable, OfKind, Stock, kind, parents
    <3>4. CASE kind = "lvm-lv"
      <4>1. plan[q].kind = "lvm-vg"
        <5>1. OneParent(plan[at]) /\ plan[plan[at].parents[1]].kind = "lvm-vg"
          BY <1>1, <3>4 DEF Prepared, Valid, ValidLv, kind
        <5>2. plan[at].parents \in Seq(DOMAIN plan)
          BY <1>1, NodeTyped DEF Prepared
        <5> QED BY <5>1, <5>2 DEF ParentsOf, OneParent, parents
      <4>2. ~Unresolved(plan, q) /\ q < at
        <5>1. q < at
          BY <1>7, <3>4
        <5>2. q \in 1..Begun
          BY <1>1, <1>3, <2>4, <5>1 DEF Begun
        <5> QED BY <1>1, <5>1, <5>2 DEF UpInv, ResolvedTo
      <4>3. PICK s \in ParentsOf(plan[q]) : s \in DOMAIN plan
        <5>1. Len(plan[q].parents) >= 1 /\ plan[q].parents \in Seq(DOMAIN plan)
          BY <1>1, <2>4, <4>1, NodeTyped DEF Prepared, Valid, ValidVg
        <5> QED BY <5>1 DEF ParentsOf
      <4>4. s \in Devices(plan)[q]
        BY <1>1, <2>4, <4>1, <4>2, ParentsBefore DEF Takers
      <4>5. plan[s].kind = "lvm-pv"
        BY <1>1, <2>4, <4>1 DEF Rebuildable, OfKind
      <4> QED BY <3>1, <4>4, <4>5 DEF Stock
    <3> QED BY <2>1, <3>2, <3>3, <3>4
  <2>6. PICK s \in Devices(plan)[at] : plan[s].kind \in Stock
    BY <2>5
  <2>7. s \in DOMAIN plan /\ s < at /\ at \in Content(plan, s)
    <3>1. Devices(plan)[at] \subseteq 1..(at - 1)
      BY <1>1, DevicesOrdered DEF Prepared
    <3> QED BY <1>1, <2>6, <3>1 DEF Content
  <2> QED BY <2>3, <2>6, <2>7 DEF DiskInv, Done
<1>14. op \in NeedsDown => at \notin kernel.up
  <2> SUFFICES ASSUME op \in NeedsDown, at \in kernel.up PROVE FALSE
    OBVIOUS
  <2>1. step > KeyAt(plan, at)
    BY DEF DiskInv
  <2>2. Keyed(EffectiveLines(plan, at), KeyAt(plan, at), KeyOps(kind))
    <3>1. kind \in HasCleanup \cup Live
      BY <1>1 DEF LiveNodes, kind
    <3> QED BY <1>1, <3>1, KeyLine DEF kind
  <2>3. step = KeyAt(plan, at)
    <3>1. op \in Raising
      BY DEF NeedsDown, Raising
    <3> QED BY <2>2, <3>1 DEF Keyed, op
  <2> QED BY <1>3, <2>1, <2>3
<1>15. op # "mountpoint"
  BY <1>3 DEF InPlace
<1> QED BY <1>8, <1>9, <1>10, <1>11, <1>12, <1>13, <1>14, <1>15 DEF Refused, op, parents

(* What one accepted command writes. *)
LEMMA CommandWrites ==
  ASSUME Strict, Rebuildable(plan), RunInv, UpInv, OwnInv, DiskInv,
         ~dry, before = {}, phase = "execute", at \in DOMAIN plan,
         NEW outcome, RunCommandAs(outcome), ~Fail
  PROVE  /\ step' = step + 1 /\ at' = at /\ step \in DOMAIN EffectiveLines(plan, at)
         /\ LET line == EffectiveLines(plan, at)[step] IN
            /\ kernel' = kernel \/ kernel' = Effect(plan, kernel, at, line.op)
            /\ line.check => kernel' = Effect(plan, kernel, at, line.op)
<1> DEFINE line == EffectiveLines(plan, at)[step]
<1>1. /\ step \in DOMAIN EffectiveLines(plan, at)
      /\ outcome \in Outcomes(Faults, Refused(plan, kernel, at, line.op))
      /\ kernel' = IF TakesEffect(outcome, Refused(plan, kernel, at, line.op))
                   THEN Effect(plan, kernel, at, line.op) ELSE kernel
      /\ ~Raises(outcome, line.check) /\ step' = step + 1 /\ at' = at
  BY DEF RunCommandAs
<1>2. ~Refused(plan, kernel, at, line.op)
  BY <1>1, Accepted
<1> HIDE DEF line
<1>3. outcome \in {"ok"} \cup Faults
  BY <1>1, <1>2 DEF Outcomes
<1>4. line.check => outcome = "ok"
  BY <1>1, <1>3, ProvisionerAssumption DEF Raises, Strict, FaultKinds
<1>5. line.check => TakesEffect(outcome, Refused(plan, kernel, at, line.op))
  BY <1>2, <1>4 DEF TakesEffect
<1> QED BY <1>1, <1>5 DEF line

(* A command keeps DiskInv. *)
LEMMA DiskCommand ==
  ASSUME Strict, Rebuildable(plan), RunInv, UpInv, OwnInv, DiskInv,
         ~dry, before = {}, phase = "execute", at \in DOMAIN plan,
         NEW outcome, RunCommandAs(outcome), ~Fail
  PROVE  DiskInv'
<1> DEFINE line == EffectiveLines(plan, at)[step]
           m == MakerAt(plan, at)
<1>1. /\ plan \in Plans /\ Prepared(plan) /\ Len(plan) \in Nat
      /\ DOMAIN plan = 1..Len(plan) /\ at \in Nat /\ ~plan[at].ignore
      /\ kernel \in KernelStates(plan) /\ step \in Nat
  BY RunShape DEF Strict
<1>2. /\ step' = step + 1 /\ at' = at /\ step \in DOMAIN EffectiveLines(plan, at)
      /\ kernel' = kernel \/ kernel' = Effect(plan, kernel, at, line.op)
      /\ line.check => kernel' = Effect(plan, kernel, at, line.op)
  BY CommandWrites
<1>3. UNCHANGED <<plan, dry, before, phase>>
  BY DEF RunCommandAs, config
<1>4. /\ Placed(plan[at].kind, EffectiveLines(plan, at), m) /\ m \in Nat \ {0}
  BY <1>1, PlacedLine
<1>5. InPlace(plan[at].kind, line.op, step, m)
  BY <1>2, <1>4 DEF Placed
<1>6. step = m /\ plan[at].kind \in Written =>
        /\ kernel' = Effect(plan, kernel, at, line.op) /\ line.op \in Makes
        /\ plan[at].kind \in Stock => line.op \in {"mklabel", "pvcreate"}
  BY <1>2, <1>4 DEF Placed
<1> HIDE DEF line, m
<1>7. \A n \in DOMAIN plan : Done(n)' <=> (n < at \/ (n = at /\ step + 1 > m))
  BY <1>2, <1>3 DEF Done, MakerAt, m
<1>8. \A n \in DOMAIN plan : Done(n) <=> (n < at \/ (n = at /\ step > m))
  BY DEF Done, m
<1>9. \A n \in DOMAIN plan : Done(n) => Done(n)'
  BY <1>1, <1>4, <1>7, <1>8
<1>10. \A n \in DOMAIN plan : Done(n)' /\ ~Done(n) => n = at /\ step = m
  BY <1>1, <1>4, <1>7, <1>8
<1>11. at \notin Content(plan, at) /\ Content(plan, at) \subseteq DOMAIN plan
  BY <1>1, ContentAfter
<1>12. ASSUME kernel' = Effect(plan, kernel, at, line.op)
       PROVE  kernel'.made = MadeBy(plan, kernel, at, line.op)
  BY <1>12 DEF Effect
<1>13. ASSUME kernel' = Effect(plan, kernel, at, line.op)
       PROVE  /\ kernel'.made \subseteq kernel.made \cup {at}
              /\ at \in kernel'.made => at \in kernel.made \/ line.op \in Makes
              /\ \A n \in kernel.made : n \in kernel'.made \/ n \in Content(plan, at)
                                         \/ (n = at /\ line.op \in Zeroes)
              /\ line.op \in Makes => at \in kernel'.made
              /\ line.op \in {"mklabel", "pvcreate"} =>
                   Content(plan, at) \cap kernel'.made = {}
  <2>1. kernel'.made = MadeBy(plan, kernel, at, line.op)
    BY <1>12, <1>13
  <2>2. CASE line.op \in Zeroes
    <3>1. kernel'.made = kernel.made \ ({at} \cup Content(plan, at))
      BY <2>1, <2>2 DEF MadeBy, Zeroes
    <3> QED BY <2>2, <3>1 DEF Zeroes, Makes
  <2>3. CASE line.op \in {"mklabel", "luksFormat", "pvcreate", "mkfs", "mkswap"}
    <3>1. kernel'.made = (kernel.made \ Content(plan, at)) \cup {at}
      BY <2>1, <2>3 DEF MadeBy
    <3> QED BY <1>11, <2>3, <3>1 DEF Makes
  <2>4. CASE line.op = "create"
    <3>1. kernel'.made = kernel.made \ Content(plan, at)
      BY <2>1, <2>4 DEF MadeBy
    <3> QED BY <2>4, <3>1 DEF Makes
  <2>5. CASE line.op \in {"mkpart", "vgcreate", "lvcreate"}
    <3>1. kernel'.made = kernel.made \cup {at}
      BY <2>1, <2>5 DEF MadeBy
    <3> QED BY <2>5, <3>1 DEF Makes
  <2>6. CASE line.op \notin Zeroes \cup Makes \cup {"create"}
    <3>1. kernel'.made = kernel.made
      BY <2>1, <2>6 DEF MadeBy, Zeroes, Makes
    <3> QED BY <2>6, <3>1 DEF Makes
  <2> QED BY <2>2, <2>3, <2>4, <2>5, <2>6 DEF Makes
<1>14. ASSUME NEW n \in DOMAIN plan, plan[n].kind \in Written, Done(n)'
       PROVE  n \in kernel'.made
  <2>1. CASE Done(n)
    <3>1. n \in kernel.made
      BY <1>14, <2>1 DEF DiskInv
    <3>2. CASE kernel' = kernel
      BY <3>1, <3>2
    <3>3. CASE kernel' = Effect(plan, kernel, at, line.op)
      <4>1. n \notin Content(plan, at)
        <5>1. n <= at
          BY <1>1, <1>8, <2>1
        <5> QED BY <1>1, <5>1, ContentAfter
      <4>2. ~(n = at /\ line.op \in Zeroes)
        BY <1>1, <1>4, <1>5, <1>8, <2>1 DEF InPlace
      <4> QED BY <1>13, <3>1, <3>3, <4>1, <4>2
    <3> QED BY <1>2, <3>2, <3>3
  <2>2. CASE ~Done(n)
    BY <1>6, <1>10, <1>13, <1>14, <2>2
  <2> QED BY <2>1, <2>2
<1>15. ASSUME NEW s \in DOMAIN plan, plan[s].kind \in Stock, Done(s)',
              NEW n \in Content(plan, s), n \in kernel'.made
       PROVE  Done(n)'
  <2>1. n \in DOMAIN plan /\ s < n
    BY <1>1, ContentAfter
  <2>2. CASE n = at
    <3>1. CASE n \in kernel.made /\ Done(s)
      BY <1>9, <1>15, <2>1, <3>1 DEF DiskInv
    <3>2. CASE n \notin kernel.made
      <4>1. kernel' = Effect(plan, kernel, at, line.op)
        BY <1>2, <1>15, <3>2
      <4>2. line.op \in Makes
        BY <1>13, <1>15, <2>2, <3>2, <4>1
      <4>3. step = m
        BY <1>5, <4>2 DEF InPlace
      <4> QED BY <1>1, <1>4, <1>7, <2>2, <4>3
    <3>3. CASE ~Done(s)
      BY <1>1, <1>10, <1>15, <2>1, <2>2, <3>3
    <3> QED BY <3>1, <3>2, <3>3
  <2>3. CASE n # at
    <3>1. n \in kernel.made
      BY <1>2, <1>13, <1>15, <2>3
    <3>2. CASE Done(s)
      BY <1>9, <1>15, <2>1, <3>1, <3>2 DEF DiskInv
    <3>3. CASE ~Done(s)
      <4>1. s = at /\ step = m /\ plan[at].kind \in Written
        BY <1>10, <1>15, <3>3 DEF Stock, Written
      <4>2. /\ kernel' = Effect(plan, kernel, at, line.op)
            /\ line.op \in {"mklabel", "pvcreate"}
        BY <1>6, <1>15, <4>1
      <4>3. Content(plan, at) \cap kernel'.made = {}
        BY <1>13, <4>2
      <4> QED BY <1>15, <4>1, <4>3
    <3> QED BY <3>2, <3>3
  <2> QED BY <2>2, <2>3
<1>16. at \in kernel'.up => step + 1 > KeyAt(plan, at)
  <2>1. KeyAt(plan, at) \in Nat
    <3>1. Len(plan[at].parents) \in Nat
      BY <1>1, PlanShape DEF NodeRecord
    <3> QED BY <3>1 DEF KeyAt
  <2>2. CASE at \in kernel.up
    BY <1>1, <2>1, <2>2 DEF DiskInv
  <2>3. CASE at \notin kernel.up /\ at \in kernel'.up
    <3>1. kernel' = Effect(plan, kernel, at, line.op)
      BY <1>2, <2>3
    <3>2. line.op \in Raising
      BY <2>3, <3>1 DEF Effect, UpBy, Raising
    <3>3. at \in LiveNodes(plan)
      BY <1>1, <1>2, <3>2, EffectiveOp DEF line
    <3>4. Keyed(EffectiveLines(plan, at), KeyAt(plan, at), KeyOps(plan[at].kind))
      BY <1>1, <3>3, KeyLine DEF LiveNodes
    <3>5. step = KeyAt(plan, at)
      BY <1>2, <3>2, <3>4 DEF Keyed, line
    <3> QED BY <1>1, <3>5
  <2> QED BY <2>2, <2>3
<1>17. \A n \in DOMAIN plan : plan[n].kind \in Written /\ Done(n)' => n \in kernel'.made
  BY <1>14
<1>18. \A s \in DOMAIN plan : plan[s].kind \in Stock /\ Done(s)' =>
         \A n \in Content(plan, s) \cap kernel'.made : Done(n)'
  BY <1>15
<1> QED BY <1>2, <1>3, <1>16, <1>17, <1>18 DEF DiskInv

(* Every step keeps DiskInv. *)
LEMMA DiskStep ==
  ASSUME Strict, \A p \in Plans : Rebuildable(p)
  PROVE  RunInv /\ UpInv /\ OwnInv /\ DiskInv /\ [Next]_vars => DiskInv'
<1> SUFFICES ASSUME RunInv, UpInv, OwnInv, DiskInv, [Next]_vars,
                    phase' = "execute", ~dry', before' = {}
             PROVE  DiskInv'
  BY DEF DiskInv
<1>1. /\ plan \in Plans /\ Prepared(plan) /\ Len(plan) \in Nat /\ Rebuildable(plan)
      /\ DOMAIN plan = 1..Len(plan) /\ LiveNodes(plan) \subseteq DOMAIN plan
      /\ at \in Nat /\ step \in Nat /\ kernel.up \subseteq LiveNodes(plan)
      /\ \A n \in DOMAIN plan : ~plan[n].ignore
  BY RunShape DEF Strict
<1>2. \A n \in DOMAIN plan :
        /\ Placed(plan[n].kind, EffectiveLines(plan, n), MakerAt(plan, n))
        /\ MakerAt(plan, n) \in Nat \ {0}
  BY <1>1, PlacedLine
<1>3. CASE UNCHANGED vars
  BY <1>3 DEF vars, config, status, books, DiskInv, Done
<1>4. CASE StartNodes
  <2>1. /\ UNCHANGED <<plan, dry, kernel, before>> /\ phase = "modprobe"
        /\ at' = 1 /\ step' = 0
    BY <1>4 DEF StartNodes, config
  <2>2. kernel'.up = {}
    BY <2>1 DEF UpInv
  <2>3. \A n \in DOMAIN plan : ~Done(n)'
    <3>1. \A n \in DOMAIN plan : ~(n < 1) /\ ~(0 > MakerAt(plan, n))
      BY <1>1, <1>2
    <3> QED BY <2>1, <3>1 DEF Done
  <2> QED BY <2>1, <2>2, <2>3 DEF DiskInv
<1>5. CASE EnterNode
  <2>1. /\ UNCHANGED <<plan, dry, kernel, before>> /\ phase = "execute" /\ step = 0
    BY <1>5 DEF EnterNode, config
  <2>2. at' = at /\ step' = 1
    BY <1>5 DEF EnterNode, Fail
  <2>3. \A n \in DOMAIN plan : Done(n)' <=> Done(n)
    <3>1. \A n \in DOMAIN plan : ~(0 > MakerAt(plan, n)) /\ ~(1 > MakerAt(plan, n))
      BY <1>2
    <3> QED BY <2>1, <2>2, <3>1 DEF Done
  <2>4. at \notin kernel.up
    <3>1. kernel.up \subseteq 1..(at - 1)
      BY <2>1 DEF UpInv, Begun
    <3> QED BY <1>1, <3>1
  <2>5. DiskInv /\ ~dry /\ before = {}
    BY <2>1
  <2>6. \A n \in DOMAIN plan : plan[n].kind \in Written /\ Done(n)' => n \in kernel.made
    BY <2>1, <2>3, <2>5 DEF DiskInv
  <2>7. \A s \in DOMAIN plan : plan[s].kind \in Stock /\ Done(s)' =>
          \A n \in Content(plan, s) \cap kernel.made : Done(n)'
    <3> SUFFICES ASSUME NEW s \in DOMAIN plan, plan[s].kind \in Stock, Done(s)',
                        NEW n \in Content(plan, s) \cap kernel.made
                 PROVE  Done(n)'
      OBVIOUS
    <3>1. n \in DOMAIN plan
      BY <1>1, ContentAfter
    <3>2. Done(s)
      BY <2>3
    <3>3. Done(n)
      BY <2>1, <2>5, <3>2 DEF DiskInv
    <3> QED BY <2>3, <3>1, <3>3
  <2> QED BY <2>1, <2>2, <2>4, <2>6, <2>7 DEF DiskInv
<1>6. CASE RunCommand
  <2>1. PICK outcome \in Outcome : RunCommandAs(outcome)
    BY <1>6 DEF RunCommand
  <2>2. ~Fail
    BY DEF Fail
  <2>3. /\ ~dry /\ before = {} /\ phase = "execute" /\ at \in DOMAIN plan
    BY <2>1, RunCommandUp DEF RunCommandAs, config
  <2> QED BY <1>1, <2>1, <2>2, <2>3, DiskCommand
<1>7. CASE CompleteNode
  <2>1. /\ UNCHANGED <<plan, dry, kernel, before>> /\ phase = "execute"
        /\ at <= Len(plan) /\ at' = at + 1 /\ step' = 0
        /\ step = Len(EffectiveLines(plan, at)) + 1
    BY <1>7 DEF CompleteNode, config
  <2>2. \A n \in DOMAIN plan : Done(n)' <=> n <= at
    <3>1. \A n \in DOMAIN plan : ~(0 > MakerAt(plan, n)) /\ (n < at + 1 <=> n <= at)
      BY <1>1, <1>2
    <3> QED BY <2>1, <3>1 DEF Done
  <2>3. \A n \in DOMAIN plan : Done(n) => n <= at
    BY <1>1 DEF Done
  <2>4. \A n \in DOMAIN plan : n <= at /\ plan[n].kind \in Written => Done(n)
    <3> SUFFICES ASSUME NEW n \in DOMAIN plan, n = at, plan[n].kind \in Written
                 PROVE  step > MakerAt(plan, at)
      BY <1>1 DEF Done
    <3>1. MakerAt(plan, at) \in DOMAIN EffectiveLines(plan, at)
          /\ DOMAIN EffectiveLines(plan, at) = 1..Len(EffectiveLines(plan, at))
          /\ Len(EffectiveLines(plan, at)) \in Nat
      BY <1>2 DEF Placed
    <3> QED BY <2>1, <3>1
  <2>5. at + 1 \notin kernel.up
    <3>1. kernel.up \subseteq 1..at
      BY <1>1, <2>1 DEF UpInv, Begun
    <3> QED BY <1>1, <3>1
  <2>6. Stock \subseteq Written
    BY DEF Stock, Written
  <2>7. \A n \in DOMAIN plan : plan[n].kind \in Written /\ Done(n)' => n \in kernel.made
    BY <2>1, <2>2, <2>4 DEF DiskInv
  <2>8. \A s \in DOMAIN plan : plan[s].kind \in Stock /\ Done(s)' =>
          \A n \in Content(plan, s) \cap kernel.made : Done(n)'
    <3> SUFFICES ASSUME NEW s \in DOMAIN plan, plan[s].kind \in Stock, Done(s)',
                        NEW n \in Content(plan, s) \cap kernel.made
                 PROVE  Done(n)'
      OBVIOUS
    <3>1. n \in DOMAIN plan /\ Done(s)
      BY <1>1, <2>2, <2>4, <2>6, ContentAfter
    <3>2. Done(n)
      BY <2>1, <3>1 DEF DiskInv
    <3> QED BY <2>2, <2>3, <3>1, <3>2
  <2> QED BY <2>1, <2>5, <2>7, <2>8 DEF DiskInv
<1> QED BY <1>3, <1>4, <1>5, <1>6, <1>7 DEF Next, Process, Preflight, Modprobe,
      ModprobeAs, StartVerify, PassNode, VerifyNode, VerifyNodeAs, Succeed,
      CleanupNode, EndCleanup, Interrupt, Rerun, Fail

(* Something is mounted where a live filesystem is to be: of those that    *)
(* are, one is on top.                                                     *)
LEMMA OneOnTop ==
  ASSUME NEW p, Prepared(p), NEW k, k.up \subseteq DOMAIN p,
         NEW n \in k.up, p[n].kind = "filesystem"
  PROVE  MountedAt(p, k, n) # {}
<1>1. DOMAIN p = 1..Len(p) /\ Len(p) \in Nat
  BY DEF Prepared
<1> DEFINE len == Len(p)
           there == {g \in k.up : p[g].kind = "filesystem" /\ p[g].path = p[n].path}
           below == {i \in 0..len : \A h \in there : h <= len - i}
<1> SUFFICES ASSUME MountedAt(p, k, n) = {} PROVE FALSE
  OBVIOUS
<1>2. \A g \in there : \E h \in there : ~(h <= g)
  BY DEF MountedAt
<1>3. there \subseteq 1..len /\ n \in there
  BY <1>1
<1> HIDE DEF there, len
<1>4. len \in Nat
  BY <1>1 DEF len
<1>5. 0 \in below
  BY <1>3, <1>4
<1>6. ASSUME NEW i \in 1..len, i - 1 \in below PROVE i \in below
  <2>1. \A h \in there : h <= len - (i - 1)
    BY <1>6
  <2>2. len - (i - 1) \notin there
    BY <1>2, <2>1
  <2> QED BY <1>3, <1>4, <2>1, <2>2
<1>7. 0..len \subseteq below
  <2> HIDE DEF below
  <2> QED BY <1>4, <1>5, <1>6, PrefixInduction
<1>8. len \in below
  BY <1>4, <1>7
<1>9. n <= len - len /\ n \in 1..len
  BY <1>3, <1>8
<1> QED BY <1>4, <1>9

(* A run from a clean start is not obstructed. *)
LEMMA CleanRun ==
  ASSUME Strict, \A p \in Plans : Rebuildable(p),
         RunInv, UpInv, OwnInv, DiskInv, before = {}, ~dry
  PROVE  Unobstructed
<1>1. /\ plan \in Plans /\ Prepared(plan) /\ Len(plan) \in Nat /\ Rebuildable(plan)
      /\ DOMAIN plan = 1..Len(plan) /\ at \in Nat /\ step \in Nat
      /\ kernel.up \subseteq DOMAIN plan /\ \A n \in DOMAIN plan : ~plan[n].ignore
  BY RunShape DEF Strict
<1>2. ASSUME phase = "execute", at <= Len(plan),
             step \in DOMAIN EffectiveLines(plan, at)
      PROVE  ~Refused(plan, kernel, at, EffectiveLines(plan, at)[step].op)
  <2>1. at \in DOMAIN plan
    BY <1>1, <1>2 DEF RunInv, UndoLog
  <2> QED BY <1>1, <1>2, <2>1, Accepted
<1>3. ASSUME phase = "verify", at <= Len(plan),
             NEW k \in DOMAIN EffectiveVerifyLines(plan, at)
      PROVE  ~Refused(plan, kernel, at, EffectiveVerifyLines(plan, at)[k].op)
  <2>1. at \in DOMAIN plan
    BY <1>1, <1>3 DEF RunInv, UndoLog
  <2>2. plan[at].kind = "filesystem"
    <3>1. plan[at].kind # "filesystem" => EffectiveVerifyLines(plan, at) = <<>>
      BY DEF EffectiveVerifyLines, ApplyIgnore, VerifyLines, When
    <3> QED BY <1>3, <3>1
  <2>3. EffectiveVerifyLines(plan, at)[k].op = "mountpoint"
    <3>1. EffectiveVerifyLines(plan, at) = <<Checked("mountpoint")>>
      BY <1>1, <2>1, <2>2, MountpointLine
    <3>2. k = 1 /\ Checked("mountpoint").op = "mountpoint"
      BY <3>1 DEF Checked
    <3> QED BY <3>1, <3>2
  <2>4. at \in kernel.up
    BY <1>3, <2>1, <2>2 DEF OwnInv, LiveNodes, Live
  <2>5. MountedAt(plan, kernel, at) # {}
    BY <1>1, <2>2, <2>4, OneOnTop
  <2> QED BY <2>3, <2>5 DEF Refused, Exclusive, Uses, NeedsMade, NeedsNew, NeedsDown
<1> QED BY <1>2, <1>3 DEF Unobstructed

(* README.md:42, for runs that find nothing live: where no error is        *)
(* ignored, no command lies and the plan recreates its tables, nothing     *)
(* that earlier runs, killed ones too, wrote to the disks gets a command   *)
(* refused.                                                                *)
THEOREM CleanStartUnobstructed ==
  ASSUME Strict, \A p \in Plans : Rebuildable(p)
  PROVE  Spec => []CleanStartRuns
<1>1. Init => DiskInv
  BY DEF Init, DiskInv
<1>2. RunInv /\ LeakInv /\ OwnInv /\ DiskInv /\ [Next]_vars => DiskInv'
  BY DiskStep DEF LeakInv
<1>3. RunInv /\ LeakInv /\ OwnInv /\ DiskInv => CleanStartRuns
  BY CleanRun DEF LeakInv, CleanStartRuns
<1> QED BY <1>1, <1>2, <1>3, OwnCorrect, PTL DEF Spec

(* README.md:42 "re-running is safe without manual intervention": where    *)
(* every failure can be undone and the plan recreates its tables, no       *)
(* command of the first run or of a further one is refused because of what *)
(* an earlier command or an earlier run left behind.                       *)
THEOREM RunsUnobstructed ==
  ASSUME Reversible, \A p \in Plans : Rebuildable(p)
  PROVE  Spec => []Unobstructed
<1>1. Strict
  BY DEF Reversible
<1>2. Spec => [](RunInv /\ LeakInv /\ OwnInv)
  BY <1>1, OwnCorrect
<1>3. Init => AllInv
  BY InitAll
<1>4. RunInv /\ LeakInv /\ OwnInv /\ AllInv /\ [Next]_vars => AllInv'
  BY AllStep DEF LeakInv
<1>5. Spec => []CleanStartRuns
  BY <1>1, CleanStartUnobstructed
<1>6. AllInv /\ CleanStartRuns => Unobstructed
  BY DEF AllInv, CleanStartRuns
<1> QED BY <1>2, <1>3, <1>4, <1>5, <1>6, PTL DEF Spec
=============================================================================
