------------------------- MODULE ProvisionerProofs -------------------------
(***************************************************************************)
(* Safety of Provisioner, for every set of prepared plans, every choice of *)
(* options, faults and bounds. RunInv is the inductive invariant: next to  *)
(* the type invariant and the undo log it says what verification has shown *)
(* so far, which nothing changes before the run ends.                      *)
(***************************************************************************)
EXTENDS Provisioner, TLAPS

(* A command line with one of the given operations. *)
LineOf(ops) == [op : ops, stdin : Seq(Token), check : BOOLEAN]

(* The operations that bring something up, and those that do not. *)
Raising == {"create", "open", "lvchange", "mount", "swapon"}
Still == {"zero_all", "zero_prefix", "mklabel", "mkpart", "set", "sgdisk",
          "partx", "settle", "zero_superblock", "luksFormat", "luksAddKey",
          "luksKillSlot", "pvcreate", "vgcreate", "lvcreate", "vgmknodes",
          "mkfs", "mkdir", "mkswap", "argv", "mountpoint"}
OpsOf(kind) == IF kind \in Live THEN Still \cup Raising ELSE Still

(* What the verification loop has established. *)
Verified ==
  /\ exit = "success" => phase = "exited"
  /\ phase = "verify" /\ ~dry =>
       \A n \in OfKind(plan, "filesystem") :
         n < at /\ ~plan[n].ignore => MountedAt(plan, kernel, n) # {}

RunInv == TypeOK /\ UndoLog /\ Verified /\ SuccessMeansMounted
-----------------------------------------------------------------------------
(* A plan is a sequence of node records. *)
LEMMA PlanShape ==
  ASSUME NEW p \in Plans
  PROVE  /\ p \in Seq(NodeRecord(DOMAIN p))
         /\ Len(p) \in Nat
         /\ DOMAIN p = 1..Len(p)
         /\ \A n \in DOMAIN p : p[n] \in NodeRecord(DOMAIN p)
BY ProvisionerAssumption DEF Prepared

(* The commands of a node are those of its type. *)
LEMMA LinesByKind ==
  ASSUME NEW p, NEW n, NEW node, node = p[n]
  PROVE  /\ node.kind = "hardware" => CommandLines(p, n) = HardwareLines(node)
         /\ node.kind = "partition" => CommandLines(p, n) = PartitionLines(node)
         /\ node.kind = "raid1" => CommandLines(p, n) = Raid1Lines(node)
         /\ node.kind = "dm-crypt-luks" => CommandLines(p, n) = LuksLines(node)
         /\ node.kind = "lvm-pv" => CommandLines(p, n) = PvLines
         /\ node.kind = "lvm-vg" => CommandLines(p, n) = VgLines
         /\ node.kind = "lvm-lv" => CommandLines(p, n) = LvLines
         /\ node.kind = "filesystem" => CommandLines(p, n) = FilesystemLines
         /\ node.kind = "swap" => CommandLines(p, n) = SwapLines
         /\ node.kind \in Fence => CommandLines(p, n) = FenceLines
BY DEF CommandLines, Fence

(* Lists of lines whose operations are all in one set. *)
LEMMA StillTyped ==
  ASSUME NEW S, NEW node,
         \A op \in Still : Checked(op) \in S /\ Unchecked(op) \in S
  PROVE  /\ HardwareLines(node) \in Seq(S)
         /\ PartitionLines(node) \in Seq(S)
         /\ PvLines \in Seq(S) /\ VgLines \in Seq(S) /\ FenceLines \in Seq(S)
<1>1. HardwareLines(node) \in Seq(S)
  <2>1. /\ Unchecked("zero_all") \in S
        /\ Checked("zero_prefix") \in S
        /\ Checked("mklabel") \in S
    BY DEF Still
  <2>2. When("erase_all" \in node.opts, <<Unchecked("zero_all")>>) \in Seq(S)
    BY <2>1 DEF When
  <2>3. When("erase" \in node.opts, <<Checked("zero_prefix")>>) \in Seq(S)
    BY <2>1 DEF When
  <2>4. When("overwrite" \in node.opts, <<Checked("mklabel")>>) \in Seq(S)
    BY <2>1 DEF When
  <2> QED BY <2>2, <2>3, <2>4 DEF HardwareLines
<1>2. PartitionLines(node) \in Seq(S)
  <2>1. /\ Checked("mkpart") \in S /\ Checked("set") \in S
        /\ Checked("sgdisk") \in S
        /\ Unchecked("partx") \in S /\ Checked("settle") \in S
    BY DEF Still
  <2>2. When("flags" \in node.opts, <<Checked("set")>>) \in Seq(S)
    BY <2>1 DEF When
  <2>3. When("uuid" \in node.opts, <<Checked("sgdisk")>>) \in Seq(S)
    BY <2>1 DEF When
  <2>4. /\ <<Checked("mkpart")>> \in Seq(S)
        /\ <<Unchecked("partx"), Checked("settle")>> \in Seq(S)
    BY <2>1
  <2> QED BY <2>2, <2>3, <2>4 DEF PartitionLines
<1>3. Checked("pvcreate") \in S /\ Checked("vgcreate") \in S /\ Checked("argv") \in S
  BY DEF Still
<1> QED BY <1>1, <1>2, <1>3 DEF PvLines, VgLines, FenceLines

(* Passphrases, and what luksAddKey reads, are sequences of tokens. *)
LEMMA PassphraseTyped ==
  ASSUME NEW node
  PROVE  /\ Passphrase(node) \in Seq(Token)
         /\ Passphrase(node) \o <<"newline">> \o Passphrase(node) \in Seq(Token)
<1>1. PICK word \in Token : word = IF "marker" \in node.opts THEN "marker" ELSE "key"
  BY DEF Token
<1>2. PICK eol \in Seq(Token) : eol = When("eol" \in node.opts, <<"newline">>)
  <2>1. PICK newline \in Token : newline = "newline"
    BY DEF Token
  <2>2. When("eol" \in node.opts, <<newline>>) \in Seq(Token)
    BY DEF When
  <2> QED BY <2>1, <2>2
<1>3. Passphrase(node) = <<word>> \o eol
  BY <1>1, <1>2 DEF Passphrase
<1>4. Passphrase(node) \in Seq(Token)
  BY <1>2, <1>3
<1>5. PICK tail \in Token : tail = "newline"
  BY DEF Token
<1> QED BY <1>4, <1>5

(* The same, of the types that also bring something up. *)
LEMMA RaisingTyped ==
  ASSUME NEW S, NEW node, DOMAIN node.parents = 1..Len(node.parents),
         Len(node.parents) \in Nat,
         \A op \in Still \cup Raising :
           /\ Checked(op) \in S /\ Unchecked(op) \in S
           /\ \A bytes \in Seq(Token) : Fed(op, bytes) \in S
  PROVE  /\ Raid1Lines(node) \in Seq(S) /\ LuksLines(node) \in Seq(S)
         /\ LvLines \in Seq(S) /\ FilesystemLines \in Seq(S)
         /\ SwapLines \in Seq(S)
<1>1. /\ Unchecked("zero_superblock") \in S /\ Checked("create") \in S
      /\ \A bytes \in Seq(Token) :
           /\ Fed("luksFormat", bytes) \in S /\ Fed("open", bytes) \in S
           /\ Fed("luksAddKey", bytes) \in S /\ Fed("luksKillSlot", bytes) \in S
      /\ Checked("lvcreate") \in S /\ Checked("lvchange") \in S
      /\ Checked("vgmknodes") \in S
      /\ Checked("mkfs") \in S /\ Checked("mkdir") \in S /\ Checked("mount") \in S
      /\ Checked("mkswap") \in S /\ Checked("swapon") \in S
  BY DEF Still, Raising
<1>2. Raid1Lines(node) \in Seq(S)
  <2>1. [k \in 1..Len(node.parents) |-> Unchecked("zero_superblock")] \in Seq(S)
    BY <1>1
  <2> QED BY <1>1, <2>1 DEF Raid1Lines
<1>3. LuksLines(node) \in Seq(S)
  <2> DEFINE key == Passphrase(node)
             both == key \o <<"newline">> \o key
             first == <<Fed("luksFormat", key), Fed("open", key)>>
             then == <<Fed("luksAddKey", both), Fed("luksKillSlot", key)>>
  <2>1. key \in Seq(Token) /\ both \in Seq(Token)
    BY PassphraseTyped
  <2> HIDE DEF key, both
  <2>2. first \in Seq(S) /\ then \in Seq(S)
    BY <1>1, <2>1
  <2> HIDE DEF first, then
  <2>3. When("slot" \in node.opts, then) \in Seq(S)
    BY <2>2 DEF When
  <2>4. LuksLines(node) = first \o When("slot" \in node.opts, then)
    BY DEF LuksLines, key, both, first, then
  <2> QED BY <2>2, <2>3, <2>4
<1> QED BY <1>1, <1>2, <1>3 DEF LvLines, FilesystemLines, SwapLines

(* A node runs operations of its kind: only one that can be live brings    *)
(* something up.                                                           *)
LEMMA LinesTyped ==
  ASSUME NEW p \in Plans, NEW n \in DOMAIN p
  PROVE  CommandLines(p, n) \in Seq(LineOf(OpsOf(p[n].kind)))
<1>1. PICK node : node = p[n]
  OBVIOUS
<1>2. PICK S : S = LineOf(OpsOf(node.kind))
  OBVIOUS
<1>3. node \in NodeRecord(DOMAIN p)
  BY <1>1, PlanShape
<1>4. /\ node.kind \in Kind
      /\ DOMAIN node.parents = 1..Len(node.parents) /\ Len(node.parents) \in Nat
  BY <1>3 DEF NodeRecord
<1>5. \A op \in OpsOf(node.kind) :
        /\ Checked(op) \in S /\ Unchecked(op) \in S
        /\ \A bytes \in Seq(Token) : Fed(op, bytes) \in S
  BY <1>2 DEF Checked, Unchecked, Fed, LineOf
<1>6. \A op \in Still : Checked(op) \in S /\ Unchecked(op) \in S
  BY <1>5 DEF OpsOf
<1>7. CASE node.kind \in Live
  <2>1. \A op \in Still \cup Raising :
          /\ Checked(op) \in S /\ Unchecked(op) \in S
          /\ \A bytes \in Seq(Token) : Fed(op, bytes) \in S
    BY <1>5, <1>7 DEF OpsOf
  <2>2. /\ Raid1Lines(node) \in Seq(S) /\ LuksLines(node) \in Seq(S)
        /\ LvLines \in Seq(S) /\ FilesystemLines \in Seq(S)
        /\ SwapLines \in Seq(S)
    BY <1>4, <2>1, RaisingTyped
  <2>3. CommandLines(p, n) \in Seq(S)
    BY <1>1, <1>7, <2>2, LinesByKind DEF Live
  <2> QED BY <1>1, <1>2, <2>3
<1>8. CASE node.kind \notin Live
  <2>1. /\ HardwareLines(node) \in Seq(S)
        /\ PartitionLines(node) \in Seq(S)
        /\ PvLines \in Seq(S) /\ VgLines \in Seq(S) /\ FenceLines \in Seq(S)
    BY <1>6, StillTyped
  <2>2. CommandLines(p, n) \in Seq(S)
    BY <1>1, <1>4, <1>8, <2>1, LinesByKind DEF Live, Kind, Fence
  <2> QED BY <1>1, <1>2, <2>2
<1> QED BY <1>7, <1>8

(* What RunCommand runs is one of these lines, with another check flag; a  *)
(* line that brings something up is of a node that can be live.            *)
LEMMA EffectiveOp ==
  ASSUME NEW p \in Plans, NEW n \in DOMAIN p,
         NEW k \in DOMAIN EffectiveLines(p, n)
  PROVE  EffectiveLines(p, n)[k].op \in Raising => n \in LiveNodes(p)
<1> DEFINE lines == CommandLines(p, n)
<1>1. lines \in Seq(LineOf(OpsOf(p[n].kind)))
  BY LinesTyped
<1>2. k \in DOMAIN lines
  BY DEF EffectiveLines, ApplyIgnore
<1>3. lines[k] \in LineOf(OpsOf(p[n].kind))
  BY <1>1, <1>2
<1>4. EffectiveLines(p, n)[k].op = lines[k].op
  BY <1>2, <1>3 DEF EffectiveLines, ApplyIgnore, LineOf
<1>5. lines[k].op \in OpsOf(p[n].kind)
  BY <1>3 DEF LineOf
<1> QED BY <1>4, <1>5 DEF OpsOf, Still, Raising, LiveNodes

(* A filesystem that does not ignore errors is verified by a checked       *)
(* `mountpoint`.                                                           *)
LEMMA MountpointLine ==
  ASSUME NEW p \in Plans, NEW n \in DOMAIN p,
         p[n].kind = "filesystem", ~p[n].ignore
  PROVE  EffectiveVerifyLines(p, n) = <<Checked("mountpoint")>>
<1>1. p[n].ignore \in BOOLEAN
  BY PlanShape DEF NodeRecord
<1>2. VerifyLines(p, n) = <<Checked("mountpoint")>>
  BY DEF VerifyLines, When
<1>3. ApplyIgnore(p[n], <<Checked("mountpoint")>>)
        = <<[Checked("mountpoint") EXCEPT !.check = @ /\ ~p[n].ignore]>>
  BY DEF ApplyIgnore
<1>4. [Checked("mountpoint") EXCEPT !.check = @ /\ ~p[n].ignore]
        = Checked("mountpoint")
  BY <1>1 DEF Checked
<1> QED BY <1>2, <1>3, <1>4 DEF EffectiveVerifyLines

(* base.py verify, filesystem.py verify_command_lines: the loop passes a   *)
(* filesystem that does not ignore errors only if `mountpoint` found a     *)
(* mount, as every way of failing raises.                                  *)
LEMMA VerifyShows ==
  ASSUME PassNode \/ VerifyNode, at' = at + 1, at \in Nat, phase' = phase, ~dry,
         plan \in Plans, at \in DOMAIN plan,
         plan[at].kind = "filesystem", ~plan[at].ignore
  PROVE  MountedAt(plan, kernel, at) # {}
<1>1. EffectiveVerifyLines(plan, at) = <<Checked("mountpoint")>>
  BY MountpointLine
<1>2. VerifyNode
  BY <1>1 DEF PassNode
<1>3. /\ Head(EffectiveVerifyLines(plan, at)).op = "mountpoint"
      /\ Head(EffectiveVerifyLines(plan, at)).check = TRUE
  BY <1>1 DEF Checked
<1>4. PICK outcome \in Outcome : VerifyNodeAs(outcome)
  BY <1>2 DEF VerifyNode
<1>5. /\ phase = "verify"
      /\ outcome \in Outcomes(Faults \ {"silent"},
                              Refused(plan, kernel, at, "mountpoint"))
      /\ IF Raises(outcome, TRUE) THEN Fail ELSE at' = at + 1
  BY <1>3, <1>4 DEF VerifyNodeAs
<1>6. ~Raises(outcome, TRUE)
  BY <1>5 DEF Fail
<1>7. ~Refused(plan, kernel, at, "mountpoint")
  BY <1>5, <1>6, ProvisionerAssumption DEF Outcomes, Raises, FaultKinds
<1> QED BY <1>7 DEF Refused

(* The bound on faults holds: only a fault in excess of what the system    *)
(* refuses is counted, and none is offered once the bound is reached.      *)
LEMMA FaultBound ==
  ASSUME faults \in 0..MaxFaults, NEW kinds, NEW refused,
         NEW outcome \in Outcomes(kinds, refused),
         CountFault(outcome, refused)
  PROVE  faults' \in 0..MaxFaults
BY ProvisionerAssumption DEF Outcomes, CountFault

(* Commands and cleanup actions lead from kernel states to kernel states.  *)
LEMMA KernelTyped ==
  ASSUME NEW p \in Plans, NEW k \in KernelStates(p)
  PROVE  /\ Blank(p) \in KernelStates(p)
         /\ \A S : Without(k, S) \in KernelStates(p)
         /\ \A n \in DOMAIN p : \A op :
              (op \in Raising => n \in LiveNodes(p)) =>
                Effect(p, k, n, op) \in KernelStates(p)
<1>1. k.made \subseteq DOMAIN p /\ k.up \subseteq LiveNodes(p)
  BY DEF KernelStates
<1>2. Blank(p) \in KernelStates(p)
  BY DEF Blank, KernelStates, OfKind
<1>3. \A S : Without(k, S) \in KernelStates(p)
  BY <1>1 DEF Without, KernelStates
<1>4. ASSUME NEW n \in DOMAIN p, NEW op,
             op \in Raising => n \in LiveNodes(p)
      PROVE  Effect(p, k, n, op) \in KernelStates(p)
  <2>1. MadeBy(p, k, n, op) \subseteq DOMAIN p
    BY <1>1 DEF MadeBy
  <2>2. UpBy(k, n, op) \subseteq LiveNodes(p)
    BY <1>1, <1>4 DEF UpBy, Raising
  <2> QED BY <2>1, <2>2 DEF Effect, KernelStates
<1> QED BY <1>2, <1>3, <1>4
-----------------------------------------------------------------------------
(* A run starts with an empty undo log and nothing verified. *)
LEMMA InitInv == Init => RunInv
<1> SUFFICES ASSUME Init PROVE RunInv
  OBVIOUS
<1>1. /\ plan \in Seq(NodeRecord(DOMAIN plan)) /\ Len(plan) \in Nat
      /\ DOMAIN plan = 1..Len(plan)
  BY PlanShape DEF Init
<1>2. Blank(plan) \in KernelStates(plan)
  BY DEF Init, Blank, KernelStates, OfKind
<1>3. TypeOK
  BY <1>1, <1>2, ProvisionerAssumption DEF Init, TypeOK, Phases
<1>4. UndoLog
  BY <1>1 DEF Init, UndoLog
<1> QED BY <1>3, <1>4 DEF Init, RunInv, Verified, SuccessMeansMounted

(* Fail hands the nodes recorded so far to cleanup. *)
LEMMA FailTyped ==
  ASSUME RunInv, Fail, phase \in {"execute", "verify"},
         UNCHANGED <<config, books>>
  PROVE  /\ UndoLog' /\ phase' \in Phases /\ exit' = "failed"
         /\ at' \in 0..(Len(plan) + 1) /\ step' \in Nat
         /\ phase' = "cleanup"
<1>1. Len(plan) \in Nat /\ succeeded \in Seq(DOMAIN plan) /\ Len(succeeded) \in Nat
  BY PlanShape DEF RunInv, TypeOK
<1> QED BY <1>1 DEF RunInv, UndoLog, Fail, Phases, books, config

(* executor.py run: every step keeps the undo log exact, and verification  *)
(* of a mount stands until the run ends.                                   *)
LEMMA StepInv == RunInv /\ [Next]_vars => RunInv'
<1> SUFFICES ASSUME RunInv, [Next]_vars PROVE RunInv'
  OBVIOUS
<1> USE DEF RunInv
<1>1. /\ plan \in Plans /\ Len(plan) \in Nat /\ DOMAIN plan = 1..Len(plan)
      /\ Len(succeeded) \in Nat /\ DOMAIN succeeded = 1..Len(succeeded)
      /\ succeeded \in Seq(DOMAIN plan)
      /\ kernel \in KernelStates(plan)
      /\ kernel.up \subseteq DOMAIN plan
  BY PlanShape DEF TypeOK, KernelStates, LiveNodes
<1>2. \A S : /\ Without(kernel, S) \in KernelStates(plan)
             /\ Without(kernel, S).up \subseteq DOMAIN plan
  BY <1>1, KernelTyped DEF KernelStates, LiveNodes
<1>3. CASE UNCHANGED vars
  BY <1>3 DEF vars, config, status, books, TypeOK, UndoLog, Verified,
              SuccessMeansMounted
<1>4. CASE Preflight
  <2>1. faults' \in 0..MaxFaults
    BY <1>4, FaultBound DEF Preflight, TypeOK
  <2>2. kernel' \in KernelStates(plan) /\ kernel'.up \subseteq DOMAIN plan
    BY <1>1, <1>2, <1>4 DEF Preflight
  <2>3. TypeOK'
    BY <1>4, <2>1, <2>2 DEF Preflight, TypeOK, config, books, Phases
  <2> QED BY <1>4, <2>3 DEF Preflight, UndoLog, Verified, SuccessMeansMounted,
                            config, books
<1>5. CASE Modprobe
  <2> PICK outcome \in Outcome : ModprobeAs(outcome)
    BY <1>5 DEF Modprobe
  <2>1. faults' \in 0..MaxFaults
    BY FaultBound DEF ModprobeAs, TypeOK
  <2>2. /\ UNCHANGED <<config, books, at, kernel, before, blame, run>>
        /\ \/ phase' = "exited" /\ exit' = "traceback" /\ step' = step
           \/ step' = step + 1 /\ phase' = phase /\ exit' = exit
    BY DEF ModprobeAs
  <2>3. TypeOK'
    BY <2>1, <2>2 DEF TypeOK, config, books, Phases
  <2> QED BY <2>2, <2>3 DEF ModprobeAs, UndoLog, Verified,
                            SuccessMeansMounted, config, books
<1>6. CASE StartNodes
  <2>1. at' \in 0..(Len(plan) + 1) /\ step' \in Nat /\ phase' \in Phases
    BY <1>1, <1>6 DEF StartNodes, Phases
  <2>2. TypeOK'
    BY <1>6, <2>1 DEF StartNodes, TypeOK, config, books
  <2> QED BY <1>6, <2>2 DEF StartNodes, UndoLog, Verified, SuccessMeansMounted,
                            config, books
<1>7. CASE EnterNode
  <2>1. CASE Unresolved(plan, at)
    <3>1. Fail /\ blame' = blame \cup {at} /\ at \in DOMAIN plan
      BY <1>1, <1>7, <2>1 DEF EnterNode, UndoLog, TypeOK
    <3>2. /\ UndoLog' /\ phase' \in Phases /\ exit' = "failed"
          /\ at' \in 0..(Len(plan) + 1) /\ step' \in Nat /\ phase' = "cleanup"
      BY <1>7, <3>1, FailTyped DEF EnterNode
    <3>3. TypeOK'
      BY <1>7, <3>1, <3>2 DEF EnterNode, TypeOK, config, books
    <3> QED BY <1>7, <3>2, <3>3 DEF EnterNode, Verified, SuccessMeansMounted
  <2>2. CASE ~Unresolved(plan, at)
    <3>1. TypeOK'
      BY <1>7, <2>2 DEF EnterNode, TypeOK, config, books
    <3> QED BY <1>7, <2>2, <3>1 DEF EnterNode, UndoLog, Verified,
                                    SuccessMeansMounted, config, books
  <2> QED BY <2>1, <2>2
<1>8. CASE RunCommand
  <2>0. PICK outcome \in Outcome : RunCommandAs(outcome)
    BY <1>8 DEF RunCommand
  <2>1. at \in DOMAIN plan
    BY <1>1, <2>0 DEF RunCommandAs, UndoLog, TypeOK
  <2>2. faults' \in 0..MaxFaults
    BY <2>0, FaultBound DEF RunCommandAs, TypeOK
  <2>3. kernel' \in KernelStates(plan)
    <3> DEFINE op == EffectiveLines(plan, at)[step].op
    <3>1. op \in Raising => at \in LiveNodes(plan)
      BY <1>1, <2>0, <2>1, EffectiveOp DEF RunCommandAs
    <3>2. Effect(plan, kernel, at, op) \in KernelStates(plan)
      BY <1>1, <2>1, <3>1, KernelTyped
    <3> QED BY <1>1, <2>0, <3>2 DEF RunCommandAs
  <2>4. UNCHANGED <<config, books, before, run>>
    BY <2>0 DEF RunCommandAs
  <2>5. CASE Fail /\ blame' = blame \cup {at}
    <3>1. /\ UndoLog' /\ phase' \in Phases /\ exit' = "failed"
          /\ at' \in 0..(Len(plan) + 1) /\ step' \in Nat /\ phase' = "cleanup"
      BY <2>0, <2>5, FailTyped DEF RunCommandAs
    <3>2. TypeOK'
      BY <2>1, <2>2, <2>3, <2>4, <2>5, <3>1 DEF TypeOK, config, books
    <3> QED BY <3>1, <3>2 DEF Verified, SuccessMeansMounted
  <2>6. CASE step' = step + 1 /\ UNCHANGED <<phase, at, exit, blame>>
    <3>1. TypeOK'
      BY <2>2, <2>3, <2>4, <2>6 DEF TypeOK, config, books
    <3> QED BY <2>0, <2>4, <2>6, <3>1 DEF RunCommandAs, UndoLog, Verified,
                                          SuccessMeansMounted, config, books
  <2> QED BY <2>0, <2>5, <2>6 DEF RunCommandAs
<1>9. CASE CompleteNode
  <2>1. at \in DOMAIN plan /\ at = Len(succeeded) + 1
    BY <1>1, <1>9 DEF CompleteNode, UndoLog, TypeOK
  <2>2. /\ succeeded' \in Seq(DOMAIN plan)
        /\ Len(succeeded') = at
        /\ DOMAIN succeeded' = 1..at
        /\ \A k \in 1..at : succeeded'[k] = k
    BY <1>1, <1>9, <2>1 DEF CompleteNode, UndoLog
  <2>3. registered' = {n \in 1..at : plan[n].kind \in HasCleanup}
    BY <1>1, <1>9, <2>1 DEF CompleteNode, RegisteredBy, UndoLog
  <2>4. TypeOK'
    BY <1>1, <1>9, <2>1, <2>2, <2>3 DEF CompleteNode, TypeOK, config
  <2>5. UndoLog'
    BY <1>1, <1>9, <2>1, <2>2, <2>3 DEF CompleteNode, UndoLog, config
  <2> QED BY <1>9, <2>4, <2>5 DEF CompleteNode, Verified, SuccessMeansMounted,
                                  config
<1>10. CASE StartVerify
  <2>1. TypeOK'
    BY <1>1, <1>10 DEF StartVerify, TypeOK, config, books, Phases
  <2>2. UndoLog'
    BY <1>1, <1>10 DEF StartVerify, UndoLog, config, books
  <2>3. Verified'
    BY <1>1, <1>10 DEF StartVerify, Verified, OfKind, config
  <2> QED BY <1>10, <2>1, <2>2, <2>3 DEF StartVerify, SuccessMeansMounted, Verified
<1>11. CASE PassNode \/ VerifyNode
  <2>0. PICK outcome \in Outcome : PassNode \/ VerifyNodeAs(outcome)
    BY <1>11 DEF VerifyNode, Outcome
  <2>1. phase = "verify" /\ at \in DOMAIN plan
    <3>1. phase = "verify" /\ at <= Len(plan)
      BY <2>0 DEF PassNode, VerifyNodeAs
    <3> QED BY <1>1, <3>1 DEF UndoLog, TypeOK
  <2>2. faults' \in 0..MaxFaults
    BY <2>0, FaultBound DEF PassNode, VerifyNodeAs, TypeOK
  <2>3. UNCHANGED <<config, books, kernel, before, blame, run>>
    BY <2>0 DEF PassNode, VerifyNodeAs
  <2>4. CASE Fail
    <3>1. /\ UndoLog' /\ phase' \in Phases /\ exit' = "failed"
          /\ at' \in 0..(Len(plan) + 1) /\ step' \in Nat /\ phase' = "cleanup"
      BY <2>1, <2>3, <2>4, FailTyped
    <3>2. TypeOK'
      BY <2>2, <2>3, <3>1 DEF TypeOK, config, books
    <3> QED BY <3>1, <3>2 DEF Verified, SuccessMeansMounted
  <2>5. CASE at' = at + 1 /\ UNCHANGED <<phase, step, exit>>
    <3>1. TypeOK'
      BY <1>1, <2>1, <2>2, <2>3, <2>5 DEF TypeOK, config, books
    <3>2. UndoLog'
      BY <1>1, <2>1, <2>3, <2>5 DEF UndoLog, config, books
    <3>3. ~dry /\ plan[at].kind = "filesystem" /\ ~plan[at].ignore =>
            MountedAt(plan, kernel, at) # {}
      BY <1>1, <1>11, <2>1, <2>5, VerifyShows
    <3>4. Verified'
      BY <1>1, <2>1, <2>3, <2>5, <3>3 DEF Verified, OfKind, config
    <3> QED BY <2>1, <2>5, <3>1, <3>2, <3>4
            DEF Verified, SuccessMeansMounted
  <2> QED BY <2>0, <2>4, <2>5 DEF PassNode, VerifyNodeAs
<1>12. CASE Succeed
  <2>1. TypeOK'
    BY <1>12 DEF Succeed, TypeOK, config, books, Phases
  <2>2. SuccessMeansMounted'
    BY <1>1, <1>12 DEF Succeed, SuccessMeansMounted, Verified, OfKind, config
  <2> QED BY <1>12, <2>1, <2>2 DEF Succeed, UndoLog, Verified, config, books
<1>13. CASE CleanupNode
  <2>1. NextToClean = at /\ at \in DOMAIN plan /\ at - 1 \in 0..(Len(plan) + 1)
    BY <1>1, <1>13 DEF CleanupNode, UndoLog, NextToClean, TypeOK
  <2>2. faults' \in 0..MaxFaults
    BY <1>13, FaultBound DEF CleanupNode, TypeOK
  <2>3. kernel' \in KernelStates(plan)
    BY <1>1, <1>2, <1>13 DEF CleanupNode
  <2>4. blame' \subseteq DOMAIN plan
    BY <1>13, <2>1 DEF CleanupNode, TypeOK
  <2>5. TypeOK'
    BY <1>13, <2>1, <2>2, <2>3, <2>4 DEF CleanupNode, TypeOK, config, books
  <2>6. UndoLog'
    BY <1>1, <1>13, <2>1 DEF CleanupNode, UndoLog, config, books
  <2> QED BY <1>13, <2>5, <2>6 DEF CleanupNode, Verified, SuccessMeansMounted
<1>14. CASE EndCleanup
  <2>1. TypeOK'
    BY <1>14 DEF EndCleanup, TypeOK, config, books, Phases
  <2> QED BY <1>14, <2>1 DEF EndCleanup, UndoLog, Verified, SuccessMeansMounted,
                             config, books
<1>15. CASE Interrupt
  <2>1. kernel' \in KernelStates(plan)
    BY <1>2, <1>15 DEF Interrupt
  <2>2. TypeOK'
    BY <1>15, <2>1 DEF Interrupt, TypeOK, config, books, Phases
  <2> QED BY <1>15, <2>2 DEF Interrupt, UndoLog, Verified, SuccessMeansMounted,
                             config, books
<1>16. CASE Rerun
  <2>1. TypeOK'
    BY <1>1, <1>16, ProvisionerAssumption DEF Rerun, TypeOK, Phases
  <2>2. UndoLog'
    BY <1>1, <1>16 DEF Rerun, UndoLog
  <2> QED BY <1>16, <2>1, <2>2 DEF Rerun, Verified, SuccessMeansMounted
<1> QED BY <1>3, <1>4, <1>5, <1>6, <1>7, <1>8, <1>9, <1>10, <1>11, <1>12, <1>13,
           <1>14, <1>15, <1>16 DEF Next, Process
-----------------------------------------------------------------------------
(* RunInv holds in every reachable state of every run. *)
THEOREM RunCorrect == Spec => []RunInv
BY InitInv, StepInv, PTL DEF Spec

(* The variables have their types: in particular the loops of run() and    *)
(* _cleanup() never index a node the plan does not have.                   *)
THEOREM RunTypeCorrect == Spec => []TypeOK
<1>1. RunInv => TypeOK
  BY DEF RunInv
<1> QED BY <1>1, RunCorrect, PTL

(* executor.py run and _cleanup: what would be undone is at any moment     *)
(* exactly the prefix of the plan that this run executed.                  *)
THEOREM UndoLogExact == Spec => []UndoLog
<1>1. RunInv => UndoLog
  BY DEF RunInv
<1> QED BY <1>1, RunCorrect, PTL

(* CHANGELOG.md:16: whatever commands do, a run that reports success has   *)
(* every filesystem that does not ignore errors mounted.                   *)
THEOREM SuccessIsVerified == Spec => []SuccessMeansMounted
<1>1. RunInv => SuccessMeansMounted
  BY DEF RunInv
<1> QED BY <1>1, RunCorrect, PTL

(* A step of a dry run, whichever it is. *)
LEMMA DryStep == Process /\ dry => UNCHANGED kernel
<1> SUFFICES ASSUME Process, dry PROVE UNCHANGED kernel
  OBVIOUS
<1>1. CASE Preflight BY <1>1 DEF Preflight, SkipPreflight
<1>2. CASE Modprobe BY <1>2 DEF Modprobe, ModprobeAs
<1>3. CASE StartNodes BY <1>3 DEF StartNodes
<1>4. CASE EnterNode BY <1>4 DEF EnterNode
<1>5. CASE RunCommand BY <1>5 DEF RunCommand, RunCommandAs, TakesEffect
<1>6. CASE CompleteNode BY <1>6 DEF CompleteNode
<1>7. CASE StartVerify BY <1>7 DEF StartVerify
<1>8. CASE PassNode \/ VerifyNode
  BY <1>8 DEF PassNode, VerifyNode, VerifyNodeAs
<1>9. CASE Succeed BY <1>9 DEF Succeed
<1>10. CASE CleanupNode BY <1>10 DEF CleanupNode, TakesEffect
<1>11. CASE EndCleanup BY <1>11 DEF EndCleanup
<1> QED BY <1>1, <1>2, <1>3, <1>4, <1>5, <1>6, <1>7, <1>8, <1>9, <1>10, <1>11
        DEF Process

(* No step of a run changes its plan or its options. *)
LEMMA ProcessConstant == Process => UNCHANGED <<plan, dry, skip, run>>
BY DEF Process, Preflight, Modprobe, ModprobeAs, StartNodes, EnterNode,
       RunCommand, RunCommandAs, CompleteNode, StartVerify, PassNode,
       VerifyNode, VerifyNodeAs, Succeed, CleanupNode, EndCleanup, config

(* README.md:201: no step of a dry run, pre-flight and cleanup included,   *)
(* changes the machine.                                                    *)
THEOREM DryRunSafe == Spec => DryRunTouchesNothing
<1>1. [Next]_vars => [dry /\ exit' # "killed" => UNCHANGED kernel]_vars
  <2> SUFFICES ASSUME Next, dry, exit' # "killed" PROVE UNCHANGED kernel
    BY DEF vars
  <2>1. CASE Process BY <2>1, DryStep
  <2>2. CASE Interrupt BY <2>2 DEF Interrupt
  <2>3. CASE Rerun BY <2>3 DEF Rerun
  <2> QED BY <2>1, <2>2, <2>3 DEF Next
<1> QED BY <1>1, PTL DEF Spec, DryRunTouchesNothing
=============================================================================
