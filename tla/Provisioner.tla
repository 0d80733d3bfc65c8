---------------------------- MODULE Provisioner ----------------------------
(***************************************************************************)
(* A run of sprov on a prepared plan: main()'s pre-flight unmount, and     *)
(* Executor.run with its modprobe calls, the execution loop, verification  *)
(* and reverse cleanup, one action per command that is started. Commands   *)
(* may fail, runs may be interrupted, and the operator may run again on    *)
(* the same machine.                                                       *)
(***************************************************************************)
EXTENDS Kernel

CONSTANTS
  Plans,            \* the prepared plans to explore
  ControlModules,   \* `modules` of the control entry
  DryRuns,          \* values of --dry-run
  Skips,            \* values of --no-cleanup-first
  Faults,           \* ways a command may misbehave
  CleanupFaults,    \* ways a cleanup or pre-flight command may misbehave
  MaxFaults,        \* bound on misbehaving commands
  MaxRuns,          \* bound on runs
  MayInterrupt      \* whether a run may be killed

(* "error": exit status not zero, without effect. "raise": the command     *)
(* cannot be started (subprocess raises OSError). "late": not zero after   *)
(* the effect. "silent": zero without the effect. Modules are in lists, so *)
(* that there are finitely many.                                           *)
FaultKinds == {"error", "raise", "late", "silent"}
Outcome == FaultKinds \cup {"ok"}

ASSUME ProvisionerAssumption ==
  /\ \A p \in Plans : Prepared(p)
  /\ ControlModules \in SUBSET STRING
  /\ \A p \in Plans : ModprobeCount(p, ControlModules) \in Nat
  /\ DryRuns \subseteq BOOLEAN /\ Skips \subseteq BOOLEAN
  /\ Faults \subseteq FaultKinds /\ CleanupFaults \subseteq FaultKinds
  /\ MaxFaults \in Nat /\ MaxRuns \in Nat \ {0}
  /\ MayInterrupt \in BOOLEAN

VARIABLES
  plan,         \* ordered, the list prepare() returned
  dry,          \* ctx.dry_run
  skip,         \* args.no_cleanup_first
  phase,        \* where main() and Executor.run() are
  at,           \* current node, or number of nodes left to clean up
  step,         \* number of the next command; 0: node not entered
  succeeded,    \* Executor._succeeded
  registered,   \* nodes with a _cleanup_actions entry
  exit,         \* how the process ended, or will
  kernel,       \* the machine: see Kernel
  before,       \* what was live when the run set to work
  blame,        \* nodes that failed in execution or in cleanup
  faults, run   \* counters of the bounds

status == <<phase, at, step, exit>>
books == <<succeeded, registered>>
config == <<plan, dry, skip>>
vars == <<config, status, books, kernel, before, blame, faults, run>>
-----------------------------------------------------------------------------
(* What may come of a started command: a command the system refuses fails, *)
(* a dry run starts nothing, and every fault counts.                       *)
Outcomes(kinds, refused) ==
  IF dry THEN {"ok"}
  ELSE {IF refused THEN "error" ELSE "ok"}
         \cup (IF faults < MaxFaults THEN kinds ELSE {})

CountFault(outcome, refused) ==
  faults' = IF outcome = "ok" \/ (refused /\ outcome = "error")
            THEN faults ELSE faults + 1

TakesEffect(outcome, refused) ==
  ~dry /\ ~refused /\ outcome \in {"ok", "late"}

(* MUTANT of Raises: the exit status is ignored. *)
RaisesUnchecked(outcome, check) == outcome = "raise"

(* SystemCommand.run raises. *)
Raises(outcome, check) ==
  outcome = "raise" \/ (check /\ outcome \in {"error", "late"})

Init ==
  /\ plan \in Plans /\ dry \in DryRuns /\ skip \in Skips
  /\ phase = "preflight" /\ at = 1 /\ step = 0 /\ exit = "none"
  /\ succeeded = <<>> /\ registered = {}
  /\ kernel = Blank(plan) /\ before = {} /\ blame = {}
  /\ faults = 0 /\ run = 1

(* MUTANTS of SkipPreflight: the dry run is forgotten, the test inverted.  *)
SkipUnlessAsked == skip
SkipInverted == ~skip \/ dry

(* main(): not (not args.no_cleanup_first and not args.dry_run). *)
SkipPreflight == skip \/ dry

(* _preflight_cleanup: `umount -R control.path`, whatever comes of it. It  *)
(* has a SystemCommand of its own, which knows nothing of dry runs.        *)
Preflight ==
  /\ phase = "preflight"
  /\ phase' = "modprobe" /\ step' = 1
  /\ IF SkipPreflight
     THEN UNCHANGED <<kernel, faults>>
     ELSE \E outcome \in Outcomes(CleanupFaults, FALSE) :
            /\ CountFault(outcome, FALSE)
            /\ kernel' = IF outcome \in {"ok", "late"}
                         THEN Without(kernel, UnmountedTree(plan, kernel))
                         ELSE kernel
  /\ before' = kernel'.up
  /\ UNCHANGED <<config, books, at, exit, blame, run>>

(* run(): the modprobe calls come before the try block, so that a failing  *)
(* one leaves run() and main() as a SystemCommandError.                    *)
ModprobeAs(outcome) ==
  /\ phase = "modprobe"
  /\ plan # <<>> /\ step <= ModprobeCount(plan, ControlModules)
  /\ outcome \in Outcomes(Faults, FALSE)
  /\ CountFault(outcome, FALSE)
  /\ IF Raises(outcome, TRUE)
     THEN phase' = "exited" /\ exit' = "traceback" /\ UNCHANGED step
     ELSE step' = step + 1 /\ UNCHANGED <<phase, exit>>
  /\ UNCHANGED <<config, books, at, kernel, before, blame, run>>

Modprobe == \E outcome \in Outcome : ModprobeAs(outcome)

StartNodes ==
  /\ phase = "modprobe"
  /\ plan = <<>> \/ step > ModprobeCount(plan, ControlModules)
  /\ phase' = "execute" /\ at' = 1 /\ step' = 0
  /\ UNCHANGED <<config, books, exit, kernel, before, blame, faults, run>>
-----------------------------------------------------------------------------
(* MUTANT of Fail: _cleanup() is not called. *)
FailAndExit ==
  phase' = "exited" /\ exit' = "failed" /\ at' = 0 /\ step' = 0

(* MUTANT of Fail: the loop tries the node again. *)
FailAndRetry == UNCHANGED <<phase, exit, at>> /\ step' = 0

(* An exception in one of the loops: log it and call _cleanup(). *)
Fail ==
  /\ phase' = "cleanup" /\ exit' = "failed"
  /\ at' = Len(succeeded) /\ step' = 0

(* node.execute(): the commands are computed before the first one runs.    *)
EnterNode ==
  /\ phase = "execute" /\ at <= Len(plan) /\ step = 0
  /\ IF Unresolved(plan, at)
     THEN Fail /\ blame' = blame \cup {at}
     ELSE step' = 1 /\ UNCHANGED <<phase, at, exit, blame>>
  /\ UNCHANGED <<config, books, kernel, before, faults, run>>

RunCommandAs(outcome) ==
  /\ phase = "execute" /\ at <= Len(plan)
  /\ step \in DOMAIN EffectiveLines(plan, at)
  /\ LET line    == EffectiveLines(plan, at)[step]
         refused == Refused(plan, kernel, at, line.op)
     IN  /\ outcome \in Outcomes(Faults, refused)
         /\ CountFault(outcome, refused)
         /\ kernel' = IF TakesEffect(outcome, refused)
                      THEN Effect(plan, kernel, at, line.op) ELSE kernel
         /\ IF Raises(outcome, line.check)
            THEN Fail /\ blame' = blame \cup {at}
            ELSE step' = step + 1 /\ UNCHANGED <<phase, at, exit, blame>>
  /\ UNCHANGED <<config, books, before, run>>

RunCommand == \E outcome \in Outcome : RunCommandAs(outcome)

(* MUTANT of RegisteredBy: the closure sees the next node. *)
RegisteredLate(n) == IF plan[n].kind \in HasCleanup THEN {n + 1} ELSE {}

RegisteredBy(n) == IF plan[n].kind \in HasCleanup THEN {n} ELSE {}

(* _post_execute() registers the cleanup action, and only then does the    *)
(* loop record the node as succeeded. One step: neither can fail, and of a *)
(* process killed in between neither list is left.                         *)
CompleteNode ==
  /\ phase = "execute" /\ at <= Len(plan)
  /\ step = Len(EffectiveLines(plan, at)) + 1
  /\ registered' = registered \cup RegisteredBy(at)
  /\ succeeded' = Append(succeeded, at)
  /\ at' = at + 1 /\ step' = 0
  /\ UNCHANGED <<config, phase, exit, kernel, before, blame, faults, run>>

StartVerify ==
  /\ phase = "execute" /\ at = Len(plan) + 1
  /\ phase' = "verify" /\ at' = 1 /\ step' = 1
  /\ UNCHANGED <<config, books, exit, kernel, before, blame, faults, run>>

(* node.verify(), for a node with nothing to verify and for one with the   *)
(* one command there is. The tool reports no mount that is not there.      *)
PassNode ==
  /\ phase = "verify" /\ at <= Len(plan)
  /\ EffectiveVerifyLines(plan, at) = <<>>
  /\ at' = at + 1
  /\ UNCHANGED <<config, books, phase, step, exit, kernel, before, blame,
                 faults, run>>

VerifyNodeAs(outcome) ==
  /\ phase = "verify" /\ at <= Len(plan)
  /\ EffectiveVerifyLines(plan, at) # <<>>
  /\ LET line    == Head(EffectiveVerifyLines(plan, at))
         refused == Refused(plan, kernel, at, line.op)
     IN  /\ outcome \in Outcomes(Faults \ {"silent"}, refused)
         /\ CountFault(outcome, refused)
         /\ IF Raises(outcome, line.check)
            THEN Fail
            ELSE at' = at + 1 /\ UNCHANGED <<phase, step, exit>>
  /\ UNCHANGED <<config, books, kernel, before, blame, run>>

VerifyNode == \E outcome \in Outcome : VerifyNodeAs(outcome)

Succeed ==
  /\ phase = "verify" /\ at = Len(plan) + 1
  /\ phase' = "exited" /\ exit' = "success"
  /\ UNCHANGED <<config, books, at, step, kernel, before, blame, faults, run>>
-----------------------------------------------------------------------------
(* MUTANT of NextToClean: cleanup in the order of execution. *)
FirstToClean == succeeded[Len(succeeded) - at + 1]

(* reversed(self._succeeded), with `at` nodes to go. *)
NextToClean == succeeded[at]

(* _cleanup(): one succeeded node, in reverse. What its action raises is   *)
(* logged, and the loop goes on.                                           *)
CleanupNode ==
  /\ phase = "cleanup" /\ at > 0
  /\ at' = at - 1
  /\ LET n == NextToClean IN
       IF n \notin registered
       THEN UNCHANGED <<kernel, blame, faults>>
       ELSE \E outcome \in Outcomes(CleanupFaults, FALSE) :
              /\ CountFault(outcome, FALSE)
              /\ IF TakesEffect(outcome, FALSE)
                 THEN /\ kernel' = Without(kernel, Released(plan, kernel, n))
                      /\ UNCHANGED blame
                 ELSE /\ blame' = IF dry THEN blame ELSE blame \cup {n}
                      /\ UNCHANGED kernel
  /\ UNCHANGED <<config, phase, step, exit, books, before, run>>

(* MUTANT of EndCleanup: it waits for everything to be released. *)
EndCleanupWhenClean ==
  /\ phase = "cleanup" /\ at = 0 /\ kernel.up = {}
  /\ phase' = "exited"
  /\ UNCHANGED <<config, at, step, exit, books, kernel, before, blame, faults, run>>

EndCleanup ==
  /\ phase = "cleanup" /\ at = 0
  /\ phase' = "exited"
  /\ UNCHANGED <<config, at, step, exit, books, kernel, before, blame, faults, run>>

(* KeyboardInterrupt (which `except Exception` does not catch), SIGKILL,   *)
(* or a power failure, after which nothing is live.                        *)
Interrupt ==
  /\ MayInterrupt /\ phase # "exited"
  /\ phase' = "exited" /\ exit' = "killed"
  /\ \E lost \in {{}, kernel.up} : kernel' = Without(kernel, lost)
  /\ UNCHANGED <<config, books, at, step, before, blame, faults, run>>

(* The operator runs sprov again on the same spec, in a new process and    *)
(* with options chosen anew.                                               *)
Rerun ==
  /\ phase = "exited" /\ exit # "success" /\ run < MaxRuns
  /\ run' = run + 1 /\ blame' = {}
  /\ phase' = "preflight" /\ at' = 1 /\ step' = 0 /\ exit' = "none"
  /\ succeeded' = <<>> /\ registered' = {}
  /\ dry' \in DryRuns /\ skip' \in Skips
  /\ UNCHANGED <<plan, kernel, before, faults>>

Process ==
  \/ Preflight \/ Modprobe \/ StartNodes
  \/ EnterNode \/ RunCommand \/ CompleteNode
  \/ StartVerify \/ PassNode \/ VerifyNode \/ Succeed
  \/ CleanupNode \/ EndCleanup

Next == Process \/ Interrupt \/ Rerun

(* The process is sequential and its commands return. *)
Spec == Init /\ [][Next]_vars /\ WF_vars(Process)
-----------------------------------------------------------------------------
Phases == {"preflight", "modprobe", "execute", "verify", "cleanup", "exited"}

TypeOK ==
  /\ plan \in Plans /\ dry \in BOOLEAN /\ skip \in BOOLEAN
  /\ phase \in Phases /\ at \in 0..(Len(plan) + 1) /\ step \in Nat
  /\ exit \in {"none", "success", "failed", "traceback", "killed"}
  /\ succeeded \in Seq(DOMAIN plan) /\ registered \subseteq DOMAIN plan
  /\ kernel \in KernelStates(plan) /\ before \subseteq DOMAIN plan
  /\ blame \subseteq DOMAIN plan
  /\ faults \in 0..MaxFaults /\ run \in 1..MaxRuns

(* executor.py run and _cleanup: what would be undone, at any moment, is    *)
(* exactly the nodes executed so far in this run, in the order of the plan, *)
(* with a cleanup action for each that needs one; cleanup never runs past   *)
(* that list, even when verification fails after every node succeeded.      *)
UndoLog ==
  /\ Len(succeeded) <= Len(plan)
  /\ \A k \in DOMAIN succeeded : succeeded[k] = k
  /\ registered = {n \in DOMAIN succeeded : plan[n].kind \in HasCleanup}
  /\ phase \in {"preflight", "modprobe"} => succeeded = <<>>
  /\ phase = "execute" => Len(succeeded) = at - 1
  /\ phase = "verify" => Len(succeeded) = Len(plan) /\ at > 0
  /\ phase = "cleanup" => at <= Len(succeeded)

(* What was live before the run, and what a node that failed, or whose      *)
(* cleanup failed, was to hold.                                            *)
Blamed == before \cup UNION {{n} \cup CleanupTargets(plan, n) : n \in blame}

(* README.md:42 "reverse cleanup", executor.py _cleanup: after a failed run *)
(* nothing the run brought up is left, but what the failing node itself    *)
(* held, what a failed cleanup action did not release, and what these, or  *)
(* what was live before, rest on. One failing cleanup action does not keep *)
(* the others from running.                                                *)
LeakConfined ==
  phase = "exited" /\ exit = "failed" => kernel.up \subseteq Kept(plan, Blamed)

(* README.md:42 "re-running is safe without manual intervention": no       *)
(* command of a run, the first or a later one, is refused because of the   *)
(* state an earlier command or an earlier run left behind.                 *)
Unobstructed ==
  /\ phase = "execute" /\ at <= Len(plan) =>
       \A k \in {step} \cap DOMAIN EffectiveLines(plan, at) :
         ~Refused(plan, kernel, at, EffectiveLines(plan, at)[k].op)
  /\ phase = "verify" /\ at <= Len(plan) =>
       \A k \in DOMAIN EffectiveVerifyLines(plan, at) :
         ~Refused(plan, kernel, at, EffectiveVerifyLines(plan, at)[k].op)

(* The same of every run that finds nothing live, whatever killed runs     *)
(* left on the disks: what they wrote obstructs no later run.              *)
CleanStartRuns == before = {} /\ ~dry => Unobstructed

(* CHANGELOG.md:60 "Pre-flight cleanup ... to make a failed run            *)
(* re-runnable": on a plan whose live nodes are all filesystems inside one *)
(* root filesystem, the unmount leaves nothing that could obstruct the     *)
(* run, whenever earlier runs were killed.                                 *)
InOneTree ==
  /\ LiveNodes(plan) = OfKind(plan, "filesystem")
  /\ \E root \in LiveNodes(plan) :
       /\ plan[root].path = <<>>
       /\ \A n \in LiveNodes(plan) \ {root} : plan[n].path # <<>>

PreflightClears ==
  [][phase = "preflight" /\ phase' = "modprobe" /\ ~dry /\ ~skip
       /\ faults' = faults /\ InOneTree => before' = {}]_vars

(* CHANGELOG.md:16 "a silently-missing mount can no longer masquerade as   *)
(* success": a run that ends well has something mounted at the mountpoint  *)
(* of every filesystem that does not ignore errors.                        *)
SuccessMeansMounted ==
  exit = "success" /\ ~dry =>
    \A n \in OfKind(plan, "filesystem") :
      ~plan[n].ignore => MountedAt(plan, kernel, n) # {}

(* executor.py _cleanup undoes this run's work only: it never releases     *)
(* what was live before the run (a power failure does).                    *)
CleanupOwnOnly ==
  [][phase = "cleanup" /\ exit' # "killed" =>
       before \cap kernel.up \subseteq kernel'.up]_vars

(* README.md:201 "Log every command without executing it": a dry run       *)
(* leaves alone what earlier runs brought up, pre-flight cleanup included. *)
DryRunTouchesNothing ==
  [][dry /\ exit' # "killed" => UNCHANGED kernel]_vars

(* README.md:208 "Exit Codes": a failing command ends the run with exit    *)
(* code 2, cleanup attempted; nothing leaves main() as an exception.       *)
FailureReported == exit # "traceback"

(* Every run comes to an end, cleanup included, whatever fails. *)
RunsEnd == <>[](phase = "exited")
-----------------------------------------------------------------------------
(* The live nodes of the plan as a stack of resources, for plans and       *)
(* faults under which every failure is undone.                             *)
Stack == INSTANCE DeviceStack WITH
  needs    <- [r \in LiveNodes(plan) |-> Devices(plan)[r] \cap LiveNodes(plan)],
  inside   <- [r \in LiveNodes(plan) |-> Beneath(plan, r) \cap LiveNodes(plan)],
  required <- {r \in LiveNodes(plan) : ~plan[r].ignore},
  held     <- kernel.up,
  mode     <- CASE phase \notin {"cleanup", "exited"} -> "building"
                [] phase = "cleanup" -> "undoing"
                [] phase = "exited" /\ exit = "success" -> "complete"
                [] phase = "exited" /\ exit # "success" -> "rolledback"

(* Executor.run implements DeviceStack: all the resources of the plan, or  *)
(* none, brought up from the bottom and taken down from the top.           *)
AllOrNothing == Stack!StackSafety

(* Neither failures nor further runs keep it from getting there. *)
Settles == Stack!StackSettles
=============================================================================
