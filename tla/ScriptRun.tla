----------------------------- MODULE ScriptRun -----------------------------
(***************************************************************************)
(* The shell script of storage/scriptgen.py beside the live run of the     *)
(* same plan. Both set out on machines that are alike, and the tools       *)
(* behave alike: a command of the live run and the script's line with the  *)
(* same number have the same outcome. After the live run has stopped, a    *)
(* script that has not goes on by itself.                                  *)
(***************************************************************************)
EXTENDS Provisioner

VARIABLES
  script,   \* the emitted lines
  pos,      \* the line the shell is at
  shell,    \* "none" (emit() raised), "running", "done", "stopped"
  machine   \* the machine the script runs on: see Kernel

scriptVars == <<script, pos, shell, machine>>
allVars == <<vars, scriptVars>>
-----------------------------------------------------------------------------
(* _render_command: `|| true` behind a command that is not checked. The    *)
(* node of a modprobe is 0.                                                *)
Line(n, cmd) ==
  [node |-> n, op |-> cmd.op, stdin |-> cmd.stdin, guarded |-> ~cmd.check]

LinesOf(n, cmds) == [k \in DOMAIN cmds |-> Line(n, cmds[k])]

(* MUTANT of ModuleLines: `if self.nodes` is missing. *)
ModuleLinesAlways ==
  [k \in 1..ModprobeCount(plan, ControlModules) |->
     Line(0, Checked("modprobe"))]

ModuleLines ==
  IF plan = <<>> THEN <<>>
  ELSE [k \in 1..ModprobeCount(plan, ControlModules) |->
          Line(0, Checked("modprobe"))]

(* MUTANTS of Emit: every node is verified at once, or none is; the nodes' *)
(* own commands are emitted, without ignore_errors.                        *)
EmitVerifyInline ==
  ModuleLines
  \o FlattenSeq([n \in DOMAIN plan |->
       LinesOf(n, EffectiveLines(plan, n) \o EffectiveVerifyLines(plan, n))])
EmitUnverified ==
  ModuleLines
  \o FlattenSeq([n \in DOMAIN plan |-> LinesOf(n, EffectiveLines(plan, n))])

EmitUnignored ==
  ModuleLines
  \o FlattenSeq([n \in DOMAIN plan |-> LinesOf(n, CommandLines(plan, n))])
  \o FlattenSeq([n \in DOMAIN plan |-> LinesOf(n, VerifyLines(plan, n))])

(* ScriptGenerator.emit: modules, nodes, then all verification. *)
Emit ==
  ModuleLines
  \o FlattenSeq([n \in DOMAIN plan |-> LinesOf(n, EffectiveLines(plan, n))])
  \o FlattenSeq([n \in DOMAIN plan |->
                   LinesOf(n, EffectiveVerifyLines(plan, n))])

(* What a command reads from its heredoc: the body ends in a newline. *)
HeredocOf(line) ==
  IF line.stdin = <<>> \/ Last(line.stdin) = "newline" THEN line.stdin
  ELSE Append(line.stdin, "newline")
-----------------------------------------------------------------------------
ScriptInit ==
  /\ Init
  /\ script = <<>> /\ pos = 1 /\ shell = "none" /\ machine = kernel

ShellAt(p, lines) == IF p > Len(lines) THEN "done" ELSE "running"

(* The script is emitted and started while main() works up to run(). It    *)
(* has no pre-flight step: the machine is as the live run finds it.        *)
Launch ==
  /\ Preflight
  /\ machine' = kernel' /\ pos' = 1
  /\ IF EmitRaises(plan)
     THEN script' = <<>> /\ shell' = "none"
     ELSE script' = Emit /\ shell' = ShellAt(1, Emit)

(* set -e: the shell exits after a line whose status is not zero. A tool   *)
(* that cannot be started has status 126 or 127.                           *)
Stops(line, outcome) ==
  outcome \in {"error", "raise", "late"} /\ ~line.guarded

(* The shell runs a line. Beside a dry run it only reads on.               *)
RunLine(outcome) ==
  LET line    == script[pos]
      refused == Refused(plan, machine, line.node, line.op)
  IN  /\ machine' = IF TakesEffect(outcome, refused)
                    THEN Effect(plan, machine, line.node, line.op)
                    ELSE machine
      /\ IF Stops(line, outcome)
         THEN shell' = "stopped" /\ UNCHANGED pos
         ELSE pos' = pos + 1 /\ shell' = ShellAt(pos + 1, script)
      /\ UNCHANGED script

(* One command of the live run, and the script's with the same outcome. *)
Paired ==
  \E outcome \in Outcome :
    /\ ModprobeAs(outcome) \/ RunCommandAs(outcome) \/ VerifyNodeAs(outcome)
    /\ IF shell = "running" THEN RunLine(outcome) ELSE UNCHANGED scriptVars

(* The steps of the live run that start no command, and its cleanup. *)
LiveOnly ==
  /\ \/ StartNodes \/ EnterNode \/ CompleteNode
     \/ StartVerify \/ PassNode \/ Succeed
     \/ CleanupNode \/ EndCleanup
  /\ UNCHANGED scriptVars

(* The script goes on where the live run gave up. *)
ScriptAlone ==
  /\ phase = "exited" /\ shell = "running"
  /\ LET line    == script[pos]
         refused == Refused(plan, machine, line.node, line.op)
         kinds   == IF line.op = "mountpoint" THEN Faults \ {"silent"} ELSE Faults
     IN  \E outcome \in Outcomes(kinds, refused) :
           CountFault(outcome, refused) /\ RunLine(outcome)
  /\ UNCHANGED <<config, status, books, kernel, before, blame, run>>

ScriptNext == Launch \/ Paired \/ LiveOnly \/ ScriptAlone

(* The live run and the script go on while they can. *)
ScriptSpec ==
  ScriptInit /\ [][ScriptNext]_allVars
    /\ WF_allVars(Launch \/ Paired \/ LiveOnly) /\ WF_allVars(ScriptAlone)
-----------------------------------------------------------------------------
ScriptTypeOK ==
  /\ shell \in {"none", "running", "done", "stopped"}
  /\ pos \in 1..(Len(script) + 1)
  /\ shell = "running" => pos <= Len(script)
  /\ \A k \in DOMAIN script : script[k].node \in 0..Len(plan)
  /\ plan = <<>> => script = <<>>
  /\ machine \in KernelStates(plan)

(* The command the live run is about to start, as a line. *)
LiveLines ==
  CASE phase = "modprobe" /\ plan # <<>>
         /\ step <= ModprobeCount(plan, ControlModules)
         -> {Line(0, Checked("modprobe"))}
    [] phase = "execute" /\ at <= Len(plan)
         -> {Line(at, EffectiveLines(plan, at)[k]) :
               k \in {step} \cap DOMAIN EffectiveLines(plan, at)}
    [] phase = "verify" /\ at <= Len(plan)
         -> {Line(at, cmd) : cmd \in Range(EffectiveVerifyLines(plan, at))}
    [] OTHER -> {}

(* README.md:220 "runs the same commands as the live executor in           *)
(* topological order", CHANGELOG.md:63 "equivalent to live execution":     *)
(* until the live run fails, the script is at the command that the live    *)
(* run (or the log of a dry run) is at, on a machine in the same state;    *)
(* when the live run has succeeded, so has the script.                     *)
InStep ==
  shell # "none" /\ exit \in {"none", "success"} =>
    /\ ~dry => machine = kernel
    /\ \A line \in LiveLines : shell = "running" /\ script[pos] = line
    /\ exit = "success" => shell = "done"

(* journal, "Per-node `ignore_errors`": "live executor and script          *)
(* generator stay in sync (live: `check=False`; script: `|| true`          *)
(* suffix)": a command that ends the script ends the live run, and the     *)
(* other way round, unless a tool of an unchecked command cannot be        *)
(* started, which only the live run gives up on.                           *)
AbortTogether ==
  [][shell = "running" /\ ~dry /\ exit = "none" =>
       /\ shell' = "stopped" => exit' \in {"failed", "traceback"}
       /\ exit' \in {"failed", "traceback"} =>
            shell' = "stopped" \/ script[pos].guarded]_allVars

(* README.md:48 "The generated script (`--script`) emits the same checks": *)
(* a script that ran to its end, also where the live run gave up, has      *)
(* something mounted at the mountpoint of every filesystem that does not   *)
(* ignore errors.                                                          *)
ScriptSuccess ==
  shell = "done" /\ phase = "exited" /\ ~dry =>
    \A n \in OfKind(plan, "filesystem") :
      ~plan[n].ignore => MountedAt(plan, machine, n) # {}

(* doc/project-specification.md:281 "same commands as Python executor",    *)
(* base.py:17 "generated shell scripts match what the Python path runs":   *)
(* a command reads the same from its standard input in both.               *)
SameInput ==
  phase = "execute" /\ at <= Len(plan) /\ shell = "running" =>
    \A k \in {step} \cap DOMAIN EffectiveLines(plan, at) :
      HeredocOf(script[pos]) = EffectiveLines(plan, at)[k].stdin
=============================================================================
