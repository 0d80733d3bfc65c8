-------------------------------- MODULE Cli --------------------------------
(***************************************************************************)
(* main() of storage/main.py from its arguments to the exit status of the  *)
(* process: load_spec (SpecLoader), Executor.prepare (Planner, as Prep),   *)
(* then --script, or the pre-flight step and Executor.run (Provisioner),   *)
(* which prepares once more. The operator may call it again, with other    *)
(* options and with the document edited.                                   *)
(***************************************************************************)
EXTENDS Provisioner, SpecLoader

CONSTANTS
  Documents,   \* what the spec file may hold
  NodeCount    \* nodes in a document that loads

Loads(d) ==
  d.file = "text" /\ LoadError(d) = "none" /\ ~DuplicateIds(d)

(* Documents that load have one number of nodes and, edited or not, speak  *)
(* of the same storage, so that the machine means the same to all plans.   *)
ASSUME CliAssumption ==
  /\ Documents \subseteq DocumentRecord /\ NodeCount \in Nat
  /\ \A d \in Documents : Loads(d) => Len(Others(d)) = NodeCount
  /\ \A p, q \in Plans :
       /\ DOMAIN p = DOMAIN q /\ Blank(p) = Blank(q)
       /\ \A n \in DOMAIN p : /\ p[n].kind = q[n].kind
                             /\ p[n].parents = q[n].parents
                             /\ p[n].path = q[n].path

VARIABLES
  doc,       \* the spec file
  called,    \* the arguments: "wrong", "version", "script" or "run"
  main,      \* where main() is
  code,      \* the exit status, Running or Killed
  start,     \* the machine when the process started
  nodes,     \* what load_spec returned
  listed, linked, index,                          \* and what they keep
  sorting, indeg, heap, result, ordered, stage    \* where prepare() is

prepVars ==
  <<nodes, listed, linked, index, sorting, indeg, heap, result, ordered, stage>>
cliVars == <<vars, doc, called, main, code, start, prepVars>>

Prep == INSTANCE Planner WITH
  Unknown     <- 0,
  ParentLists <- {[n \in 1..NodeCount |-> NodesOf(d, 0)[n].parents] :
                    d \in {e \in Documents : Loads(e)}},
  Storages    <- {NodesOf(d, 0) : d \in {e \in Documents : Loads(e)}},
  parents     <- listed,
  phase       <- sorting,
  storage     <- nodes

(* At place k of order r node n can stand: its parents have places before, *)
(* and it has none yet. The sort takes the first node that can, each time. *)
ReadyAt(s, r, k, n) ==
  /\ \A i \in 1..(k - 1) : r[i] # n
  /\ \A l \in DOMAIN s[n].parents :
       \E i \in 1..(k - 1) : r[i] = s[n].parents[l]

IsOrder(s, r) ==
  \A k \in 1..NodeCount :
    /\ ReadyAt(s, r, k, r[k])
    /\ \A n \in 1..NodeCount : ReadyAt(s, r, k, n) => r[k] <= n

(* The plans prepare() may hand out for the nodes s. *)
PlansOf(s) ==
  {Prep!PlanOf(s, Prep!Reordered(s, r)) :
     r \in {q \in [1..NodeCount -> 1..NodeCount] : IsOrder(s, q)}}

(* Plans has what prepare() makes of the documents. Their mountpoints stay *)
(* below control.path and do not begin with two slashes.                   *)
ASSUME PlansAssumption ==
  /\ \A d \in Documents : \A k \in DOMAIN d.entries :
       /\ Prep!StaysInside(d.entries[k].path)
       /\ ~Prep!DoubleSlash(d.entries[k].path)
  /\ \A d \in Documents : Loads(d) =>
       \A p \in PlansOf(NodesOf(d, 0)) : Prepared(p) => p \in Plans
-----------------------------------------------------------------------------
Running == -1
Killed == -2

EXIT_SUCCESS == 0
EXIT_VALIDATION == 1
EXIT_EXECUTION == 2
EXIT_USAGE == 64

Calls == {"wrong", "version", "script", "run"}

CliInit ==
  /\ doc \in Documents /\ called \in Calls
  /\ main = "args" /\ code = Running
  /\ kernel \in {Blank(p) : p \in Plans} /\ start = kernel
  /\ nodes = <<>> /\ listed = <<>> /\ linked = <<>> /\ index = <<>>
  /\ sorting = "resolve" /\ indeg = <<>> /\ heap = {} /\ result = <<>>
  /\ ordered = <<>> /\ stage = "sort"
  /\ plan = <<>> /\ dry \in DryRuns /\ skip \in Skips
  /\ phase = "preflight" /\ at = 1 /\ step = 0 /\ exit = "none"
  /\ succeeded = <<>> /\ registered = {} /\ before = {} /\ blame = {}
  /\ faults = 0 /\ run = 1

(* The process ends before run() or without it. *)
End(exitStatus) == main' = "ended" /\ code' = exitStatus

(* parser.parse_args: SystemExit(2), as argparse has it, or the version. *)
ParseArgs ==
  /\ main = "args"
  /\ \/ called = "wrong" /\ End(2)
     \/ called = "version" /\ End(EXIT_SUCCESS)
     \/ called \in {"script", "run"} /\ main' = "load" /\ UNCHANGED code
  /\ UNCHANGED <<vars, doc, called, start, prepVars>>

(* The constructors: nodes that are not linked and not numbered. *)
Construct(storage) ==
  /\ nodes' = storage
  /\ listed' = [n \in 1..NodeCount |-> storage[n].parents]
  /\ linked' = [n \in 1..NodeCount |-> <<>>]
  /\ index' = [n \in 1..NodeCount |-> 0]

(* A call of prepare(). Its locals are new; what the nodes keep is as the  *)
(* constructors, or the call before, have left it.                         *)
CallPrepare ==
  /\ sorting' = "resolve" /\ stage' = "sort"
  /\ indeg' = [n \in 1..NodeCount |-> 0] /\ heap' = {} /\ result' = <<>>
  /\ ordered' = <<>>

(* An OSError is a usage error. Everything else is exit status 1: main()   *)
(* returns it for a NodeValidationError, Python exits with it after the    *)
(* traceback of a UnicodeDecodeError, YAMLError, KeyError or ValueError.   *)
LoadStatus(d) == IF d.file = "missing" THEN EXIT_USAGE ELSE EXIT_VALIDATION

(* read_text, load_spec and Executor(nodes). *)
Load ==
  /\ main = "load"
  /\ IF Loads(doc)
     THEN /\ Construct(NodesOf(doc, 0)) /\ CallPrepare
          /\ main' = "prepare" /\ UNCHANGED code
     ELSE End(LoadStatus(doc)) /\ UNCHANGED prepVars
  /\ UNCHANGED <<vars, doc, called, start>>

(* One step of prepare(). What numbering makes of the sizes is a trait of  *)
(* the document; it comes up when there is a partition to number.          *)
Unplaceable == doc.layout # "fits" /\ Prep!Numbered # {}

PrepareStep ==
  /\ main \in {"prepare", "again"}
  /\ \/ ~Unplaceable /\ Prep!ResolveAndNumber
     \/ Unplaceable /\ Prep!RejectLayout
     \/ Prep!RejectParents \/ Prep!Sort \/ Prep!Reorder \/ Prep!Validate
  /\ UNCHANGED <<vars, doc, called, main, code, start>>

(* prepare() raised: a NodeValidationError that main() catches, or another *)
(* exception (an unreadable size, or any from the second call): status 1.  *)
PrepareFailed ==
  /\ main \in {"prepare", "again"}
  /\ sorting \in {"cycle", "unknown_parent"} \/ stage = "invalid"
  /\ End(EXIT_VALIDATION)
  /\ UNCHANGED <<vars, doc, called, start, prepVars>>

(* MUTANT of AfterPrepare: --script is not looked at. *)
CleanFirst == "preflight"

AfterPrepare == IF called = "script" THEN "emit" ELSE "preflight"

TakePlan ==
  /\ main = "prepare" /\ stage = "ready"
  /\ plan' = Prep!PlanOf(Prep!LinkedNodes, ordered) /\ main' = AfterPrepare
  /\ UNCHANGED <<dry, skip, status, books, kernel, before, blame, faults, run,
                 doc, called, code, start, prepVars>>

(* --script: a secret that holds the heredoc marker, or a node without a   *)
(* device path, raises where nothing catches it.                           *)
EmitScript ==
  /\ main = "emit"
  /\ End(IF EmitRaises(plan) THEN 1 ELSE EXIT_SUCCESS)
  /\ UNCHANGED <<vars, doc, called, start, prepVars>>

(* The pre-flight step; executor.run() then calls prepare() again, on the  *)
(* nodes as the first call has left them.                                  *)
PreflightStep ==
  /\ main = "preflight" /\ Preflight
  /\ main' = "again" /\ CallPrepare
  /\ UNCHANGED <<doc, called, code, start, nodes, listed, linked, index>>

TakePlanAgain ==
  /\ main = "again" /\ stage = "ready"
  /\ plan' = Prep!PlanOf(Prep!LinkedNodes, ordered) /\ main' = "run"
  /\ UNCHANGED <<dry, skip, status, books, kernel, before, blame, faults, run,
                 doc, called, code, start, prepVars>>

(* MUTANTS of StatusOf: the handler of NodeExecutionError does not return, *)
(* or returns what the one above it does.                                  *)
StatusOneForAll(end) == IF end = "success" THEN EXIT_SUCCESS ELSE EXIT_VALIDATION
StatusFallsThrough(end) == IF end = "traceback" THEN 1 ELSE EXIT_SUCCESS

StatusOf(end) ==
  CASE end = "success" -> EXIT_SUCCESS
    [] end = "traceback" -> 1
    [] end = "failed" -> EXIT_EXECUTION

(* Executor.run, command by command, and what main() makes of its end. *)
RunStep ==
  /\ main = "run" /\ Process
  /\ IF phase' = "exited" THEN End(StatusOf(exit')) ELSE UNCHANGED <<main, code>>
  /\ UNCHANGED <<doc, called, start, prepVars>>

Kill ==
  /\ main # "ended" /\ Interrupt
  /\ End(Killed)
  /\ UNCHANGED <<doc, called, start, prepVars>>

(* The operator calls sprov again, perhaps after editing the document. *)
Again ==
  /\ main = "ended" /\ run < MaxRuns
  /\ run' = run + 1
  /\ doc' \in Documents /\ called' \in Calls
  /\ dry' \in DryRuns /\ skip' \in Skips
  /\ main' = "args" /\ code' = Running /\ start' = kernel
  /\ nodes' = <<>> /\ listed' = <<>> /\ linked' = <<>> /\ index' = <<>>
  /\ sorting' = "resolve" /\ indeg' = <<>> /\ heap' = {} /\ result' = <<>>
  /\ ordered' = <<>> /\ stage' = "sort"
  /\ plan' = <<>> /\ phase' = "preflight" /\ at' = 1 /\ step' = 0
  /\ exit' = "none" /\ succeeded' = <<>> /\ registered' = {}
  /\ before' = {} /\ blame' = {}
  /\ UNCHANGED <<kernel, faults>>

MainNext ==
  \/ ParseArgs \/ Load \/ PrepareStep \/ PrepareFailed \/ TakePlan
  \/ EmitScript \/ PreflightStep \/ TakePlanAgain \/ RunStep

CliNext == MainNext \/ Kill \/ Again

(* The process is sequential, and what it calls returns. *)
CliSpec == CliInit /\ [][CliNext]_cliVars /\ WF_cliVars(MainNext)
-----------------------------------------------------------------------------
CliTypeOK ==
  /\ called \in Calls
  /\ main \in {"args", "load", "prepare", "emit", "preflight", "again", "run",
              "ended"}
  /\ code \in {Running, Killed, 0, 1, 2, 64}
  /\ main = "ended" <=> code # Running
  /\ plan \in Plans \cup {<<>>}
  /\ nodes # <<>> => Prep!PlannerTypeOK
  /\ \A p \in Plans : kernel \in KernelStates(p) /\ start \in KernelStates(p)
  /\ faults \in 0..MaxFaults /\ run \in 1..MaxRuns

(* README.md:212 "0 Success": when sprov, called to provision, exits with  *)
(* status 0, every filesystem the document asks for, but those that ignore *)
(* errors, is mounted where the document says, from the loader to the last *)
(* check.                                                                  *)
StatusZero ==
  code = EXIT_SUCCESS /\ called = "run" /\ ~dry =>
    \A k \in DOMAIN doc.entries :
      LET entry == doc.entries[k] IN
      entry.type = "filesystem" /\ ~entry.ignore =>
        \E n \in kernel.up : /\ plan[n].kind = "filesystem"
                             /\ plan[n].path = Prep!Normalized(entry.path)

(* README.md:213 "1 Spec validation error", README.md:215 "64 CLI usage    *)
(* error": with these statuses, which tracebacks share, no disk has been   *)
(* written and nothing new is live; at most the pre-flight step has        *)
(* unmounted something.                                                    *)
StatusOneHarmless ==
  code \in {EXIT_VALIDATION, EXIT_USAGE} =>
    kernel.made = start.made /\ kernel.up \subseteq start.up

(* main.py: the machine is touched only by a call that is neither --script *)
(* nor a dry run, and only once the whole document has been found valid.   *)
ValidFirst ==
  [][kernel' # kernel /\ code' # Killed =>
       called = "run" /\ ~dry /\ plan \in Plans]_cliVars

(* executor.py run: prepare() is called once more, on nodes that the first *)
(* call has linked and numbered. It cannot fail any more, links no device  *)
(* to another and numbers no partition anew, and what is executed is the   *)
(* plan main() has been given.                                             *)
SamePlan ==
  [][main = "again" /\ code' # Killed =>
       /\ linked' = linked /\ index' = index
       /\ main' # "again" => main' = "run" /\ plan' = plan]_cliVars

(* Whatever the document and the arguments, the process ends. *)
MainEnds == <>[](main = "ended")
=============================================================================
