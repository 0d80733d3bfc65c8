# sprov in TLA+

`sprov` reads a YAML spec of storage nodes (disks, partitions, RAID arrays, LUKS
containers, LVM, filesystems, swap, commands) and builds them: it orders the
nodes along their `parents`, runs each node's commands, verifies the mounts, and
on failure undoes what it built, in reverse. This directory holds TLA+
modules of that program, TLC configurations that check them on small instances,
and proofs that TLAPS checks for every instance. File and line references are to
the repository.

    tlc -config MCScriptRun_faults.cfg MCScriptRun        # one run
    tlapm ProvisionerProofs.tla                           # one module of proofs

## 1. The system

### Components

| component | code | state it keeps | operations |
|---|---|---|---|
| Spec loader | `storage/spec.py` | none | `load_spec`: YAML to a `Context` and nodes; control entry, `vars` |
| Executor: ordering | `storage/executor.py` | `nodes`, `_by_id`; `indeg`, `heap`, `result` while sorting | `_resolve_parents`, `_topo_sort` |
| Executor: prepare | `storage/executor.py` | partitions' `_index`, nodes' `_resolved_parents` | `prepare`, `_reorder_mounts`, `validate` of each node |
| Executor: offsets | `storage/executor.py`, `partition.py` | `cursor_mib`, `_begin_expr`, `_end_expr` | `_assign_partition_indices` |
| Executor: run | `storage/executor.py`, `base.py` | `_succeeded`, nodes' `_cleanup_actions` | `run`, `_cleanup`, `Node.execute`, `Node.verify` |
| Storage nodes | `storage/hardware.py` ... `swap.py`, `command.py` | fields of the spec | `validate`, `device_path`, `command_lines`, `verify_command_lines`, `_post_execute` |
| System commands | `storage/system.py` | `dry_run` | `SystemCommand.run`, `parse_size`, `expand_vars` |
| Command line | `storage/main.py` | none | `main`, `_preflight_cleanup`, exit codes |
| Script generator | `storage/scriptgen.py` | none | `emit`: the plan as a shell script |
| The machine | outside the repository | tables, signatures, arrays, mappings, volumes, mounts | what parted, mdadm, cryptsetup, LVM, mkfs, mount do |

### How they interact

`main()` loads the spec, calls `Executor.prepare()` and prints its validation
errors (exit code 1). With `--script` it hands the plan to the script generator
and ends. Otherwise it unmounts the control path of an earlier run (unless
`--no-cleanup-first` or `--dry-run` is given) and calls `Executor.run()`, which
prepares again, loads kernel modules, calls `execute()` on every node in order
and then `verify()` on every node. A node's commands all go through
`SystemCommand.run`. A node that has executed all its commands registers a
closure in `_cleanup_actions`, and only then is appended to `_succeeded`. Any
exception in either loop leads to `_cleanup()`, which walks `_succeeded`
backwards. All components share the machine; nothing else survives the
process.

There is one thread and no message passing. What makes the program hard is
elsewhere:

* **Failure between two steps.** Every command may fail, cannot be started
  (`OSError`, which `check=False` does not swallow), fail after its effect, or
  claim success without it. A node has up to several commands, and cleanup is
  registered after the last one.
* **Cleanup that fails**, or that finds its target busy because something above
  was not released, or that meets a node which `ignore_errors` let pass although
  it never came up.
* **Interruption.** `KeyboardInterrupt` is not an `Exception`, and SIGKILL or a
  power failure run nothing: the next process finds the leftovers and has only
  the pre-flight unmount against them.
* **Re-running.** `README.md:42` promises that re-running is safe without manual
  intervention, so the state a run leaves must not refuse the next run's
  commands.
* **Ordering in three layers**: partitions are numbered in source order, nodes
  are sorted topologically, filesystems are then moved to the end by depth. The
  three must agree with each other and with the numbers parted assigns.
* **Two executions of one plan**: the generated script must do what the live run
  does, though the shell, not `Executor`, decides what happens after a failure.
* **Exceptions that nobody catches**: `main()` catches `OSError` around reading
  the spec, `NodeValidationError` around loading and preparing it and
  `NodeExecutionError` around the run; everything else (`ValueError` of a size,
  `KeyError` of a variable, `SystemCommandError` of a modprobe) is a traceback
  with status 1, and what it leaves behind must fit that status.
* **Arithmetic of offsets**: rounding up to MiB along a chain that explicit,
  unaligned and `{max}` entries interrupt.

What makes each component correct is stated as properties in section 3, and
`PROJECT.json` lists the single hazards, at their lines, with the properties
that cover them.

## 2. The modules

| module | models | on top of |
|---|---|---|
| `TopoSort` | `_resolve_parents`, `_topo_sort` | |
| `StorageNodes` | the eleven node types: commands, checks, verification, cleanup, `validate` | |
| `Planner` | `prepare()` | `TopoSort`, `StorageNodes` |
| `PartitionLayout` | the offset loop of `_assign_partition_indices` | |
| `Kernel` | external: what the invoked tools do and refuse | `StorageNodes` |
| `Provisioner` | a run: pre-flight, modprobe, execute, verify, cleanup, interruption, further runs | `Kernel` |
| `DeviceStack` | the abstract promise: all or nothing, built from the bottom, undone from the top | |
| `ScriptRun` | the generated script beside the live run of the same plan | `Provisioner` |
| `SpecLoader` | `load_spec`: from a document to nodes or an exception | `StorageNodes` |
| `Cli` | `main()` from arguments to exit status, several calls | `Provisioner`, `SpecLoader`, an instance of `Planner` |
| `TopoSortProofs`, `PartitionLayoutProofs`, `ProvisionerProofs` | theorems about the module of that name | it |
| `PlannerProofs` | theorems about `prepare()` | `Planner`, `TopoSortProofs` |
| `PlanProofs` | lemmas on what plans are made of: devices, what a live node keeps in use, paths | `Kernel` |
| `CleanupProofs` | theorems about cleanup, the refinement of `DeviceStack` and repeated runs | `ProvisionerProofs`, `PlanProofs` |
| `ScriptRunProofs` | theorems about the script beside the live run | `ScriptRun`, `ProvisionerProofs`, `PlanProofs` |
| `CliProofs` | theorems about calls of `sprov`, from the loader to the exit status | `Cli`, `ProvisionerProofs`, `PlanProofs`, an instance of `PlannerProofs` |
| `MCTopoSort`, `MCPlanner`, `MCPartitionLayout`, `MCProvisioner`, `MCScriptRun`, `MCCli` | instances for TLC | |

**TopoSort.** A node is its position in `Executor.nodes`, which is also its heap
key. `parents` is fixed by the initial state: lists with repetitions, self
references and unknown ids are all legal input. `Resolve` / `RejectUnknown` are
`_resolve_parents` and the set-up of the sort, `Pop` is one turn of
`while heap`, `Finish` the comparison of lengths. The heap is a set, since
`heappop` takes its least element.

**Planner.** Extends the sort with the steps of `prepare()` around it: numbering
partitions (before, in source order), `_reorder_mounts` and `validate()`
(after). `RejectLayout` is the exception that numbering may raise; its reason
is modelled in `PartitionLayout`. What `prepare()` writes into the nodes stays
there: `linked` is `_resolved_parents`, `index` is `_index`. `PlannerInit` therefore
has two kinds of nodes, as their constructors leave them (`New`) and as an earlier
call has left them (`Used`), and the properties hold from both. The third thing
that is written, the offsets, is not in this module: the loop of
`PartitionLayout` computes them from `begin`, `size` and its own locals and never
reads them, so a second pass writes what is there. The result is
`PlanOf(LinkedNodes, ordered)`, a sequence of node records whose `parents` are positions in the plan; `Prepared(plan)` says what the
rest of the program may rely on, and links the two halves of the project: the
invariant `PlanPrepared` shows that `prepare()` establishes it, and
`Provisioner` assumes it of its plans.
The mountpoints of a spec are kept as they are written, split at slashes:
`Normalized` is `posixpath.normpath`, `MountDepth` is `_mount_depth` with its
treatment of two leading slashes, and `PlanOf` has the places the filesystems
are mounted at. Mountpoints with more `..` than names before them are left out
(`StaysInside`): they lead out of the control path.

**PartitionLayout.** One turn of the loop per `Place`. Sizes and positions are
numbers of bytes; where the code hands parted an expression the model has the
position it denotes, or one of the named values (`Foreign` for a `begin` only
parted understands, `Summed` for an end parted adds up, `Remainder` for
`100%`). Numbers are Python integers and do not overflow.

**StorageNodes.** `CommandLines` gives for every type the commands it runs with
their `check` flag; `_apply_ignore` clears the flags. A command also has what it reads from its
standard input, as a sequence of tokens. Options that only change
the wording of a command are left out; those that add one (`erase`, `flags`,
`uuid`, a key slot other than 0) are members of `opts`, as are the two traits of
a passphrase that matter to a heredoc: that it ends in a newline (`eol`) and
that it is the heredoc marker (`marker`).

**Kernel.** The machine has two sets of nodes of the plan: `made` (the on-disk
object exists) and `up` (an array runs, a mapping is open, a volume is active, a
filesystem is mounted, swap is on). `Refused` lists the preconditions of the
tools that the commands rely on, `Effect` what they do. This is the one external
part and is deliberately small: a tool refuses to take a device that is in
use, needs the device and the object it works on, and creates nothing that is
there. `umount` releases the topmost mount at the mountpoint, and no cleanup
action releases what something live rests on.

**Provisioner.** One action per command started. The variables follow the code:
`succeeded` is `_succeeded`, `registered` the nodes with a `_cleanup_actions`
entry, `phase` / `at` / `step` the position in `main()`, in the loops over nodes
and in the loop over commands. `before` and `blame` are history variables: what
was live when the run began, and which nodes failed. `faults` and `run` count
against the bounds `MaxFaults` and `MaxRuns`.

| action | code |
|---|---|
| `Preflight` | `main.py` `_preflight_cleanup` and its guard |
| `Modprobe`, `StartNodes` | `Executor.run` before the `try` |
| `EnterNode`, `RunCommand` | `Node.execute` up to its last command |
| `CompleteNode` | `_post_execute` and `_succeeded.append`: one step, as nothing between the two can fail, and a kill between them runs no cleanup that could tell |
| `StartVerify`, `VerifyNode`, `Succeed` | the verification loop |
| `Fail` (part of three actions) | the `except` branches |
| `CleanupNode`, `EndCleanup` | `_cleanup` |
| `Interrupt`, `Rerun` | the environment: kill or power failure; a new process |

`Outcomes` lets a command misbehave in four ways: `error` (non-zero, no effect),
`raise` (cannot be started), `late` (non-zero after the effect), `silent` (zero
without the effect). A command that the machine refuses fails without
costing a fault.

**ScriptRun.** `Emit` is `ScriptGenerator.emit` as a sequence of lines. Script and
live run start on machines that are alike, and the tools behave alike: `Paired`
gives the command the live run starts and the script's line of the same number
one outcome (the operators `ModprobeAs`, `RunCommandAs` and `VerifyNodeAs` of
`Provisioner` take it as an argument). What each makes of the outcome is its
own: the live run raises and cleans up, the shell stops under `set -e` or goes on
behind `|| true`. When the live run has given up, `ScriptAlone` runs the rest
of the script with outcomes of its own.

**SpecLoader.** `Checks` lists the checks of the document in their order with the
exception each one raises, `EntryCheck` is that of one of the `Others`, the entries
but the control entry; `LoadError` is the exception of the `FirstError` among them. A
document (`DocumentRecord`) says what YAML makes of it, which entries there are
(`EntryRecord`) and whether a constructor takes their fields. `NodesOf` resolves ids as `_by_id` does, where the last of equal
ids wins; that there are none is the check of the constructor.

**Cli.** `main` is the position in `main()`: `args`, `load`, `prepare`, then `emit`,
or `preflight`, `again` (the `prepare()` inside `run()`) and `run`, and `ended`
with the status `code`.

| action | code |
|---|---|
| `ParseArgs` | `parse_args`; argparse ends with status 2, `--version` with 0 |
| `Load` | `read_text`, `load_spec` (`Construct`: new nodes), `Executor(nodes)`, the call of `prepare()` |
| `PrepareStep`, `PrepareFailed`, `TakePlan` | `executor.prepare()`, its exceptions, `ordered` |
| `EmitScript` | `ScriptGenerator(ordered).emit()` |
| `PreflightStep` | `_preflight_cleanup`, then into `executor.run()`, which calls `prepare()` again |
| `TakePlanAgain`, `RunStep` | `Executor.run` after its own `prepare()`; the steps are those of `Provisioner` |
| `Kill`, `Again` | the environment: kill or power failure; another call, perhaps with the document edited |

A call of `prepare()` (`CallPrepare`) has new locals, which are the heap, the
in-degrees and the lists. The nodes are not touched by it: the second call works
on nodes with the links and the numbers that the first has given them.

Edited documents that load describe the same storage, so that the machine means
the same to every call (`CliAssumption`). The plan is not given, as in `Provisioner`,
but comes out of the instance of `Planner` (`Prep`). `PlansAssumption` ties the two:
`Plans` has what `prepare()` makes of the documents (`PlansOf`), in words that do not
mention the steps of `prepare()`; that these come to nothing else is proved
(`CliTypeCorrect`).

**DeviceStack.** What provisioning promises, with no commands, options or plan:
resources come up one at a time, each on resources that are up; the work ends
with everything required up, or everything is released from the top down; then
it may be tried again. `Provisioner` has the refinement mapping (`Stack`), under
which a node that is brought up is `Acquire` and a cleanup action is
`Release`.

## 3. What is checked

| run | question | properties |
|---|---|---|
| `sort_specs` | Is the sort right on every graph? | `TypeOK`, `KahnInv`, `CycleVerdict`, `ParentsFirst`, `SiblingOrder`, `LeastOrder`, `Verdict` |
| `plan_specs` | Does `prepare()` deliver what `run()` relies on? | `PlannerTypeOK`, `PlanPrepared`, `PartitionNumbers` |
| `layout_lists` | Do partitions fit and stay apart? | `LayoutTypeOK`, `RoomForSize`, `NoOverlap` |
| `run_faults` | What does one run leave, whatever fails, and does the script do the same? | `TypeOK`, `UndoLog`, `LeakConfined`, `SuccessMeansMounted`, `RunsEnd`, `ScriptTypeOK`, `InStep`, `AbortTogether`, `ScriptSuccess` |
| `run_rerun` | Is a failed run repeatable? | `Unobstructed`, `AllOrNothing`, `Settles` |
| `run_killed` | What do runs do with the leftovers of killed ones, and when is the pre-flight unmount enough? | `CleanStartRuns`, `PreflightClears`, `DryRunTouchesNothing`, `CleanupOwnOnly` |
| `cli` | Does the exit status say what became of the machine, on every document? | `CliTypeOK`, `StatusZero`, `StatusOneHarmless`, `ValidFirst`, `SamePlan`, `MainEnds` |

* `KahnInv`: an in-degree is always the number of mentions of parents not yet
  placed, so repeated parents neither make a node ready early nor keep it for
  ever; `CycleVerdict`: the comparison of lengths finds exactly the cyclic
  specs; `LeastOrder`: "stable by source order" in its strongest reading.
* `PlanPrepared`: whatever moving filesystems does to the order, no node that is
  handed out precedes a parent it takes a device from, and outer mountpoints are
  mounted before inner ones, however they are written. Equal mountpoints are
  allowed, in the code as in the property: the later one hides the earlier.
  The exception is in the property: `//` counts as two levels and is mounted
  over `/boot`. `PartitionNumbers`: the
  number given before the sort is the one parted will give.
* `RoomForSize`, `NoOverlap`: rounding and the cursor. `NoOverlap` is
  conditional: the code does not compare explicit `begin`s, so it says that if
  those are clear of what precedes them, the computed ones are too.
* `UndoLog`: what would be undone is at every moment exactly the executed prefix
  of the plan. `LeakConfined`: after a failed run, what is up was live before, or
  is held by the failing node itself or by a failed cleanup action, or is what
  one of these rests on (`Kept`). One failing action never costs more than that.
* `SuccessMeansMounted` holds even when commands claim success without effect,
  which is what verification is for. A fault of the `mountpoint` tool that
  reports a missing mount as present is excluded (`VerifyNode` has no `silent`).
* `Unobstructed`: no command is refused because of what an earlier command or an
  earlier run left. `AllOrNothing` is `DeviceStack!StackSafety` under the
  refinement mapping: every step of every run is a step of the abstract stack or
  leaves it alone. `Settles` is its liveness: again and again the stack is
  complete or rolled back.
* `CleanupOwnOnly`: cleanup releases nothing that was live before the run. It is
  checked for plans without `ignore_errors`; with it a node registers its
  cleanup even if its commands did nothing.

* `CleanStartRuns`: what killed runs wrote to the disks obstructs no run that
  finds nothing live. `PreflightClears`: on a plan whose live nodes are all
  filesystems inside one root, the pre-flight unmount leaves nothing live. The
  two together say for which plans a killed run can be repeated; a plan with
  mappings, arrays or swap is not among them (section 5).
* `InStep`: until the live run fails, the script is at the same command on a
  machine in the same state. `AbortTogether`: they give up at the same command,
  but for a tool of an unchecked command that cannot be started, on which only
  the live run gives up. `ScriptSuccess`: a script that reaches its end has all
  mounts, also when it went on alone.
* `StatusZero` goes from the document to the machine: every filesystem entry is
  mounted at its normalised mountpoint. `StatusOneHarmless`: statuses 1 and 64,
  tracebacks included, come with unwritten disks. `ValidFirst`: nothing is
  touched before the whole document is valid, nor by `--script` or a dry run.
  `SamePlan`: the second `prepare()`, on nodes that the first has linked and
  numbered, leaves links and numbers as they are, cannot fail, and comes to the
  plan that was validated. In its mutant the list of links is added to, not
  replaced: every node then has its parents twice, and the second call is refused.

Each property has a mutant in `PROJECT.json`: a changed definition, defined
beside the original and marked `MUTANT`, under which TLC finds that property
violated.

### Disagreements

These runs check something that the repository says and that the code does not do.

| run | what is said | what happens |
|---|---|---|
| `plan_fence` | `command.py:14`, `README.md:190`: command and debug nodes are ordered by `parents`, like others | filesystems are moved behind every other node, so a command below a filesystem runs before it is mounted |
| `run_slot` | `README.md:42`: re-running is safe | with a key slot other than 0, a failing `luksAddKey` or `luksKillSlot` leaves the mapping open without a cleanup action; the next run is refused |
| `run_modprobe` | `README.md:208`: exit code 2 for an execution error | modprobe runs before the `try`, so its failure leaves `main()` as an exception: a traceback and status 1 |
| `script_stdin` | `base.py:17`: generated scripts match what the Python path runs; `CHANGELOG.md:63`: equivalent to live execution | a heredoc ends in a newline, so `cryptsetup --key-file=-` reads one more byte in the script than in a live run, and the two make containers with different keys |
| `layout_fallback` | `.github/development-journal.md:28`: after an unaligned `begin`, later partitions fall back to parted's arithmetic | a later partition without `begin` is rejected |

### Bounds, and why they are enough

* `sort_specs`: four nodes with any set of parents (65 536 graphs), and
  three nodes with any list of up to two parents, repeated, unknown and
  self-referring ones included. Four nodes have every shape that matters to a
  heap: diamonds, two chains that race, a node behind a cycle. The theorems
  remove the bound for all but `Verdict`.
* `plan_specs`: four disks, partitions, filesystems (two depths) and debug nodes,
  enough for two disks with a partition each and for filesystems that must
  change places; three nodes of any type on any parent, beside a disk; and
  three filesystems on one disk with mountpoints written in eleven ways (`/`,
  `//`, `///`, trailing, doubled, `.` and `..` components).
* `layout_lists`: up to three partitions, `begin` and `size` from values below, at
  and above MiB boundaries. Two partitions show any overlap of neighbours, the
  third an overlap past one in between. Proved for all lists.
* `run_faults`: ten plans that between them have every node type and option, up
  to three faults of any kind. A leak needs a fault in execution and one in
  cleanup; the third leaves room for one that is ignored. Two of the plans have
  passphrases that a heredoc changes or refuses.
* `run_rerun`, `run_killed`: three runs, two faults: a run that
  fails, one that meets its leftovers and fails again, and one that meets theirs.
  The plans of `run_rerun` overwrite their disks, ignore no errors and use slot 0,
  the conditions under which the promise of repeatability holds. `run_killed`
  also kills runs at any moment; a kill may leave everything live
  (SIGKILL) or nothing (power failure).

* `cli`: one good document of six nodes, written out of order, and twenty-one
  spoilt ones, one for each check on the way: unreadable, ill-formed, refused by
  the loader, the constructor, each step of `prepare()`, or the script generator.
  Two calls, any arguments, one fault, a kill at any moment: the second call
  meets whatever the first left, with the document mended or spoilt.

Deadlock checking is off in every configuration because the program ends.

### Fairness

`TopoSort`, `Provisioner` and `Cli` assume weak fairness of the process as a whole: it
is one sequential thread that goes on while it has a next instruction. This
includes that commands return; `subprocess.run` is called without a timeout, so
a tool that hangs hangs the program, and no property says otherwise. There is
no fairness on `Interrupt`, `Kill`, `Rerun` and `Again`, which are the
environment's choice. `RunsEnd` and `MainEnds` hold without it, so cleanup ends
whatever it meets.
`ScriptRun` assumes it of the live run with its paired lines, and of the shell
that goes on alone.

## 4. What is proved

All theorems hold for every value of the constants that the named assumption of
the module allows (`TopoAssumption`, `PlannerAssumption`, `LayoutAssumption`,
`ProvisionerAssumption`, `CliAssumption`, `PlansAssumption`). `ProvisionerAssumption` says of plans
what `PlannerPrepares` proves of those `prepare()` hands out, and that the kernel
modules a plan asks for are finitely many, which they are because the node types
name them in lists. `CliAssumption` and `PlansAssumption` say of the documents that
those which load have one number of nodes and speak of the same storage, that
mountpoints stay inside the control path and do not begin with two slashes (the
exception that `PlanPrepared` has too), and that `Plans` has the plans prepared from
them. TLC evaluates all of them on the instances of the runs. Each theorem follows from one inductive invariant: it holds
initially, each action preserves it, one step per action, and it implies the
property.

**`TopoSortProofs`** (`SortCorrect`): for specs of any size, `TypeCorrect`,
`KahnCorrect`, `ParentsPlacedFirst`, `SiblingsInSourceOrder`,
`CycleVerdictCorrect`, `OrderIsLeast`. `ParentsFirst` is not inductive alone: that
a popped node has its parents placed follows from the heap's contents, and these
from the in-degrees, hence `KahnInv` as part of the invariant. The core is a lemma
on cardinalities: the decrements of one turn take away exactly the mentions of
the popped node. The verdict on cycles then needs no induction over paths: what
is left when the heap is empty is a set in which everyone has a parent, and in a
finished order the node of such a set that was placed first has a parent placed
before it. `OrderIsLeast` compares the result with every order that puts parents
first. It rests on `GreedyInv`: each place holds the least node that was ready for
it. At the first place where another order differs, that order has a node that
was ready too.

**`PlannerProofs`** (`PlannerCorrect`): `PlannerTypeCorrect`, `PlannerPrepares`,
`PartitionsNumbered`, for specs of any size. `PlanInv` is the invariant of the sort
with what the steps around it leave behind: links are parents and numbers are
those of the partitions once numbering is over, whatever an earlier call had left. `PlannerPrepares` is the link between
the two halves of the project: the conjuncts of `Prepared` are proved one by one
from what is known of `Reordered`, that it permutes the sorted nodes, keeps the
order of all but filesystems, and puts these last by depth. That a device path
resolves in the plan as it did in the spec goes through the positions of the
parents. `PartitionsNumbered` follows from `SiblingsInSourceOrder`, since the
partitions of one disk have the same parents.

**`PartitionLayoutProofs`** (`LayoutCorrect`): `LayoutTypeCorrect`,
`PartitionsHaveRoom`, `PartitionsDisjoint`, for lists of any length. The
strengthening is `CursorInv`, that an existing cursor is the end of the last
partition and that this end is known, and `SpanShape`, which ties each recorded span to the fields it was
computed from.

**`ProvisionerProofs`** (`RunCorrect`): for all plans that `Prepared` allows,
options, faults and bounds, `RunTypeCorrect`, `UndoLogExact` and
`SuccessIsVerified`; and the action property `DryRunSafe`. The invariant adds `Verified` to the properties: during the
verification loop, every filesystem already passed that does not ignore errors
has something mounted. `UndoLog` is what makes the type invariant inductive: cleanup
indexes `succeeded` by `at`, and that is inside the list only because the two
loops keep them in step.

**`PlanProofs`** has no theorem about behaviours. Which devices a node is built
from is defined by recursion over the plan. Its lemmas replace the recursive
functions by the equations these satisfy: `Recursion` shows that a function
whose value at `m` depends on its values below `m` exists on `1..n`, by
well-founded induction on membership in a set (`PrefixInduction`), which needs
no operator as a parameter. From the equations follow the facts about layers that the rest
uses: devices come before what is built from them, a device is made of all
that its own devices are made of (`DevicesOrdered`), filesystems are no part of
a device that was resolved (`NoMountInDevices`), and what a live node keeps in
use is closed under what that keeps in use (`BeneathOrdered`).

**`CleanupProofs`**, on `RunInv`:

* `LeaksConfined`: `LeakConfined` for all plans and faults, with errors ignored,
  runs killed and run again. `LeakInv` has two parts. Before cleanup (`UpInv`), all
  that is up was live before or belongs to a node that has been entered. During
  cleanup (`LeftInv`), all that is up is kept by a blamed node or is still to be
  undone by an action not yet reached. That one action releases what the invariant
  says it does depends on what may refuse it, a live node above, and such a
  node is itself kept.
* `CleanupReleasesOwn`, `PreflightClearsTree`: `CleanupOwnOnly` and
  `PreflightClears`, under `Strict`: no node of the plan ignores errors and no
  command claims a success it did not have (`"silent"`). Both conditions are
  needed: without them a node registers a cleanup action though it brought nothing
  up, and the action may release what was there before. `OwnInv` adds that nothing is
  up without what it rests on (`Closed`), and that the targets of a registered
  cleanup action were not live before the run, because the command that claims
  them would have been refused.
* `RunsAllOrNothing`: `AllOrNothing`, the refinement of `DeviceStack`, under
  `Reversible`: `Strict`, no dry run (it brings nothing up and still ends with success), failing commands
  have no effect (`Faults` within `error` and `raise`), cleanup does not fail, no run is
  killed, and passphrases are in slot 0. Each of these names a way in which a
  run does leave something behind: `run_slot` shows it for the slot, `LeakConfined`
  says how much for the others. `AllInv` has it that runs start from nothing and
  that during cleanup all that is up is still to be undone. `StackMoves` and
  `StackStep` then give for every action the step of the stack it is.
* `CleanStartUnobstructed`, `RunsUnobstructed`: `CleanStartRuns` under `Strict`, with
  runs killed at any moment, and `Unobstructed` under `Reversible`, for plans that
  are `Rebuildable`. That is: disks have `overwrite` set (otherwise the table of
  the last run refuses `mkpart`); partitions are on disks and groups on physical
  volumes (only there does the code wipe what was there); and a device is not
  taken by a node after a live node uses it (the plan would obstruct itself). All
  plans of `run_rerun` and `run_killed` are of this kind. `DiskInv` says
  what is on the disks while nodes are executed, whatever was there before: each
  node that is `Done` has its object, and on a disk or physical volume that is
  `Done` there is only what nodes that are `Done` put there. Hence `mkpart`,
  `vgcreate` and `lvcreate` find no object of their name, and commands that need
  one find it. That the devices are free to be taken is from `OwnInv`: all that is
  up is this run's, and comes before.

**`ScriptRunProofs`** (`ScriptCorrect`): `ScriptTypeCorrect`, `ScriptInStep`,
`ScriptAbortsTogether`, `ScriptIsVerified`, for all plans, options and faults. What
`Emit` puts at a position goes through `FlattenSeq`, a fold; `Flattened` gives it
by offsets (`Recursion` again), and `EmitMeans` says which line of the script is
which command: `NodeAt` and `CheckAt` count the lines before a node's commands and
before its check. `ScriptInv` is `RunInv` with four parts: the script is that of
the plan (`ShellOK`); the line the shell is at is the number of commands the live
run has started, plus one, on a machine that is alike (`Alongside`, `InLine`);
and each check passed has found its mount (`Shown`), which carries
`ScriptIsVerified` past the point where the live run has given up.

**`CliProofs`** (`CliCorrect`, `SprovCorrect`): for all documents, options, faults and
numbers of calls.

* `StatusOneIsHarmless`, from `CliInv`. The status alone is not inductive: the
  invariant says how far `Executor.run` is, that up to the last modprobe the
  machine is as the process found it but for unmounts, and that no later step can
  end in a traceback.
* `CliTypeCorrect`, `StatusZeroMeansMounted`, `ValidatedFirst`, `SecondPrepareAgrees`, from
  `SprovInv`, which is `CliInv` with `StateInv`. `StateInv` says where `main()` can be
  under which arguments (`Position`); that the nodes are those of the document, with
  the invariants of `Planner` (`Known`), or have not been read (`Unread`); that
  `Executor.run` starts with nothing done (`Fresh`) and goes on under the invariant of
  `Provisioner`, from any machine earlier calls may leave (`Machine`, `InRun`); and
  that what the first `prepare()` found still holds in the second (`Settled`,
  `Repeats`). No part is inductive without the others: that a run begins under
  `RunInv` needs the plan to be among `Plans`, this needs the nodes to be those of a
  document, and that `RunInv` survives the second `prepare()` needs its plan to be the
  first one's.

`Planner` appears twice: `Prep` in `Cli`, and `Made` here, the same instance of
`PlannerProofs`, whose theorems hold under it because the documents meet its
assumptions (`MadeAssumptions`). The lemmas `Same...` identify the operators of the
two, and `PrepareIsMade` the steps. `LoadedOthers` and `LoadedNodes` say what
`load_spec` returns when no check fails: one node for each entry but the control
entry, in their order.

`SecondPrepareAgrees` compares two sorts of the same nodes that happen one after the
other. `IsOrder` says of an order, without the sort, that each of its places
holds the first node that is ready for it; a spec has at most one such order
(`OneOrder`), and every sort that ends has it (`SortIsOrder`, from `GreedyInv`).
When the first call returns, the nodes are `Used` (`UsedOnce`): what the second one
writes is what it finds (`UsedStays`), and the parents it reads are those the spec
names (`LinkedOnce`).
That the second sort does end is the verdict on cycles of the first: no set of
nodes waits for itself. That its validation passes is that the plan is the same
and was valid.

`StatusZeroMeansMounted` follows an entry of the document to a node (`LoadedNodes`),
to its place in the plan (`EntryInPlan`, since `prepare()` only permutes) and to a
mount (`SuccessMeansMounted`, in `RunInv`).

The parts of `SprovInv` were checked with TLC on the instance of `cli` before they
were proved, in all states of one call.

**Only model-checked.** `Verdict`, `RunsEnd`, `Settles` and `MainEnds` are temporal
properties under fairness, which the provers do not handle. Every other property
of a passing run is proved.

## 5. What is not modelled

* YAML parsing, the checks of single fields (labels, names, sizes, slots),
  `parse_size` and `expand_vars`: string functions without state. A document of
  `SpecLoader` has their verdicts.
* Names. Nodes are identified by position, so two ids that are sanitised to one
  mapper name, equal names of volume groups, and the path a partition gets below
  a disk named by a link are outside the models.
* How parted reads a `begin`: it is handed over as written, and a bare number or
  `1M` means something else to parted than to `parse_size`.
* Mountpoints that leave the control path through `..`.
* Repeating runs on disks with `overwrite: no`, where a second `mkpart` adds a
  second partition: `README.md:42` does not speak of it, and `Unobstructed` is
  checked for disks that are overwritten.
* Killed runs of plans with mappings, arrays, volume groups or swap: the
  pre-flight step only unmounts, and nothing in the repository promises more.
  The runs do kill layered plans; `CleanStartRuns` and `PreflightClears` say when the
  next run goes through, and no property says that it always does.
* What cleanup of a node that ignores errors releases, if the object was there
  before the run.
* Logging, verbosity, the wording of commands, quoting and comments of scripts.
* A second `Executor.run()` on one object: `main()` never does it.
* Tools that wait for ever, and the contents of devices below whole objects.

## 6. Plan

Done: every component that keeps state or decides an order, the runs, and a
theorem for every invariant and every action property that a run checks. What
could be added is breadth, not proofs: documents whose storage changes between
two calls, mountpoints that leave the control path, and disks that are not
overwritten, each of which an assumption excludes now.
