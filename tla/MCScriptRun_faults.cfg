\* Every plan, every kind of fault, anywhere, in the live run and in the script.
SPECIFICATION ScriptSpec
CONSTANTS
  Plans <- ScriptPlans
  ControlModules = {"ext4"}
  DryRuns = {TRUE, FALSE}
  Skips = {TRUE, FALSE}
  Faults = {"error", "raise", "late", "silent"}
  CleanupFaults = {"error", "raise"}
  MaxFaults = 3
  MaxRuns = 1
  MayInterrupt = FALSE
INVARIANTS
  TypeOK
  UndoLog
  LeakConfined
  SuccessMeansMounted
  ScriptTypeOK
  InStep
  ScriptSuccess
PROPERTIES
  AbortTogether
  RunsEnd
\* The run and the script end.
CHECK_DEADLOCK FALSE
