\* base.py:17: "generated shell scripts match what the Python path runs".
SPECIFICATION ScriptSpec
CONSTANTS
  Plans <- KeyPlans
  ControlModules = {}
  DryRuns = {FALSE}
  Skips = {FALSE}
  Faults = {}
  CleanupFaults = {}
  MaxFaults = 0
  MaxRuns = 1
  MayInterrupt = FALSE
INVARIANT
  SameInput
\* The run and the script end.
CHECK_DEADLOCK FALSE
