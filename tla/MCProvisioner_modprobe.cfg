\* README.md:208: the exit codes of sprov.
SPECIFICATION Spec
CONSTANTS
  Plans <- PlainPlans
  ControlModules = {"ext4"}
  DryRuns = {FALSE}
  Skips = {FALSE}
  Faults = {"error"}
  CleanupFaults = {}
  MaxFaults = 1
  MaxRuns = 1
  MayInterrupt = FALSE
INVARIANT
  FailureReported
\* The last run ends.
CHECK_DEADLOCK FALSE
