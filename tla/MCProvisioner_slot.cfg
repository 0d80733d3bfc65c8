\* README.md:42: "re-running is safe without manual intervention".
SPECIFICATION Spec
CONSTANTS
  Plans <- SlottedPlans
  ControlModules = {}
  DryRuns = {FALSE}
  Skips = {FALSE}
  Faults = {"error"}
  CleanupFaults = {}
  MaxFaults = 1
  MaxRuns = 2
  MayInterrupt = FALSE
INVARIANT
  Unobstructed
\* The last run ends.
CHECK_DEADLOCK FALSE
