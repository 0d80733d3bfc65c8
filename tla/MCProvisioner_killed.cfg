\* Runs killed at any moment, followed by runs that find the leftovers.
SPECIFICATION Spec
CONSTANTS
  Plans <- StrictPlans
  ControlModules = {}
  DryRuns = {TRUE, FALSE}
  Skips = {TRUE, FALSE}
  Faults = {"error", "raise"}
  CleanupFaults = {"error"}
  MaxFaults = 2
  MaxRuns = 3
  MayInterrupt = TRUE
INVARIANT
  CleanStartRuns
PROPERTIES
  PreflightClears
  DryRunTouchesNothing
  CleanupOwnOnly
\* The last run ends.
CHECK_DEADLOCK FALSE
