\* Failed runs followed by further runs, on plans that can be built again.
SPECIFICATION Spec
CONSTANTS
  Plans <- SoundPlans
  ControlModules = {}
  DryRuns = {FALSE}
  Skips = {TRUE, FALSE}
  Faults = {"error", "raise"}
  CleanupFaults = {}
  MaxFaults = 2
  MaxRuns = 3
  MayInterrupt = FALSE
INVARIANT
  Unobstructed
PROPERTIES
  AllOrNothing
  Settles
\* The last run ends.
CHECK_DEADLOCK FALSE
