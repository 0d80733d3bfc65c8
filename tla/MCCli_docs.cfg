\* sprov called twice, with a document that may be edited in between.
SPECIFICATION CliSpec
CONSTANTS
  Plans <- GoodPlans
  ControlModules = {"ext4"}
  DryRuns = {TRUE, FALSE}
  Skips = {TRUE, FALSE}
  Faults = {"error", "silent"}
  CleanupFaults = {"error"}
  MaxFaults = 1
  MaxRuns = 2
  MayInterrupt = TRUE
  Documents <- AllDocuments
  NodeCount = 6
INVARIANTS
  CliTypeOK
  StatusZero
  StatusOneHarmless
PROPERTIES
  ValidFirst
  SamePlan
  MainEnds
\* The last process ends.
CHECK_DEADLOCK FALSE
