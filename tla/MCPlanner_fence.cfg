\* command.py:14: "Ordering is expressed the same way as every other node".
SPECIFICATION PlannerSpec
CONSTANTS
  NodeCount = 3
  Unknown = 0
  ParentLists <- ShortLists
  Storages <- DiskSpecs
INVARIANT
  FenceAfterParents
\* prepare() ends.
CHECK_DEADLOCK FALSE
