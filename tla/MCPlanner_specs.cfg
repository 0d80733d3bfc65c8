\* Every spec of four disks, partitions, filesystems and debug nodes, and every
\* spec of three nodes of any kind and a disk.
SPECIFICATION PlannerSpec
CONSTANTS
  NodeCount = 4
  Unknown = 0
  ParentLists <- ShortLists
  Storages <- AllSpecs
INVARIANTS
  PlannerTypeOK
  PlanPrepared
  PartitionNumbers
\* prepare() ends.
CHECK_DEADLOCK FALSE
