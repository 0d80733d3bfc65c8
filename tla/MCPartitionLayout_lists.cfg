\* Every list of up to three partitions.
SPECIFICATION LayoutSpec
CONSTANTS
  MaxParts = 3
  PartLists <- SmallLists
INVARIANTS
  LayoutTypeOK
  RoomForSize
  NoOverlap
\* The loop ends.
CHECK_DEADLOCK FALSE
