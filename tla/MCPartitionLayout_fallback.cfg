\* .github/development-journal.md:28: "subsequent partitions fall back".
SPECIFICATION LayoutSpec
CONSTANTS
  MaxParts = 2
  PartLists <- SmallLists
INVARIANT
  UnalignedFallsBack
\* The loop ends.
CHECK_DEADLOCK FALSE
