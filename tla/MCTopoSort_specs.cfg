\* Every graph on four nodes, and every spec of three nodes (and one that stands
\* alone) with repeated parents, self references and an unknown id (0).
SPECIFICATION Spec
CONSTANTS
  NodeCount = 4
  Unknown = 0
  ParentLists <- AllLists
INVARIANTS
  TypeOK
  KahnInv
  CycleVerdict
  ParentsFirst
  SiblingOrder
  LeastOrder
PROPERTY
  Verdict
\* prepare() ends: the sort stops once it has a verdict.
CHECK_DEADLOCK FALSE
