SPECIFICATION Spec
CONSTANTS
  Words <- VodWords
  Setups <- CollidingSetups
  Sessions = 2
  SourceRetries = 1
  MergeLimit = 3
  GroupSize = 2
INVARIANT OutputsDiffer
CHECK_DEADLOCK FALSE
