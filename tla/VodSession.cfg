SPECIFICATION Spec
CONSTANTS
  Words <- VodWords
  Setups <- VodSetups
  Sessions = 2
  SourceRetries = 1
  MergeLimit = 3
  GroupSize = 2
INVARIANT ContentKept
INVARIANT FinishedIsWhole
INVARIANT DecryptedOnce
INVARIANT OutputsApart
PROPERTY ForeignKept
PROPERTY CancelNoticed
CHECK_DEADLOCK FALSE
