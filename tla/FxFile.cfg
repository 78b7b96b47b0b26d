CONSTANTS
  NumPrograms = 3
  Params = 3
  Values = {7, 8}
  Kinds = {TRUE, FALSE}
  MaxEdits = 2
SPECIFICATION FxSpec
CHECK_DEADLOCK FALSE
INVARIANTS Restored SavingOnlyLooks
PROPERTY OwnFilesOnly
