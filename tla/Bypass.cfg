SPECIFICATION FairSpec
CONSTANTS
  Users = {"main"}
  Mirror = TRUE
INVARIANT
  TouchOnlyRunning
  Excluded
  Settled
  LastRequestStands
PROPERTY
  BypassReturns
