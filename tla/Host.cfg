SPECIFICATION FairSpec
CONSTANTS
  Plugins = 2
  Replaceable = {1}
  LateUsers = FALSE
  MaxActs = 1
CHECK_DEADLOCK FALSE
INVARIANT NothingFreedIsUsed
PROPERTIES HostEnds EditorsShown
