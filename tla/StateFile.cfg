CONSTANTS
  CCs = 1
  Programs = {0, 1}
  Filters = {"f"}
  Opts <- MCOpts
  OldFiles <- MCOldFiles
  MaxMoves = 5
  MaxPlugins = 2
SPECIFICATION Spec
CHECK_DEADLOCK FALSE
INVARIANTS RoundTrip ForeignIgnored HostPlays
