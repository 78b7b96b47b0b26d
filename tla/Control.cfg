CONSTANTS
  Apps = {"a", "b"}
  SlotCounts = {1, 2}
  Values = {0, 1}
  Echoes = {TRUE, FALSE}
  MaxEdits = 2
SPECIFICATION Spec
CHECK_DEADLOCK FALSE
INVARIANTS OneAnswer
PROPERTIES Answered SeatsComeBack MirrorsCatchUp
