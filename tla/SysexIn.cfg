CONSTANTS
  Fields = 2
  Channel = 2
  Values = {0, 1}
  Capacity = 1
  GtkDumps = {TRUE, FALSE}
  MaxMessages = 2
  MaxWithGtk = 1
  MaxEdits = 1
  MaxUnplugs = 1
SPECIFICATION Spec
CHECK_DEADLOCK FALSE
INVARIANTS FramesAligned DumpObeyed
PROPERTIES Answered ControllerCatchesUp
