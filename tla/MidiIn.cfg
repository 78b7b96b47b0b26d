SPECIFICATION MidiInSpec
CONSTANTS
  Writers = {"main"}
  Received <- MCReceived
  Selections = {0, 1, 2, 3, 200}
  Semitones <- MCSemitones
CONSTRAINT
  TwoSelections
INVARIANT
  FilteredAsMeant
  SetAsAsked
