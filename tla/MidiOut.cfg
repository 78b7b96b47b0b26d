CONSTANTS
  Frames = 3
  Modulus = 32
  Capacity = 4
  MaxCycles = 6
SPECIFICATION Spec
CHECK_DEADLOCK FALSE
INVARIANTS OneCycleLate NoneStuck
