SPECIFICATION FairSpec
CONSTANTS
  MAX_EVENTS = 3
  Event <- MCEvents
  ZeroEvent <- MCZero
  Nil = Nil
  CCs = {c1, c2}
  Params = {p1}
  Loads <- MCLoads
CHECK_DEADLOCK FALSE
PROPERTIES
  Settles
  LearnsPairs
  LearningSucceeds
