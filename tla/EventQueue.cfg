SPECIFICATION QueueSpec
CONSTANTS
  MAX_EVENTS = 4
  Event = {e1, e2, e3}
  ZeroEvent = e0
  Nil = Nil
INVARIANT
  NewestArrives
PROPERTY
  ImplementsFifo
