CONSTANTS
  Args = {0, 1}
  InitResults = {TRUE}
  Main = main
  Event = event
  None = none
  Callers = {main, jack}
  UserCalls <- MCUserCalls
  OwnCalls <- MCOwnCalls
SPECIFICATION FairSpec
INVARIANTS
  TypeOK
  AnsweredBeforeReturn
  CallRecordAlive
  HandledOnce
PROPERTIES
  CallsReturn
  ImplementsLiveService
