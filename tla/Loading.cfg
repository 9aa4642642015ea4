CONSTANTS
  Threads = {t1, t2}
  NoThread = NoThread
  Editable = TRUE
  Clients = {"App"}
  Systems <- MCSystems
SPECIFICATION MCSpec
INVARIANTS
  WriteHasOriginal
  EngineWhereWanted
  OriginalIsReal
  GuardExact
PROPERTIES
  HooksStay
  CallsReturn
