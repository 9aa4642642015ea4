CONSTANTS
  Threads = {t1, t2}
  NoThread = NoThread
  Editable = FALSE
SPECIFICATION FairSpec
PROPERTIES
  RetryInstalls
CHECK_DEADLOCK FALSE
