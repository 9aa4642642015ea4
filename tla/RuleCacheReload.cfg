CONSTANTS
  Threads = {t1, t2}
  NoThread = NoThread
  OnceASecond = TRUE
  MaxTime = 4
  MaxEdits = 4
SPECIFICATION Spec
INVARIANTS
  ArrayOutlivesCaller
