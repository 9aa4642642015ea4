CONSTANTS
  Alerts = {40, 41, 116}
  MaxRead = 2
  MaxPayload = 2
  MaxRecords = 2
  RunMax = 3
  MaxRecord = 2
  IntMod = 1000
  CanFail = TRUE
  MaxLen = 5
  MaxBytes = 8
  Owners = {b, s}
  LEASE = 2
  Raced = FALSE
  Unowned = FALSE
  MaxFaults = 3
  Addr = {a1, a2}
  Shadows = {s1, s2}
  Threads = {t1, t2}
  NoAddr = NoAddr
  NoShadow = NoShadow
  MAXSH = 1
  ClockMod = 100
  MaxTicks = 4
  CFContexts = FALSE
  Debug = TRUE
SPECIFICATION MCSpec
INVARIANTS
  AnswersOwnOutcome
  WireInOrder
  AcceptedKept
  HonestAnswer
PROPERTIES
  UnlinkedIsFreed
  AllDelivered
  NotAskedAgain
  QueueDrains
  NoStaleRenewal
  RadioFollowsOwners
