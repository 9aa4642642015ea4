CONSTANTS
  Addr = {a1, a2, a3}
  Shadows = {s1, s2, s3, s4}
  Threads = {t1, t2}
  NoAddr = NoAddr
  NoShadow = NoShadow
  MAXSH = 2
  ClockMod = 100
  MaxTicks = 5
  CFContexts = TRUE
  Debug = FALSE
SPECIFICATION Spec
SYMMETRY Alike
INVARIANTS
  NoStaleEntry
  ReferencesExact
PROPERTIES
  ImplementsRegistry
