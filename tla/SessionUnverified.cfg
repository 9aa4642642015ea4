CONSTANTS
  Conns = {c1, c2}
  Keys = {k1}
  Sessions = {s1, s2, s3}
  NoKey = NoKey
  NoSess = NoSess
  MAXSESS = 1
  MaxTicks = 3
SPECIFICATION Spec
INVARIANT
  EngineVerified
