CONSTANTS
  Hosts = {h1, h2}
  NoHost = NoHost
  Configs = {"tls10", "tls12"}
  LateApproved = FALSE
  MaxInit = 3
  Threads = {t1, t2}
  Questions <- BothSides
  MAXCHOK = 2
  CHAIN_OK_TTL = 1
  StepBack = FALSE
  MaxTime = 2
  MaxUses = 3
  Conns = {c1, c2}
  Keys <- TwoKeys
  Sessions = {s1, s2, s3, s4}
  NoKey = NoKey
  NoSess = NoSess
  MAXSESS = 1
  MaxTicks = 3
SPECIFICATION MCSpec
SYMMETRY Alike
VIEW Seen
INVARIANTS
  TrustIsCurrent
  PeerChecked
  IdentityAfterApproval
  CachedWasAccepted
  RefsExact
  SessionFits
PROPERTIES
  ClientAuthKept
  ImplementsRegistry
