CONSTANTS
  Servers = {s1}
  Browsers = {b1}
  Ops = {o1, o2}
  NoServer = NoServer
  MaxRequests = 2
  Threads = {main, worker}
  Main = main
  Machines <- MCMachines
  Envs <- MCEnvs
  Peers = {p1, p2}
  Probes = {q1, q2}
  Addrs = {a1, a2}
  NoPeer = NoPeer
  NoProbe = NoProbe
  NoAddr = NoAddr
  MAXPROBES = 2
  ENDPOINTS = 2
  MaxTap = 1
  MaxFails = 1
  Conns = {c1, c2}
  ATTEMPTS = 2
  MaxStarts = 2
  MaxStops = 2
SPECIFICATION MCSpec
INVARIANTS
  CountsExact
  SwitchWaitsForTransfers
  OwnedIsUsed
  NamedIsReachable
PROPERTIES
  NothingPutOffForever
  AnswerIsModern
  PeersAreNamed
  HeldIsClosed
