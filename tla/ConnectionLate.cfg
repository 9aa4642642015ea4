CONSTANTS
  Hosts = {h1, h2}
  NoHost = NoHost
  Configs = {"tls10", "tls12"}
  LateApproved = TRUE
  MaxInit = 3
SPECIFICATION Spec
INVARIANTS
  PeerChecked
