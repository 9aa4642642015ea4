CONSTANTS
  Threads = {t1, t2}
  NoThread = NoThread
  OnceASecond = TRUE
  MaxTime = 4
  MaxEdits = 4
  BufSize = 4
  Files <- MCFiles
  Patterns <- MCPatterns
  Strings <- MCStrings
  Urls = {site, mirror, tile, auth}
  ReservedUrls = {auth}
  Tile = tile
  TileServer = mirror
  Headers = {host, agent}
  Host = host
  RedirectRules <- MCRedirectRules
  HeaderRules <- MCHeaderRules
  Terminal = TRUE
SPECIFICATION MCSpec
INVARIANTS
  HostFollows
