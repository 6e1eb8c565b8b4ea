\* A Down whose last removal fails, and its retry.
SPECIFICATION Spec
CONSTANTS
  Callers = {c1}
  Peers = {p1}
  NoPeer = NoPeer
  NoCaller = NoCaller
  NoConfig = NoConfig
  Platform = "darwin"
  DeadManCfg = 2
  OrphanCfg = 1
  ReleaseFaults = TRUE
PROPERTY DownRetryReleases
