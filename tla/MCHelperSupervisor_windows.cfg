\* Two connections, two gateways.
SPECIFICATION Spec
SYMMETRY Symmetry
CONSTANTS
  Callers = {c1, c2}
  Peers = {p1, p2}
  NoPeer = NoPeer
  NoCaller = NoCaller
  NoConfig = NoConfig
  Platform = "windows"
  DeadManCfg = 2
  OrphanCfg = 1
  ReleaseFaults = TRUE
INVARIANTS
  ShieldHolds
  ArmedBeforeRouted
  PatientRelease
