\* One connection, two gateways: a session is re-homed while the dead-man, owner
\* loss and the death of the helper interleave with the update.
SPECIFICATION Spec
CONSTANTS
  Callers = {c1}
  Peers = {p1, p2}
  NoPeer = NoPeer
  NoCaller = NoCaller
  NoConfig = NoConfig
  Platform = "darwin"
  DeadManCfg = 3
  OrphanCfg = 1
  ReleaseFaults = TRUE
INVARIANTS
  StateIsReal
  RehomeIsWhole
PROPERTIES
  FullReconnectKeepsBlock
  ImplementsSupervisor
