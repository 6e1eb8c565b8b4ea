\* Two connections that come, call, race and go, over a dead-man of one tick.
SPECIFICATION FairSpec
CONSTANTS
  Conns = {c1, c2}
  NoConn = NoConn
  DeadManCfg = 1
  OrphanCfg = 0
INVARIANTS
  OwnerServed
  UpIsOwned
PROPERTY NeverStranded
