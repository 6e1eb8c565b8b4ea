\* Two operations under way at a time, two instances, a share first active or paused. A path
\* ends when the versions, the instances and the one sign-in are used up.
CONSTANTS
  Ops = {o1, o2}
  Runs = {1, 2}
  MaxVersion = 3
  IdleCap = 1
  ActiveCap = 1
  MaxSurplus = 1
SPECIFICATION Spec
INVARIANTS PoolsBounded NoOrphan
PROPERTY Withdrawn
CHECK_DEADLOCK FALSE
