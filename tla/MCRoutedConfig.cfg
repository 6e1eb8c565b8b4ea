\* Both platforms, two sessions, two ranges. A path ends when the sessions are used up.
CONSTANTS
  Platforms = {"darwin", "windows"}
  Domains = {"d1"}
  Foreign = {}
  Ranges = {"r1", "r2"}
  Configs <- MCConfigs
  MaxSession = 2
SPECIFICATION Spec
INVARIANTS BeliefIsReal RangesHeldUnlessTorn UndisturbedLeavesNone
CHECK_DEADLOCK FALSE
