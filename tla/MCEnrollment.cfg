\* Two users of one machine, two keys, three faults.
SPECIFICATION FairSpec
CONSTANTS
  Users = {u1, u2}
  Keys = {k1, k2}
  None = None
  MaxFaults = 3
  MaxLogins = 2
INVARIANTS
  OneIdentity
  ArmedIsRecorded
PROPERTIES
  ForeignUntouched
  OnlyRemovalForgets
  ImplementsIdentity
  Resumes
