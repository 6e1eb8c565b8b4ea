\* Two users, two tickets besides polls and announcements, six epochs.
SPECIFICATION Spec
SYMMETRY Symmetry
CONSTANTS
  Creds = {u1, u2}
  NoCred = NoCred
  NoLease = NoLease
  Imported = Imported
  Adopted = Adopted
  MaxEpoch = 6
  MaxLane = 2
INVARIANTS
  UpIsWatched
  EffectsStayHome
  UnlabelledIsImported
