SPECIFICATION FairSpec
CONSTANTS
  Callers = {c1, c2, c3}
  MaxReleases = 2
INVARIANTS
  Inductive
  NoOrphan
  StateIsHonest
  OneRelease
  NothingSkipped
PROPERTIES
  NotAbandoned
  CallersReturn
