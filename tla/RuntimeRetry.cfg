SPECIFICATION Spec
CONSTANTS
  Callers = {c1, c2}
  MaxReleases = 2
INVARIANT
  StopRetries
