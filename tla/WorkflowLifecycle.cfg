SPECIFICATION Spec
CONSTANTS
  Definitions = {d1}
  Authors = {u1, u2}
  Callers = {c1, c2}
  Sessions = {s1}
  MaxTime = 3
  MaxExecutions = 2
SYMMETRY Symmetry
CHECK_DEADLOCK FALSE
INVARIANTS
  Inductive
  OneActivePerSession
  VersionsInOrder
PROPERTIES
  StartsArePublished
  PublishesWhatWasRead
