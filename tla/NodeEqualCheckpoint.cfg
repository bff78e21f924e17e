SPECIFICATION Spec
CONSTANTS
  Nodes = {n1}
  Workers = {w1, w2}
  MaxTurns = 2
  MaxSends = 1
CHECK_DEADLOCK FALSE
INVARIANTS
  EqualIsTheSame
