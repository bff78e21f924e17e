SPECIFICATION Spec
CONSTANTS
  Nodes = {n1}
  Workers = {w1, w2}
  MaxTurns = 2
  MaxSends = 2
SYMMETRY Symmetry
CHECK_DEADLOCK FALSE
INVARIANTS
  Inductive
  EffectAtMostOnce
  ClaimsTellTheTruth
  HistoryIsReal
PROPERTIES
  ClaimsAreCurrent
  CheckpointedOnce
  EffectsOnce
