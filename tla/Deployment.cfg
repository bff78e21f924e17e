SPECIFICATION MCSpec
CONSTANTS
  Operators = {o1, o2}
  N = 3
  Packages <- AllPackages
  Situations <- AllSituations
  Configurations <- AllConfigurations
  SelfCommitting = {3}
  Repeatable = {1}
  Redefining = {2}
  VectorAt = 2
SYMMETRY Symmetry
INVARIANTS
  Inductive
  HeadIsTrue
  ConnectsAsDeclared
  ChainIsLinear
