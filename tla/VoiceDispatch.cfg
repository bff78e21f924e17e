SPECIFICATION Spec
CONSTANTS
  Keys = {k1}
  Orgs = {o1, o2}
  Payloads = {p1, p2}
  Workers = {w1, w2}
  Sources = {"PROVIDER_LOOKUP", "OPERATOR"}
  MaxAttempts = 2
  LateVerdicts = FALSE
SYMMETRY Symmetry
INVARIANTS
  Inductive
  AtMostOneCall
  RetryableIsQuiet
  ConfirmedIsReal
  OneSessionPerKey
PROPERTIES
  SettledByHolderOrAudited
  CallsOnce
