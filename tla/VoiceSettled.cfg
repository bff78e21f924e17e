SPECIFICATION FairSpec
CONSTANTS
  Keys = {k1}
  Orgs = {o1}
  Payloads = {p1}
  Workers = {w1, w2}
  Sources = {"PROVIDER_LOOKUP"}
  MaxAttempts = 3
  LateVerdicts = TRUE
INVARIANT
  SecondCallIsAudited
PROPERTY
  DoubtIsSettled
