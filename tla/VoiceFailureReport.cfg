SPECIFICATION Spec
CONSTANTS
  Keys = {k1}
  Orgs = {o1}
  Payloads = {p1}
  Workers = {w1, w2}
  Sources = {"OPERATOR"}
  MaxAttempts = 2
  LateVerdicts = FALSE
INVARIANT
  FailureReportAccepted
