SPECIFICATION Spec
CONSTANTS
  Definitions = {d1}
  Authors = {u1}
  Callers = {c1}
  Sessions = {s1}
  MaxTime = 2
  MaxExecutions = 1
CHECK_DEADLOCK FALSE
PROPERTIES
  RetryIsReplayed
