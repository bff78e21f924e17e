SPECIFICATION FairSpec
CONSTANTS
  Tasks = {t1, t2}
  MaxRequests = 2
  PoolSize = 1
  MaxChain = 8
CHECK_DEADLOCK FALSE
INVARIANTS
  Inductive
  HonestAnswer
  OutageMeansOutage
  AnswersAreTraceable
PROPERTIES
  RequestsEnd
