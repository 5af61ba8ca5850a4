CONSTANTS
  k1 = k1
  a = a
  t1 = t1
  Server <- TwoStubs
  Call <- TwoTries
  NoCall = NoCall
  Request <- PutsAndReads
  InOrder = FALSE
  Plan <- PutThenAgain
  MaxFailures = 1
  kMaxRounds = 1
  MaxLen = 4
  MaxReigns = 2
  MaxBusy = 2
SPECIFICATION ClientSpec
CHECK_DEADLOCK FALSE
INVARIANTS
  AnswersAreFresh
  LastTryIsLast
PROPERTIES
  EveryRequestReturns
