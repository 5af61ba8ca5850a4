CONSTANTS
  Server = {s1, s2, s3}
  Command = {c1}
  Nil = Nil
  Timers = {s1, s2}
  MaxTerm = 3
  MaxLogLen = 2
  MaxVoteRpcs = 2
  MaxAppendRpcs = 1
  MaxRestarts = 0
  Preemptible = FALSE
  PromptVotes = TRUE
  PersisterSurvives = TRUE
SPECIFICATION Spec
SYMMETRY Symmetry
VIEW LiveState
CHECK_DEADLOCK FALSE
INVARIANTS
  LogMatching
  NextIndexInLog
  AppliesOwnLog
  LeaderCompleteness
  ElectableHasApplied
PROPERTIES
  LeaderAppends
  KeepsPromise
