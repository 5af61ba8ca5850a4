CONSTANTS
  Server = {s1, s2, s3}
  Command = {c1}
  Nil = Nil
  Timers = {s1}
  MaxTerm = 2
  MaxLogLen = 2
  MaxVoteRpcs = 2
  MaxAppendRpcs = 2
  MaxRestarts = 1
  Preemptible = FALSE
  PromptVotes = TRUE
  PersisterSurvives = TRUE
  CarefulCaller = TRUE
  Watched = {s3}
  Mortal = {s3}
  MaxCalls = 2
  MaxUnanswered = 2
  MaxLate = 2
SPECIFICATION ReignSpec
CHECK_DEADLOCK FALSE
INVARIANTS
  SnapTypeOK
  AckedUntilForgotten
  StateMachineSafety
  NextIndexInLog
  SnapshotIsApplied
PROPERTIES
  CommitAdvances
  FollowersCatchUp
