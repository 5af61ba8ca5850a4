CONSTANTS
  Server = {s1, s2, s3}
  Command = {c1}
  Nil = Nil
  Timers = {s1, s2}
  MaxTerm = 2
  MaxLogLen = 0
  MaxVoteRpcs = 4
  MaxAppendRpcs = 0
  MaxRestarts = 0
  Preemptible = FALSE
  PromptVotes = FALSE
  PersisterSurvives = TRUE
SPECIFICATION Spec
SYMMETRY Symmetry
CHECK_DEADLOCK FALSE
INVARIANTS
  ElectionSafety
