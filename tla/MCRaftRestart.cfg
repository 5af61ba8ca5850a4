CONSTANTS
  Server = {s1, s2, s3}
  Command = {c1}
  Nil = Nil
  Timers = {s1, s2}
  MaxTerm = 2
  MaxLogLen = 1
  MaxVoteRpcs = 2
  MaxAppendRpcs = 1
  MaxRestarts = 1
  Preemptible = FALSE
  PromptVotes = TRUE
  PersisterSurvives = TRUE
SPECIFICATION Spec
SYMMETRY Symmetry
CHECK_DEADLOCK FALSE
INVARIANTS
  TypeOK
  ElectionSafety
  OneVotePerTerm
  StateMachineSafety
  AppliedIsDurable
  AckedEntriesAreStored
