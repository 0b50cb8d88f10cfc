SPECIFICATION SpecDiverged
CONSTANTS
  Server = {s1, s2, s3}
  Command = {c1}
  Nil = Nil
  RunToCompletion = TRUE
  SnapShotInterval = 0
  MaxTerm = 4
  MaxElections = 4
  MaxIndex = 2
  MaxCalls = 1
  MaxOverlap = 1
  MaxRestarts = 0
INVARIANTS
  LogMatching
  MatchIndexSound
  CommittedOnMajority
  LeaderCompleteness
  StateMachineSafety
PROPERTIES
  LeaderAppendOnly
SYMMETRY Symmetry
CHECK_DEADLOCK FALSE
