SPECIFICATION SpecLed
CONSTANTS
  Server = {s1, s2, s3}
  Command = {c1}
  Nil = Nil
  RunToCompletion = FALSE
  SnapShotInterval = 0
  MaxTerm = 1
  MaxElections = 1
  MaxIndex = 2
  MaxCalls = 2
  MaxOverlap = 2
  MaxRestarts = 0
INVARIANTS
  CommittedOnMajority
SYMMETRY Symmetry
CHECK_DEADLOCK FALSE
