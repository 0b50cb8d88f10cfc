SPECIFICATION SpecRestarted
CONSTANTS
  Server = {s1, s2, s3}
  Command = {c1}
  Nil = Nil
  RunToCompletion = TRUE
  SnapShotInterval = 3
  MaxTerm = 2
  MaxElections = 2
  MaxIndex = 5
  MaxCalls = 1
  MaxOverlap = 1
  MaxRestarts = 1
INVARIANTS
  ApplyAboveSnapshot
  AppliedInOrder
SYMMETRY Symmetry
CHECK_DEADLOCK FALSE
