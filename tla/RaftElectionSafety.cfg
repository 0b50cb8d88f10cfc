SPECIFICATION Spec
CONSTANTS
  Server = {s1, s2, s3}
  Command = {c1}
  Nil = Nil
  RunToCompletion = FALSE
  SnapShotInterval = 0
  MaxTerm = 2
  MaxElections = 2
  MaxIndex = 0
  MaxCalls = 1
  MaxOverlap = 1
  MaxRestarts = 0
INVARIANTS
  ElectionSafety
SYMMETRY Symmetry
CHECK_DEADLOCK FALSE
