SPECIFICATION SpecLed
CONSTANTS
  Server = {s1, s2}
  Command = {c1, c2}
  Nil = Nil
  RunToCompletion = FALSE
  SnapShotInterval = 1
  MaxTerm = 2
  MaxElections = 2
  MaxIndex = 2
  MaxCalls = 2
  MaxOverlap = 2
  MaxRestarts = 0
INVARIANTS
  ApplyAboveSnapshot
  SnapshotTermInLog
  LogOnDisk
  SnapshotCovers
SYMMETRY Symmetry
CHECK_DEADLOCK FALSE
