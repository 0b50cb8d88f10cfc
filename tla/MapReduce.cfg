SPECIFICATION ProgressSpec
CONSTANTS
  Worker = {w1, w2}
  Nfile = 2
  nReduce = 2
  Emits <- MCEmits
  Nil = Nil
  MaxCrashes = 2
  MaxMisjudged = 1
INVARIANTS
  TypeOK
  OutputCorrect
  CountersExact
  IntermediatesExist
  NobodySleepsOverWork
PROPERTIES
  ExitIsFinal
  JobEnds
CHECK_DEADLOCK FALSE
