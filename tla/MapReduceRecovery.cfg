SPECIFICATION FairSpec
CONSTANTS
  Worker = {w1, w2}
  Nfile = 2
  nReduce = 2
  Emits <- MCEmits
  Nil = Nil
  MaxCrashes = 1
  MaxMisjudged = 1
PROPERTIES
  CrashesRecovered
CHECK_DEADLOCK FALSE
