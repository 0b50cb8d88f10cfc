SPECIFICATION FairSpec
CONSTANTS
  History <- MCHistory
INVARIANTS
  VerdictRight
  PartialsLongest
  ListIntact
PROPERTIES
  Terminates
CHECK_DEADLOCK FALSE
