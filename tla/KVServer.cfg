SPECIFICATION FairSpec
CONSTANTS
  Caller = {k1, k2}
  Clerk = {k1, k2}
  Endname = {k1, k2}
  Servername = {n}
  Instance = {srv}
  Nil = Nil
  Key = {x}
  Piece = {a}
  MaxOps = 2
INVARIANTS
  CacheBounded
  KVInv
PROPERTIES
  Linearizable
  OperationsReturn
CHECK_DEADLOCK FALSE
