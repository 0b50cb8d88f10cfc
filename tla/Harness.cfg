SPECIFICATION FairSpec
CONSTANTS
  n = 3
  Clerk = {ck}
  MaxGen = 1
  MaxFaults = 3
  MaxCalls = 1
  Servername <- MCServer
  Instance <- MCInstance
  Caller <- MCCaller
  Endname <- MCEndname
  Nil = Nil
  Group <- MCGroup
INVARIANTS
  TypeOK
  AckedPersisted
  OldInstanceDisabled
  PartitionIsolates
PROPERTIES
  CallNotStuck
CHECK_DEADLOCK FALSE
