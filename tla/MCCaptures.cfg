CONSTANTS
  s1 = s1
  s2 = s2
  Nobody = Nobody
  Sessions <- MCSessions
  Clips <- MCClips
  Budget = 1
  Backlog = 1
  Retries = 1
  MaxLives = 3
  MaxBroken = 1
SPECIFICATION FairSpec
INVARIANTS
  TypeOK
  ClipsAccounted
PROPERTIES
  ImplementsLedger
  StagedEnds
CHECK_DEADLOCK FALSE
