CONSTANTS
  s1 = s1
  s2 = s2
  c1 = c1
  t1 = t1
  t2 = t2
  t3 = t3
  Sessions <- MCSessions
  Threads <- MCThreads
  Turns <- MCTurns
  SessionOf <- MCSessionOf
  ThreadOf <- MCThreadOf
  MintedBy <- MCMintedBy
  MaxInFlight = 1
  MaxAttempts = 2
  Faults = {"write", "events", "late"}
  MaxRecording = 1
  MaxQueue = 2
  MaxEvents = 1
  MaxErasures = 1
  MaxCrashes = 1
SPECIFICATION Spec
INVARIANT DeletedForEver
CHECK_DEADLOCK FALSE
