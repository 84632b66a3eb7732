CONSTANTS
  llm = llm
  tts = tts
  s1 = s1
  s2 = s2
  Entries <- MCEntries
  Sessions <- MCSessions
  MaxWorlds = 3
  MaxRenames = 1
  MaxDisposals = 2
SPECIFICATION Spec
SYMMETRY Interchangeable
INVARIANTS
  TypeOK
  EnginesOpen
  NothingLeaked
  WatermarkExact
  DiffOfOneWorld
CHECK_DEADLOCK FALSE
