CONSTANTS
  e1 = e1
  Entries <- MCEntries
  MaxWorlds = 2
  MaxRuns = 2
  MaxStuck = 1
SPECIFICATION Spec
INVARIANT NothingLeftRunning
CHECK_DEADLOCK FALSE
