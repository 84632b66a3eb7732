\* One entry, the boot's world and one apply, two connections per manager,
\* one unwinding held up by its far side.
CONSTANTS
  e1 = e1
  Entries <- MCEntries
  MaxWorlds = 2
  MaxRuns = 2
  MaxStuck = 1
SPECIFICATION FairSpec
INVARIANTS
  TypeOK
  OneConnection
  EndedOrAbandoned
PROPERTY StopsAndStartsEnd
CHECK_DEADLOCK FALSE
