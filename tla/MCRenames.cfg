CONSTANTS
  a1 = a1
  a2 = a2
  n1 = n1
  n2 = n2
  n3 = n3
  s1 = s1
  s2 = s2
  Unnamed = Unnamed
  Agents <- MCAgents
  Names <- MCNames
  Sessions <- MCSessions
  MaxRenames = 3
  MaxTurns = 1
SPECIFICATION Spec
SYMMETRY Interchangeable
INVARIANTS
  TypeOK
CHECK_DEADLOCK FALSE
PROPERTY ImplementsNaming
