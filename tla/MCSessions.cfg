CONSTANTS
  s1 = s1
  s2 = s2
  Conversations <- MCConversations
  MaxSessions = 1
  WithTools <- OneOfThem
  Hurried <- OneOfThem
SPECIFICATION FairSpec
INVARIANTS
  TypeOK
  SlotPerConversation
  NothingBehindTheRecord
  CauseNamedFirst
PROPERTIES
  ImplementsLifetime
  DecidedEnds
CHECK_DEADLOCK FALSE
