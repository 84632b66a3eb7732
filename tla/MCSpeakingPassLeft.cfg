CONSTANTS
  look = look
  switch = switch
  Calls <- MCCalls
  Writes <- MCWrites
  Moves <- MCMoves
  Lookups <- MCLookups
  MaxRounds = 1
  MaxSentences = 2
  MaxChunks = 2
  MaxAsked = 1
  MaxCuts = 1
SPECIFICATION Spec
INVARIANT NothingOutlivesTheReply
CHECK_DEADLOCK FALSE
