\* Two sentences of up to two chunks, two rounds a leg, two calls, two
\* cancellations.
CONSTANTS
  look = look
  switch = switch
  Calls <- MCCalls
  Writes <- MCWrites
  Moves <- MCMoves
  Lookups <- MCLookups
  MaxRounds = 2
  MaxSentences = 2
  MaxChunks = 2
  MaxAsked = 2
  MaxCuts = 2
SPECIFICATION FairSpec
INVARIANTS
  TypeOK
  HeardKeptOnce
  CallsAccounted
  ToldWhenNothingHeard
PROPERTY ReplyEnds
CHECK_DEADLOCK FALSE
