CONSTANTS
  MaxUtterances = 3
  MaxHurries = 1
  BargeIn = TRUE
  Faults = {"asr", "llm", "midspeech", "tts"}
SPECIFICATION FairSpec
INVARIANTS
  TypeOK
  SentenceKept
  OneVoice
  NothingOutlivesItsReply
  RepliesClose
  HeldOnlyWhileConfirming
PROPERTIES
  ImplementsFloor
  WaitsEnd
CHECK_DEADLOCK FALSE
