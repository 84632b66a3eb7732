CONSTANTS
  MaxUtterances = 2
  MaxHurries = 0
  BargeIn = TRUE
  Faults = {"tts"}
SPECIFICATION FairSpec
PROPERTY CutsComplete
CHECK_DEADLOCK FALSE
