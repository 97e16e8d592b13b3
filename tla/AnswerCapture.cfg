SPECIFICATION FairSpec
CONSTANTS
  MaxQuestions = 2
  MaxTakes = 3
  MaxHeard = 1
  SlowPrompt = FALSE
  Chain <- MCChain
  Groq = "groq"
INVARIANTS
  TypeOK
  WordsOfThisQuestion
  AudioOfThisQuestion
  MicReleased
PROPERTIES
  ContinueKeepsText
  TakeHeard
CHECK_DEADLOCK FALSE
