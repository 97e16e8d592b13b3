SPECIFICATION Spec
CONSTANTS
  MaxQuestions = 1
  MaxTakes = 2
  MaxHeard = 1
  SlowPrompt = FALSE
  Chain <- MCChain
  Groq = "groq"
INVARIANT
  ContinuedAudioWhole
CHECK_DEADLOCK FALSE
