SPECIFICATION Spec
CONSTANTS
  c1 = c1
  c2 = c2
  google = google
  groq = groq
  nvidia = nvidia
  Call = {c1, c2}
  Provider <- MCProvider
  Gemini = google
  Fallbacks <- MCFallbacks
  MaxRetries = 2
  Timeout = 4
  ResponseTime = {3}
  BackoffBase = 1
  RetryAfter = {2}
  NoError = NoError
INVARIANTS
  TypeOK
  FailsOnlyWhenExhausted
  SwitchSticks
  WaitBounded
CONSTRAINT Explored
