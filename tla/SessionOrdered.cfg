SPECIFICATION Spec
CONSTANTS
  a1 = a1
  a2 = a2
  e1 = e1
  e2 = e2
  m1 = m1
  x1 = x1
  Submit = {a1, a2}
  End = {e1, e2}
  Refresh = {}
  Guide = {}
  Extend = {x1}
  InitialQuestions = 2
  MaxQuestionId = 3
  MaxTotalQuestions = 4
  MaxExtensions = 1
  AdditionalCount = 2
  QuestionsMultiplier = 1
  QuestionsFloor = 0
  Score = {3, 8}
  Outcome = {"first"}
  Model = {m1}
  ClientWaits = TRUE
  MaxCrashes = 1
  MaxFaults = 1
  NoAuthor = NoAuthor
  NoRow = NoRow
SYMMETRY Symmetry
INVARIANTS
  ScoreKeptCurrent
  NoGapInReport
  CountsMatch
PROPERTIES
  ScoredStaysScored
  PlaceholderOnlyForOrphans
