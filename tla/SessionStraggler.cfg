SPECIFICATION Spec
CONSTANTS
  a1 = a1
  a2 = a2
  e1 = e1
  f1 = f1
  g1 = g1
  m1 = m1
  Submit = {a1, a2}
  End = {e1}
  Refresh = {f1}
  Guide = {g1}
  Extend = {}
  InitialQuestions = 2
  MaxQuestionId = 2
  MaxTotalQuestions = 2
  MaxExtensions = 0
  AdditionalCount = 1
  QuestionsMultiplier = 1
  QuestionsFloor = 0
  Score = {8}
  Outcome = {"first"}
  Model = {m1}
  ClientWaits = FALSE
  MaxCrashes = 0
  MaxFaults = 0
  NoAuthor = NoAuthor
  NoRow = NoRow
SYMMETRY Symmetry
INVARIANTS
  StaleReportCurrent
PROPERTIES
  GuidanceKeepsEntry
