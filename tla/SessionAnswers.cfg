SPECIFICATION Spec
CONSTANTS
  a1 = a1
  a2 = a2
  e1 = e1
  m1 = m1
  Submit = {a1, a2}
  End = {e1}
  Refresh = {}
  Guide = {}
  Extend = {}
  InitialQuestions = 2
  MaxQuestionId = 2
  MaxTotalQuestions = 2
  MaxExtensions = 0
  AdditionalCount = 1
  QuestionsMultiplier = 1
  QuestionsFloor = 0
  Score = {8}
  Outcome = {"first", "none"}
  Model = {m1}
  ClientWaits = FALSE
  MaxCrashes = 1
  MaxFaults = 1
  NoAuthor = NoAuthor
  NoRow = NoRow
SYMMETRY Symmetry
INVARIANTS
  TypeOK
  AckedAnswerKept
  AnsweredOnce
  HolderUpToDate
  OnlyAnsweredEvaluated
PROPERTIES
  LogSpec
