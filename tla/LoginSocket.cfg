SPECIFICATION Spec
CONSTANTS
  s1 = s1
  s2 = s2
  Session = {s1, s2}
  Count = 1
  Extra = 1
  MaxQuestions = 2
  MaxKept = 2
  MaxFaults = 0
  MaxSignIns = 1
  Hasty = FALSE
  Guest = Guest
  Member = Member
  NoSession = NoSession
INVARIANT
  OwnAnswersAllowed
CHECK_DEADLOCK FALSE
