SPECIFICATION FairSpec
CONSTANTS
  s1 = s1
  s2 = s2
  Session = {s1, s2}
  Count = 1
  Extra = 1
  MaxQuestions = 2
  MaxKept = 2
  MaxFaults = 1
  MaxSignIns = 1
  Hasty = FALSE
  Guest = Guest
  Member = Member
  NoSession = NoSession
INVARIANTS
  TypeOK
  AnswersMatchQuestions
  AdvanceOnlyRecorded
  RoomRejoined
PROPERTIES
  WaitEnds
CHECK_DEADLOCK FALSE
