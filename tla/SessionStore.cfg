SPECIFICATION Spec
CONSTANTS
  c1 = c1
  c2 = c2
  s1 = s1
  s2 = s2
  q1 = q1
  q2 = q2
  u1 = u1
  u2 = u2
  Caller = {c1, c2}
  Session = {s1, s2}
  Question = {q1, q2}
  User = {u1, u2}
  Tagged = {s1, s2}
  MaxEntries = 1
  NoRow = NoRow
  Nobody = Nobody
SYMMETRY Symmetry
INVARIANTS
  TypeOK
  OneStore
  AnsweredOnceInStore
  EmailHidesClaimed
PROPERTIES
  KeepsRows
CONSTRAINT Explored
