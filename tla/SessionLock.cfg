SPECIFICATION FairSpec
CONSTANTS
  o1 = o1
  o2 = o2
  o3 = o3
  o4 = o4
  s1 = s1
  s2 = s2
  NoOp = NoOp
  Op <- MCOp
  Session <- MCSession
  SessionOf <- MCSessionOf
INVARIANTS
  TypeOK
  OneInFlight
  InCallOrder
  EntryDropped
PROPERTIES
  ExecutorFairSpec
