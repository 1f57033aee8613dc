CONSTANTS
  s1 = s1
  s2 = s2
  i1 = i1
  t1 = t1
  t2 = t2
  b1 = b1
  b2 = b2
  Session <- MCSession
  Input <- MCInput
  Text <- MCText
  Board <- MCBoard
  MaxRevisions = 3
  MaxKeyframes = 2
  MaxFlows = 2
  MaxPilots = 2
  None = None
SPECIFICATION Spec
SYMMETRY MCSymmetry
INVARIANTS TypeOK ScheduledOnce GateIsCoherentUnlessDisturbed
PROPERTY StartedAsApprovedUnlessDisturbed
CONSTRAINT MCBound
CHECK_DEADLOCK FALSE
