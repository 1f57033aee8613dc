CONSTANTS
  c1 = c1
  c2 = c2
  p1 = p1
  p2 = p2
  Call <- MCCall
  Plan <- MCPlan
  ByHand = TRUE
  MaxFlows = 2
  MaxPreflights = 2
  MaxAttempts = 2
  MaxRevisions = 3
  MaxCrashes = 1
SPECIFICATION Spec
SYMMETRY MCSymmetry
INVARIANTS TypeOK PaidOnce NewestPassed PilotShowsLookUnlessOvertaken
CHECK_DEADLOCK FALSE
