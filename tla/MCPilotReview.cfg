CONSTANTS
  c1 = c1
  c2 = c2
  p1 = p1
  p2 = p2
  Call <- MCCall
  Plan <- MCPlan
  ByHand = FALSE
  MaxFlows = 1
  MaxPreflights = 1
  MaxAttempts = 1
  MaxRevisions = 2
  MaxCrashes = 0
SPECIFICATION Spec
SYMMETRY MCSymmetry
INVARIANT PilotReachesReview
CHECK_DEADLOCK FALSE
