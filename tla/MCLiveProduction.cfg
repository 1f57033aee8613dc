SPECIFICATION Spec
CONSTANTS
  r1 = r1
  r2 = r2
  r3 = r3
  None = None
  MaxAttempts = 3
  Run <- MCRun
  Worker <- MCRun
  WorkerOf <- OwnIds
CHECK_DEADLOCK FALSE
SYMMETRY MCSymmetry
INVARIANTS OnePredictionUnlessStale CompletedIsReviewable
