SPECIFICATION FairSpec
CONSTANTS
  c1 = c1
  c2 = c2
  c3 = c3
  r1 = r1
  r2 = r2
  None = None
  MaxAttempts = 2
  Call <- MCCall
  Reconciler <- MCReconciler
CHECK_DEADLOCK FALSE
INVARIANTS OneCopyUnlessBlindOrLate
PROPERTY AttemptEndsUnlessCrash
