SPECIFICATION Spec
CONSTANTS
  w1 = w1
  w2 = w2
  Worker <- MCWorker
  Scenes = 2
  MaxAttempts = 2
  MaxRecoveries = 1
CHECK_DEADLOCK FALSE
SYMMETRY MCSymmetry
INVARIANTS OneWholePackage
