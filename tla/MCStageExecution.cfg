SPECIFICATION FairSpec
CONSTANTS
  w1 = w1
  w2 = w2
  i1 = i1
  i2 = i2
  None = None
  N = 3
  MaxAttempts = 3
  Worker <- MCWorker
  Id <- MCId
  IdOf <- OwnIds
CHECK_DEADLOCK FALSE
INVARIANTS CompletedJobIsWhole RunHeldOnce NextStageIsClaimable
PROPERTIES JobEnds ImplementsOrderedPipeline
