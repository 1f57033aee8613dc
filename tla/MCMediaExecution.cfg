SPECIFICATION FairSpec
CONSTANTS
  c1 = c1
  c2 = c2
  c3 = c3
  w1 = w1
  w2 = w2
  None = None
  Torn = Torn
  Call <- MCCall
  Worker <- MCWorker
  WorkerOf <- MCWorkerOf
CHECK_DEADLOCK FALSE
INVARIANTS BoundaryBeforePayment OnePaymentUntilReset SucceededIsServable
PROPERTIES ImplementsImmutableArtifact ClaimReleasedUnlessCrash
