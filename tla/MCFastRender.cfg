SPECIFICATION Spec
CONSTANTS
  c1 = c1
  c2 = c2
  c3 = c3
  w1 = w1
  w2 = w2
  None = None
  Call <- MCCall
  Worker <- MCWorker
  WorkerOf <- MCWorkerOf
CHECK_DEADLOCK FALSE
INVARIANTS OneTaskUnlessReset ReviewedIsStored
PROPERTY ImplementsPromise
