SPECIFICATION Spec
CONSTANTS
  c1 = c1
  c2 = c2
  c3 = c3
  c4 = c4
  HistoryLimit = 2
  Call <- MCCall
CHECK_DEADLOCK FALSE
SYMMETRY MCSymmetry
INVARIANTS OnePassUnlessOutdated PaidAsQuotedUnlessOutdated LastWordUnlessOutdated RunningIsAttended CompletedIsWhole
