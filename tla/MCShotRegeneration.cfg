SPECIFICATION Spec
CONSTANTS
  s1 = s1
  s2 = s2
  c1 = c1
  c2 = c2
  c3 = c3
  r1 = r1
  r2 = r2
  q1 = q1
  None = None
  Shot = {s1, s2}
  Call = {c1, c2, c3}
  Request = {r1, r2}
  Recovery = {q1}
  RequestOf <- MCRequestOf
  MaxRuns = 2
SYMMETRY MCSymmetry
CHECK_DEADLOCK FALSE
INVARIANTS TypeOK ExecutedByOne ResumedTogether OneAutomaticReplacement RevisionsAccumulateUnlessStale MasterShowsReplacements
