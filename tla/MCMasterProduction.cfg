SPECIFICATION Spec
CONSTANTS
  r1 = r1
  r2 = r2
  None = None
  Run <- MCRun
  Durations <- MCDurations
  Inputs <- MCInputs
CHECK_DEADLOCK FALSE
SYMMETRY MCSymmetry
INVARIANTS RefusedOnlyUncompared VideoIsWholeUnlessMasked OneConclusionUnlessInterrupted
