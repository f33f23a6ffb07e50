SPECIFICATION Spec
CONSTANTS
  r1 = r1
  r2 = r2
  w1 = w1
  w2 = w2
  None = None
  Runs <- OneRun
  Recorders <- TwoRecorders
  MaxFaults = 0
  MaxLosses = 1
SYMMETRY Symmetry
INVARIANTS SameEvidence
