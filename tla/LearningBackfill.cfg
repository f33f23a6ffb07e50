SPECIFICATION FairSpec
CONSTANTS
  r1 = r1
  r2 = r2
  w1 = w1
  w2 = w2
  None = None
  Runs <- OneRun
  Recorders <- OneRecorder
  MaxFaults = 2
  MaxLosses = 0
INVARIANTS TypeOK
PROPERTIES EventuallyBackfilled
