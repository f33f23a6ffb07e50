SPECIFICATION Spec
CONSTANTS
  r1 = r1
  r2 = r2
  Runs <- TwoRuns
  InitialStates <- Start
  ExposureBudget <- SmallExposureBudget
  FailureBudget <- SmallFailureBudget
  MinimumOutcomes = 1
  MaxRows = 4
SYMMETRY Symmetry
INVARIANTS TypeOK ExposureOvershootBounded ClimbNeedsEvidence ObserverFailsClosed IncidentsDescribeRollback
PROPERTIES ImplementsLedger
