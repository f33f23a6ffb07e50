SPECIFICATION FairSpec
CONSTANTS
  r1 = r1
  r2 = r2
  Runs <- TwoRuns
  InitialStates <- StartCanary
  ExposureBudget <- SmallExposureBudget
  FailureBudget <- SmallFailureBudget
  MinimumOutcomes = 1
  MaxRows = 2
PROPERTIES ExhaustionIsNoticed
