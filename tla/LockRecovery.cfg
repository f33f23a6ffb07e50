SPECIFICATION Spec
CONSTANTS
  p1 = p1
  p2 = p2
  p3 = p3
  h1 = h1
  h2 = h2
  None = None
  Procs <- ThreeProcs
  HostOf <- OneHost3
  Posix = TRUE
  Reports <- SampleReports
  InitialStates <- StartCanary
  PromptHolders = FALSE
  MaxCrashes = 1
  MaxFaults = 0
SYMMETRY SymmetryOneHost
INVARIANTS HistoryIntact
PROPERTIES LedgerUnlessRobbed FirstRobbery
