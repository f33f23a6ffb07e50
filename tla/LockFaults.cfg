SPECIFICATION FairSpec
CONSTANTS
  p1 = p1
  p2 = p2
  p3 = p3
  h1 = h1
  h2 = h2
  None = None
  Procs <- TwoProcs
  HostOf <- TwoHosts2
  Posix = TRUE
  Reports <- CanaryReports
  InitialStates <- StartAtTheEnds
  PromptHolders = FALSE
  MaxCrashes = 1
  MaxFaults = 1
INVARIANTS TypeOK
PROPERTIES FaultSafety NeverLockedForGood
