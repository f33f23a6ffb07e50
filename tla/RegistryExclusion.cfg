SPECIFICATION RegistrySpec
CONSTANTS
  RegistryWriters = {w1, w2}
  NPaths = 2
  NRemotes = 1
  DeepPaths = {2}
  LegacyRoots = {9}
  ReviewedEdges <- MCEdges
  MaxRoots = 3
  MaxPrimary = 1
  MaxExpansions = 1
  MaxCommands = 3
  MaxOutside = 0
CHECK_DEADLOCK FALSE
INVARIANTS ExclusionStands
