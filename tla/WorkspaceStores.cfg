SPECIFICATION StoresSpec
CONSTANTS
  \* RepositoryRegistry
  RegistryWriters = {p1, p2}
  NPaths = 2
  NRemotes = 1
  DeepPaths = {2}
  LegacyRoots = {9}
  ReviewedEdges <- MCEdges
  MaxRoots = 3
  MaxPrimary = 1
  MaxExpansions = 1
  MaxCommands = 2
  MaxOutside = 1
  \* MemoryStore
  MemoryUsers = {p1, p2}
  MemoryIds = {m1, m2}
  MaxContent = 1
  \* TraceStore
  TraceRuns = {p1, p2}
  MaxTraceFiles = 1
  OldTraces = 2
  \* RunJournal
  Tracers = {g1}
  Persisters = {g2}
  RunIds = {j1}
  MaxVersion = 1
  Changing = {"other"}
  MaxDiffering = 1
  EventKinds <- MCEventKinds
  \* WorkspaceIndex
  Indexers = {p1, p2}
  MaxFileContent = 2
  MaxEdits = 1
  \* CodeGraph
  p1 = p1
  p2 = p2
  s1 = s1
  s2 = s2
  rA = rA
  rB = rB
  Syncs = {s1, s2}
  Trees = {rA, rB}
  Edited = {rA}
  Managed <- MCManaged
  MaxTree = 2
  \* ScipIndex
  ScipSyncs = {p1, p2}
  MaxSource = 1
  MaxChanges = 2
  \* PolicyGovernance
  RowShapes <- MCRowShapes
  MaxRows = 4
  MaxTime = 2
  MinDirect = 1
  MinHoldout = 1
  MaxWeight = 2
  \* ReleaseAuthorization
  Expected = "sha"
  Other = "other"
  Workflows <- MCWorkflows
  MaxRemoteMoves = 3
SYMMETRY SameProcesses
CHECK_DEADLOCK FALSE
INVARIANTS
   GovernanceSafety ReleaseSafety
PROPERTIES
  RecordsSafety JournalSafety 
