SPECIFICATION PathSpec
CONSTANTS
  \* CapabilityGate
  Repos = {"repoA", "repoB"}
  TaskBudgets <- MCBudgets
  MaxChanged = 4
  MaxRoots = 3
  MaxNesting = 1
  MaxEntries = 2
  \* RetrievalPipeline
  NBase = 3
  NSpecialists = 1
  MaxConcurrency = 2
  \* ContextGathering
  Evidence <- MCEvidence
  Budgets = {2, 6}
  Shares <- MCShares
  MinSearch = 1
  \* StructuralEvidence
  Related <- MCRelated
  Named <- MCNamed
  Limits = {1, 2, 4}
  MaxTreeEdits = 1
  \* ContextSelection
  EvidencePool <- MCEvidencePool
  MaxGathered = 4
  QueryTerms = {"q1", "q2"}
  Plans <- MCPlans
  Routes <- MCRoutes
  ContextChars = {4, 10}
  MinimumChars = 3
  CharsPerToken = 2
  CandidateLimits = {1, 3}
  \* ProviderAdmission
  MaxCap = 2
  MaxContent = 2
  \* ProviderRunner
  Limit = 3
  Chunk = 2
  MaxWritten = 5
  SmallRequest = FALSE
  \* AsyncProvider
  OutLimit = 1
  MaxSent = 2
  FitsPipe = FALSE
  MaxCancels = 2
  \* ProviderPayload
  RecordPool <- MCRecords
  MaxRecords = 2
  MaxNest = 3
  PayloadLimits = {0, 1, 2}
  ProviderTrust = "registered"
CHECK_DEADLOCK FALSE
INVARIANTS
  GateSafety PipelineSafety GatheringSafety EvidenceSafety AdmissionSafety  PayloadSafety
  TypeOK TimeoutEndsTree ParsedIsComplete
PROPERTIES
   CallsReturn
