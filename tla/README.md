# TLA+ models of the AI workflow control plane

This directory holds the formal models kept beside `src/ai_workflow`: TLA+
modules, the TLC configurations that check them on small instances, and proofs
checked by TLAPS. `PROJECT.json` lists the components, the runs, the mutants,
the source lines behind every definition, the hazards, the findings and the
theorems.

## 1. The system

`ai_workflow` gathers context for coding agents. One request is one call of
`WorkflowEngine.gather`, in a process of its own; several processes share one
workspace directory, and there is no server. All coordination goes through
files, lock directories and SQLite databases. The parts, the state each keeps
and what it does to it:

| part | state | operations | what makes it correct |
|---|---|---|---|
| deployment state (`deployment_state.py`) | signed state file, lock directory, audit events | create, transition, recover a stale lock | one writer at a time; the ladder is climbed rung by rung; a rollback is final; a crash does not lock the rollout |
| deployment runtime (`deployment_runtime.py`, `deployment_guardrails.py`, `deployment_incident.py`, `commands/deployment.py`) | the state file, candidate rows of the learning log, reports, incident bundles | assign an arm, evaluate guardrails, roll back, promote | bounded exposure, evidence for each promotion, the observer of a failure fails closed |
| learning records (`retrieval_learning.py`) | immutable decision, observation and outcome files | choose, fall back, publish, record an outcome | no unlogged exploration, one outcome per decision, records join |
| production store (`production_store.py`) | append-only SQLite events | mirror, sync, reconcile | the mirror never contradicts the files and can be completed later |
| file publication (`io_utils.py`) | files and directory entries | atomic replace, create-once | readers see whole files; what was acknowledged survives a power loss |
| workflow engine (`workflow_engine.py`) | one run's trace and diagnostics | route, retrieve, check sufficiency, escalate, select, journal | every stage ends by the global deadline and a failing provider is isolated |
| scheduler (`retrieval_scheduler.py`) | executor, futures, outcomes | run calls with a deadline | one outcome per call in input order, by the deadline |
| provider runner (`provider_runner.py`, sandbox, registry) | child process, reader threads, buffers | launch, exchange, kill, parse | bounded output and time, no process left behind, one verdict |
| asyncio provider runner (`run_command_provider_async`) | child process, exchange and reader tasks | exchange, time out, be cancelled, unwind | no process, task or directory survives a timeout or a cancellation |
| provider answers (`_parse_records`, `_context_items`, `path_policy.py`) | none | parse, validate, label, cut | all or nothing; labels are the code's |
| provider registry and sandbox | the registry file, a cached probe | resolve, verify, plan, launch | a project only tightens; what runs is what is pinned |
| run journal and provenance (`run_journal.py`, `provenance.py`) | hash-chained journals, run files | write, create once, verify, replay | tampering is noticed; a compatible replay means the same inputs |
| repository registry (`repository_registry.py`, `multi_repo_retrieval.py`) | `repositories.json` under a file lock | refresh, include, exclude, plan a search | no decision of an operator is lost; what is excluded is not searched |
| memory (`memory.py`, `memory_store.py`) | SQLite rows | add, search, prune, import, export | no acknowledged memory is lost |
| telemetry (`telemetry.py`) | trace files with retention | write, publish, prune | a returned trace exists; the cap holds |
| capability gate and orchestration | the contract and policy of a task | classify, contract, authorize | budgets are conserved; an allowed action stays in scope |
| context gathering and structural evidence (`context_broker.py`, `structural_validation.py`) | two threads, the items of a call | join, cap, ask the graph, validate | evidence is of the tree the call saw and validated |
| context selection (`context_selection.py`, `retrieval_policy.py`, `selective_retrieval.py`) | candidates, a lazy queue | rank, bound, select, judge | budgets hold; the lazy selection is the greedy one; sufficient as selected |
| indexing (`indexer.py`) | symbol, endpoint and state files | full, incremental, strict run | a row called fresh is of the file as it is |
| code graph and SCIP (`code_review_graph.py`, `scip.py`) | a database or index with a manifest each | sync, status, query | what is called ready is of the tree it names |
| policy evaluation (`contextual_policy.py`, `policy_manifest.py`, `shadow_policy.py`) | learning records, signed manifests | report, sign, verify, evaluate | a policy is judged by evidence it was not fitted on |
| release authorization (`scripts/verify_release_authorization.py`) | none; reads the remote twice | fetch, evaluate | a draft is of an authorized commit |
| retrieval cache (`retrieval_cache.py`) | JSON files | get, put | used by nothing outside the tests |
| benchmarks, reports, CLI, configuration | reports | compute | offline |

Interactions: `gather` calls `resolve_runtime_deployment` (reads the state file
without the lock and the learning log; may roll back through the lock), then
`prepare_learning_decision` (publishes the decision before retrieval), then the
scheduler and the providers, then `write_learning_observation`, the trace and
the journal. The command line promotes, rolls back, records verified outcomes,
syncs and reconciles, at any time and from any process. The guardrails join
decisions with outcomes that arrive arbitrarily later.

What is hard in it: check-then-act on directories and files by several
processes; leases that run out under a live holder; crashes and I/O errors
between the steps of a publication; power loss before a directory is flushed;
decisions taken on a state or a report that is out of date when used; budgets
checked before they are consumed; threads and child processes that outlive
their deadline; indexes and fingerprints taken of a tree that is being edited;
several files that are replaced one by one; a cancellation that meets a
cancellation. `PROJECT.json` lists these hazards at their lines.

## 2. Modules

```
DeploymentLedger            abstract rollout: the ladder, its history, one step per call
 ├─ DeploymentStateLock     the lock protocol of deployment_state.py, implements the ledger
 │    ├─ MCDeploymentStateLock       (Lock*.cfg)
 │    └─ DeploymentStateLockProofs
 └─ DeploymentRuntime       runs, guardrails, rollbacks, operator; implements the ledger
      ├─ MCDeploymentRuntime         (Runtime*.cfg)
      └─ DeploymentRuntimeProofs
LearningRecords             decision, observation and outcome files and their SQLite mirror
      ├─ MCLearningRecords           (Learning*.cfg)
      └─ LearningRecordsProofs
ProviderRunner              one blocking call of a command provider
      └─ MCProviderRunner            (ProviderTimeout.cfg)

MCGatherPath (GatherPath.cfg): what one gather call passes through
      CapabilityGate         task, contract, policy, verdict on an action
      RetrievalPipeline      the retrieval stages of gather over the bounded scheduler
      ContextGathering       the base evidence of one repository
      StructuralEvidence     the code graph asked and validated
      ContextSelection       ranking, selection, sufficiency
      ProviderAdmission      registry, project, executable, sandbox
      ProviderRunner, AsyncProvider    the two process runners
      ProviderPayload        the reading of an answer

MCWorkspaceStores (WorkspaceStores.cfg): what outlives a run
      RepositoryRegistry     (MCRepositoryRegistry, RegistryExclusion.cfg)
      WorkspaceRecords       MemoryStore, TraceStore
      WorkspaceIndexes       WorkspaceIndex, CodeGraph, ScipIndex
      RunJournal
      PolicyGovernance, ReleaseAuthorization

Proofs about the components of the two
      GatherPathProofs         CapabilityGate, RetrievalPipeline, ContextGathering,
                               ContextSelection, StructuralEvidence
      ProviderCallProofs       ProviderRunner, AsyncProvider, ProviderAdmission, ProviderPayload
      RepositoryRegistryProofs RepositoryRegistry
      WorkspaceRecordsProofs   WorkspaceRecords, PolicyGovernance, ReleaseAuthorization,
                               RunJournal
      WorkspaceIndexesProofs   WorkspaceIndexes
```

MCGatherPath and MCWorkspaceStores put components side by side: a variable
`part` names the one that runs in a behaviour, the others stay where they start,
and TLC explores the sum of the state spaces, not their product. They compose
nothing; what one component hands to another is an input there, chosen from all
the values the other can produce.

### DeploymentLedger

The abstract specification of what the state file promises. A rollout is a
stage, a generation and a history; `Advance` is what
`transition_deployment_state` signs, `MayFollow` its ladder, `HistoryReplays`
says that the signed history is a run of that ladder. Signatures are left out:
every caller refuses a state that does not verify, so only verified states
reach the guards.

### DeploymentStateLock

One element of `Procs` is one operating-system process performing calls of
`update_deployment_state_file` or `write_new_deployment_state`. Its program
counter walks through the code one file-system operation at a time: `Mkdir`
(both attempts), `StatLock`, `ProbeOwner` and `RenameLock`
(`_recover_stale_lock`), `WriteOwner`, the body (`LoadForUpdate` or
`LoadForCreate`, `WriteState`, `WriteAuditEvent`), `CheckToken`, and the two
steps of the `rmtree` of the release (`UnlinkOwner`, `RemoveLock`). Every
operation may raise, and a process may crash anywhere. `lock` records who made
the directory, whose `owner.json` is in it and whether its lease is over;
`LeaseExpires` is the passing of time. `PromptHolders` is an assumption on the
environment: holders finish within their lease. The run of the finding makes it,
the others do not.

`robbed` and `judged` are history variables: whose directory was taken away
while in use, and whose reading of the lock's age still describes the
directory at the path. No action reads them.

Abstracted: pid reuse; the token of a call is its process; a rename target is
deleted at a private path where nobody else looks.

### DeploymentRuntime

Composes gather runs, the learning log, the guardrails and the operator over
one state file. A run is `LoadState`, `EvaluateGuardrails`, then either
`AutoRollback` / `AutoRollbackFails` or `Assign`, `LogDecision` and retrieval.
The log is kept as the counters `evaluate_live_guardrails` computes: candidate
rows, verified outcomes and failures of generation g or earlier. The two
budgets of exposures and failures are computed; every other rollback blocker
(failure rate, confidence sequences, drift, cost, malformed rows) is a
nondeterministic choice made at each evaluation, so that the properties hold
whatever the statistics say. The state file is updated in one step, which is
what `LedgerUnlessRobbed` of DeploymentStateLock justifies, and
`AutoRollbackFails` covers a lock that is held. `auto_rollback` is on, its
default. The rows that mirror state changes and incidents to the production
store are not part of this model.

### LearningRecords

A gather run chooses an arm, publishes the decision, retrieves and publishes
the observation; a recorder publishes the outcome of a decision that is
readable. Publishing is `Publish` (the hard link of `atomic_create_text`),
`Flush` (`fsync_directory`) and `Mirror` (`append_production_event`), each of
which may raise: what then happens is `Raise`, the error handling of
`prepare_learning_decision` with `baseline_fallback`. `PowerLoss` keeps the
SQLite rows (`synchronous=FULL`) and drops any set of directory entries that
were not flushed. The operator's sync and reconcile visit the three directories
one by one, one record at a time, while writers go on.

### RetrievalPipeline

The stages of `gather_detailed_async` (base retrieval of every root,
specialists, the two structural expansions), each a batch of
`BoundedRetrievalScheduler.run` with a thread pool of its own. The event loop
submits, completes and times out (`Submit`, `Complete`, `TimeOut`), the pool
starts calls in the order of their submission and ends them at any time or
never (`StartCall`, `CallEnds`), `Collect` is the return of `asyncio.gather`
with the shutdown of the pool and the loop over the outcomes, and `NextStage`
checks the time left. Which specialists and expansions a stage has depends on
sufficiency, configuration and anchors, and is any subset. `Cancel` is the
cancellation of the caller. Labels are the numbers of the calls, so that two
roots of one base name, whose labels coincide in the code, are not modelled.

### ProviderRunner

`run_command_provider` with its caller, the two reader threads, the provider
and one descendant that keeps any set of the provider's pipes open. The
outcome of each `wait`, `join` and `read` is decided by the order of steps;
timeouts may happen at any time. `_terminate_provider_tree` is the POSIX branch
with a successful `killpg`: the descendant stays in the process group. The pipe
of stdout carries units of data, stderr none; `close` waits for a read in
progress, as CPython's buffered streams do.

### AsyncProvider

`run_command_provider_async`: the caller, the exchange task and its two reader
tasks interleave at their awaits, the provider and a descendant at any time.
`CancelWaiting` is a cancellation of the caller at its first await (the exchange
is shielded), `CancelAgain` one that arrives during the cleanup. The events a
loop delivers late (the exit of the child, data at the end of a pipe) are steps
of their own.

### ProviderPayload

`_result_from_bytes`: the text as one of the three forms the protocol has, the
nesting and count limits where each form checks them, then one record per step,
then the sort and the cut. A record is what the checks tell apart. Metadata is a
function, merged in the order of the code.

### ProviderAdmission

One call of a provider from the project's specification to the launch: the
registry entry that is looked up, the caps that only tighten, the executable
resolved, hashed and hashed again, the sandbox plan on a backend whose probe is
cached for the process. Between the steps the executable is replaced and the
backend comes and goes.

### CapabilityGate

Classification, the orchestration contract, the capability policy made of it
and the verdict on one request, as the code's decision tables over the signals
they look at. Parameter trees are entries with a nesting level.

### ContextGathering, StructuralEvidence, ContextSelection

Gathering joins tests, hot cache, the two threads and the source search, each
capped by its share and the rest of the budget (`Capped`), and a thread may
raise. StructuralEvidence is one `crg_context` call: each pattern is a check of
the graph's freshness, the question, and at the end the validation against the
sources and the SCIP index, while the tree is edited and both indexes rebuilt.
ContextSelection follows the ranked candidates through the bound, the mandatory
items, the lazy greedy queue and the verdict. Scores, gains and costs are
integers; a gain covers query terms.

### RepositoryRegistry

Registry commands hold the sidecar lock from `LockRegistry` to the rename in
`RefreshRegistry` or `SetIncluded`; setup looks without it (`FindNoRegistry`,
`CreateEmpty`). Checkouts appear, move and disappear, git may be too slow to
name a remote, and the file may be edited by hand. A search reads the registry
three times without the lock (`StartSearch`, `ReadIdentities`, `PlanSearch`).

### MemoryStore, TraceStore

One SQLite transaction, one file operation is one step. Prune is a list, the
judging of each record and a `replace_all`; a trace is a temporary file, a
rename, a glob, a stat of each file and the removals.

### RunJournal

What a gather reads of the workspace for its journal, facet by facet while the
workspace changes, the chain of events with their digests, the create-once run
file, arbitrary edits of stored journals (recomputed hashes included, without
the contract of the events), and `verify` and `replay`. A digest is the value
it is taken of.

### WorkspaceIndex, CodeGraph, ScipIndex

An index run seen through one source file: its hash, its stamps, its parse, and
the three files replaced one by one, by two indexers. Syncs of the code graph
and of SCIP as the steps between which the tree, another sync or a crash can
come. What a fingerprint cannot see, an edit between the external tool's reading
and the fingerprint, is excused in `ReadyGraphIsCurrent` and `ReadyIndexIsWhole`.

### PolicyGovernance, ReleaseAuthorization

Records arrive, some stamped earlier than ones before them; a report fits a
policy on the development half, a manifest freezes it with a cutoff, and a
shadow evaluation uses what is newer. Estimates and bounds clear their margins
as they like. The release gate fetches the branch, the tag, the protection and
the runs of each workflow one after the other from a remote that moves, once
before the approval and once after.

## 3. Runs

All runs use two workers and take between a second and about two minutes.

| run | instance | shows |
|---|---|---|
| `lock_recovery` | 3 processes on one host, 1 crash, from canary_1 | `HistoryIntact`, `LedgerUnlessRobbed`, `FirstRobbery` |
| `lock_faults` | 2 processes on two hosts, 1 crash, 1 OSError, from no file and from `bounded` | `TypeOK`, `FaultSafety` (`AuditTrailFaithful`, `LedgerUnlessRobbed`, `FirstRobbery`), `NeverLockedForGood` |
| `lock_terminal` | 3 prompt processes on one host, 1 crash | finding, see below |
| `runtime_safety` | 2 runs, 4 rows, the whole ladder | `ExposureOvershootBounded`, `ClimbNeedsEvidence`, `ObserverFailsClosed`, `IncidentsDescribeRollback`, `ImplementsLedger`, `TypeOK` |
| `runtime_liveness` | 2 runs, 2 rows | `ExhaustionIsNoticed` |
| `learning_safety` | 1 run, 2 recorders, 1 error, 1 power loss, crashes | `CandidateIsLogged`, `AcknowledgedStays`, `ObservationMatchesArm`, `OutcomeBelongs`, `MirrorFollowsFiles`, `AnswersCoverBacklog`, `MirroredByWriterIsDurable` |
| `learning_backfill` | 1 run, 1 recorder, 2 errors, crashes | `EventuallyBackfilled`, `TypeOK` |
| `learning_power_loss` | 1 run, 2 recorders, 1 power loss | finding |
| `provider_timeout` | limit 2, chunks of 2, 3 units, a small request | finding |
| `gather_path` | 9 components, 1.5 million states | see the table below |
| `workspace_stores` | 9 components, 1.3 million states | see the table below |
| `registry_exclusion` | 2 processes, 2 checkouts, 3 commands | finding |

`gather_path`:

| component | instance | property and its parts |
|---|---|---|
| CapabilityGate | 2 repositories, a wide and a minimal budget, 2 parameters, 1 level | `GateSafety`: `HighRiskEscalates`, `BudgetConserved`, `RiskNeverRelaxes`, `AllowedStaysInScope`, `ScopedIsAllowed` |
| RetrievalPipeline | 3 base calls, 1 specialist, 2 expansions, 2 threads | `PipelineSafety`: `MergedInInputOrder`, `AttemptsAccountedFor`, `WorkersBounded`, `NothingStartsAfterwards`; `CallsReturn` |
| ContextGathering | 8 items of 7 sources, budgets of 2 and 6 | `GatheringSafety`: `BenchmarkIsolated`, `StructureOrSource` (structure, a search, or the graph's share or the budget spent) |
| StructuralEvidence | 4 trees, 1 edit, limits 1, 2 and 4 | `EvidenceSafety`: `RowsAreOfTheCall`, `ValidatedHadWitness`, `VerifiedIsOfTheCall` |
| ContextSelection | 6 items of which 4 are gathered, budgets of 4 and 10 characters | `SelectionSafety`: `WithinBudgets`, `LazyIsGreedy`, `RequiredEvidenceKept`, `SufficientAsSelected` |
| ProviderAdmission | caps to 2, 2 builds of the executable | `AdmissionSafety`: `ProjectOnlyTightens`, `RunsWhatIsPinned`, `PolicyIsEnforced` |
| ProviderRunner | limit 3, chunks of 2, up to 5 units, a request larger than the pipe | `TimeoutEndsTree`, `ParsedIsComplete`, `TypeOK`; `CallsReturn` |
| AsyncProvider | limit 1, up to 2 units, 2 cancellations | `AsyncSafety`: `AsyncTimeoutEndsTree`, `AsyncParsedIsComplete`, `CancelledLeavesNothing`; `CallsReturn` |
| ProviderPayload | 13 records, up to 3 of them where 2 are allowed | `PayloadSafety`: `LabelsAreOurs`, `WholeAnswerOrNone`, `BestFirst` |

`workspace_stores`:

| component | instance | property and its parts |
|---|---|---|
| RepositoryRegistry | 2 processes, 2 checkouts, 2 commands, 1 change outside | `RegistrySafety`: `DecisionsKept`, `ExcludedIsNotSearched`, `PlanStaysReviewed` |
| MemoryStore | 2 processes, 2 records, 1 file | `RecordsSafety`: `LostOnlyInBetween`, `ImportKeepsRecords` |
| TraceStore | 2 runs, 2 older traces, a cap of 1 | `RecordsSafety`: `ReturnedTraceExists`, `FailureNeedsAnother`, `PruningRestoresCap` |
| RunJournal | 1 journalled and 1 persisted run, 3 kinds of events | `JournalSafety`: `TamperEvident`, `CompatibleMeansSame`, `ReleasedIntact`, `CreateOnce` |
| WorkspaceIndex | 2 indexers, 2 contents, 1 edit | `IndexesSafety`: `FreshRowIsCurrent`, `FullRunRepairs`, `StrictRunFollowsEdits` |
| CodeGraph | 2 syncs over 2 trees, one of them edited | `IndexesSafety`: `ReadyGraphIsCurrent`, `SyncReportsTruth` |
| ScipIndex | 2 syncs, a reader, 2 changes | `IndexesSafety`: `ReadyIndexIsWhole`, `AnswerIsOfCheckedTree`, `FailedSyncKeepsReady` |
| PolicyGovernance | 4 records of 4 shapes, 2 ticks | `GovernanceSafety`: `ShadowEvidenceIsUnseen`, `RecommendedAsSigned`, `AccountsAgree`, `ManifestHasExposures` |
| ReleaseAuthorization | 2 commits, 2 workflows, 3 moves of the remote | `ReleaseSafety`: `DraftWasAuthorized` |

Each component states its properties one by one, each with a comment of its own,
and their conjunction, with its type invariant, is the property the run checks.
`CallsReturn` is the liveness of the three components that have to end. The
mutants of PROJECT.json break the parts one by one.

Bounds. Theft of a lock takes a dead owner, a fast recoverer and a slow one:
three processes. One crash makes the stale lock; one OSError reaches every
error path once, two in `learning_backfill` so that both a mirror write and a
sync can fail. Two runs are enough for a race on the budget, and budgets of 1
and 0 in the first canary are exhausted by them; budgets keep the shape of the
defaults (growing, further apart than the number of runs). Two recorders race
for one outcome file. Processes are symmetric where no liveness is checked and
nothing tells them apart. Rollouts are bounded by the ladder itself. Three base
calls on two threads leave one in the queue, and with two threads busy a later
stage could exceed the pool. Chunks of 2 under a limit of 3 or 2 meet the limit
exactly, in the middle of a chunk and with the one unit more that a read asks
for; so do 2 units under a limit of 1 in the asyncio runner, whose reads ask for
one unit more than is left. Two cancellations are one that starts a cleanup and
one that meets it. Two commands and two processes make the lost update, the
unlocked setup and the search that sees two versions of the registry; one edit
of a file separates every two steps of a run once; three moves of the remote let
a fact become true, false and true again. `CHECK_DEADLOCK FALSE` stands where a
call or a bounded history ends.

Fairness. In `lock_faults` a process that runs proceeds, callers retry a
locked rollout, and time passes; nothing is assumed about crashes or errors.
The property excuses the lock of a live process whose `rmtree` failed: its pid
protects the directory until the process ends. In `runtime_liveness` runs keep
coming and proceed, and an attempt to roll back that is possible again and
again is eventually not met by a held lock (strong fairness of
`AutoRollback`); outcomes and operator actions are not fair. In
`learning_backfill` the operator runs sync again and again and started commands
proceed; nothing is assumed of the writers. In `gather_path` the
event loop runs what is ready and its timers fire, the blocking caller and its
reader threads run, and time passes; nothing is assumed of blocking calls, of
the provider and of its descendant, and nobody has to cancel. `ProviderReturns`
and `AsyncReturns` excuse a call that a living descendant, or an unread request,
holds up.

### Findings

* `lock_terminal`: `_recover_stale_lock` judges a lock by its age and owner and
  then renames whatever is at the path. Two callers time the lock of a crashed
  process; the first recovers it and takes the lock; the second renames the
  fresh lock away, although its owner is alive, local and well within its lease.
  Two holders then read the same generation, one rolls back, and the other's
  promotion overwrites the rollback.
* `learning_power_loss`: a sync that reads a record between its link and the
  flush of its directory leaves a row whose file a power loss can take away; the
  next outcome of that decision then contradicts the store and every later sync
  raises.

* `provider_timeout`: after the provider itself has exited, the second
  `_terminate_provider_tree` returns at once because `returncode` is set. A
  descendant that holds stdout keeps the reader in its read, and the `close` of
  the stream waits for that read without a timeout. (The same early
  return lets the descendant of a reaped provider survive an exceeded output
  limit.)

* `registry_exclusion`: `refresh_registry` writes what it discovers. A refresh
  with a small `--discover-depth` does not find a deep checkout and drops its row
  with the operator's exclusion; the next refresh at the default depth, such as
  that of setup, finds it and includes it.

Four more disagreements are not runs of their own; the first three are the
definitions `PruneKeepsFresh`, `StrictRunVerifies` and `StructuralHadWitness`,
which do not hold, beside the weaker properties that do.

* `memory.py:120`: `prune_stale` lists the records in one transaction and
  replaces the table in another. A memory that another process adds in between is
  gone, although `docs/state-and-telemetry.md:5` speaks of durable memory in SQLite
  transactions. `LostOnlyInBetween` says that this is the only way.
* `indexer.py:343`: a strict run compares the hash with the recorded one and then
  keeps the rows. Rows that were parsed from another content than the one the
  state recorded (an edit between hash and parse, two indexers) stay as they
  are, although `docs/incremental-indexing.md:29` recommends strict mode for
  validating an index. A full run repairs them.
* `context_broker.py:600`: a call that has reached its limit returns its items
  before the validation of `structural_validation.py`, and the engine takes them
  as structural evidence all the same.
* `provider_runner.py:465`: a JSONL answer of a single record is a JSON document,
  an object without `items`, and is refused, while `docs/provider-protocol.md:34`
  allows "JSONL, with one item object per non-empty line". In the same way a
  record nested to the limit is accepted as a line and refused in an array.

## 4. Proofs

TLAPS proves the following for every value of the constants that satisfies the
named assumptions, which say no more than the code's configuration does (limits
and counts are positive, sets of processes are sets). All of them go through an
inductive invariant, `IInv` or the component's `...Inv`: it holds initially,
every action preserves it, and it implies the property. TLC has checked the
invariants that are not obvious as invariants of the runs' instances before.

**DeploymentStateLockProofs** (any number of processes, hosts, crashes and
errors; `ProcsAssumption`, `InitialStatesAssumption`). `LedgerUnlessRobbed` is
mutual exclusion in disguise; alone it is not inductive, because it says nothing
of a process between its load and its write. The strengthening has three parts:
while nobody was robbed, who works under the lock made the directory that is at
the path (`HolderMadeLock`), and what a process is about to write succeeds what
the file holds (`LoadedIsCurrent`); and a judgement that still describes the
directory found it unprotected (`JudgementSound`, for `FirstRobbery`).
`HistoryIntact` needs `PendingReplays` and the lemma `AdvanceReplays`.
`AuditTrailFaithful` counts: the events that are missing in the trail (`Missing`)
are no more than the faults and the processes that have written the state and
not yet its event or have died (`Owing`); the event a process owes is
of the state it wrote (`AuditInv`).

**DeploymentRuntimeProofs** (any finite set of runs, any budgets;
`BudgetAssumption`, `BudgetGapAssumption`, `InitialStatesAssumption`). The
overshoot bound follows from counting commitments: exposures plus the runs that
passed their check under the current generation never exceed the budget plus
the number of runs (`ExposureInv`). `BudgetGapAssumption` is needed when a
promotion raises the stage while runs of the previous one are under way. The
evidence invariant ties reports to the counters, which only grow. `TypeOK` is
part of it and not of a simpler invariant: that no counter passes the bound of
the rows rests on the sum of outcomes and failures (`OutcomesWithinRows`).

**LearningRecordsProofs** (any sets of runs and recorders, any number of errors
and power losses; `WritersAssumption`). The invariant relates each writer's
position to the record it holds, and a sync's progress to its backlog. An
observation matches its arm because a run that retrieves as candidate has its
decision on disk (`RunProgressOf`).

**ProviderCallProofs** (any limit, chunk size, amount of data and number of
cancellations, any caps and builds; `RunnerAssumption`, `AsyncAssumption`,
`AdmissionAssumption`, `PayloadAssumption`). The blocking call. `KillInv`: until `wait` has returned nothing keeps the kill
from reaching the group, and after it the tree is gone. `ParsedIsComplete` needs
an account of the data (`NothingLost`: what was written is in the buffer, in the
pipe or in the reader's hand), that a reader that ended met the end of the
stream (`EndedAtEnd`), and that the caller closes and parses only after it
joined the reader or gave up (`ClosedAfterEnd`). `AsyncSafety` needs what the
exit status says of the process (`ProcessInv`), that a timeout which found the
exit unknown ended the tree (`TimeoutInv`), the account of the data
(`StreamInv`), and how far the exchange is (`ExchangeInv`): a cancellation can
arrive at any of these points, and once more during the cleanup.
`AdmissionSafety` follows what was resolved through the steps between which the
executable changes (`ResolvedInv`, `VerifiedInv`, `PlanInv`). `PayloadSafety`
(any records, any limit, `PayloadAssumption`): what has been converted so far
is one item for each record, in their order, and none of them would have been
refused (`ReadingInv`, `OneEach`), so that an answer is accepted exactly when it
is valid (`WholeOrNone`); and whichever order the sort puts the items in, it
leaves none out (`OrderIsOnto`), so that what the limit cuts is no better than
what it leaves (`BestIsReturned`).

**WorkspaceRecordsProofs** (any processes, records, limits, workflows and
thresholds; `MemoryAssumption`, `TraceAssumption`, `ReleaseAssumption`,
`GovernanceAssumption`, `JournalAssumption`).
`LostOnlyInBetween` holds because a prune that has listed the table holds, in
what is left to judge and what it keeps, every record that has neither been
found stale nor been inserted since (`PruneInv`), and because ids are never
shared (`KeyInv`). `ReturnedTraceExists` counts: a file that a pruning removes
has at least `MaxTraceFiles` newer ones, and numbers between two numbers are no
more than their difference (`FilesBetween`). A draft's facts are each read at a
moment of the second round (`ReadWasFact`). In PolicyGovernance the report, the
manifest and the last evaluation each carry the cutoff they were made under, and
records that come late but are stamped early stay on their side of it
(`ReportsInv`, `ManifestInv`, `GateInv`). `JournalSafety` rests on one lemma about the
operators: a journal that has a journal's shape verifies exactly when it is
what was built of its payloads (`VerifiedIsBuilt`; of two different chains take
the first event in which they differ). The invariant says that no edit takes
that shape from a stored journal (`JournalsHold`), that a run file being written
has one writer (`GathersHold`), and that what a command has compared so far is
still the same while the workspace has not moved (`ReplayHolds`).

**RepositoryRegistryProofs** (any processes, commands, checkouts, remotes,
limits and reviewed edges; `RegistryAssumption`). `DecisionsKept` is inductive
only together with what the holder of the lock has read (`DecisionsShown`): both
the file and that reading show every standing decision, as a row an operator
made, so that a refresh carries it over and a selector that names a repository
changes its row alone; and neither has two rows for one path (`GoodRows`). What setup
and an edit by hand take away is counted as dropped when they do, and the command
that overlaps with them writes back rows whose decisions are dropped. What is
written is what is read (`PayloadLoads`), because a finite set that is strictly
ordered is listed once each (`ListedIs`, from the ranks of its members). A search
keeps to its roots (`RootsHold`), and the plan that it makes of them and of an
older reading to both (`PlanHolds`).

**WorkspaceIndexesProofs** (any indexers, syncs, trees, repositories and
contents; `IndexAssumption`, `GraphAssumption`, `ScipAssumption`). For the symbol
index: a row was parsed from what its hash is of unless some parse was torn
(`RowsAreGood`), and an indexer nobody disturbed holds what is on disk
(`UndisturbedAreCurrent`). For the graph: a binding that vouches names the tree
the database was built of (`BindingsHold`), and a sync's rows are split into ok
and failed as it goes (`SyncHolds`). For SCIP: the manifest describes the files,
whichever of the replacements a crash fell between (`ManifestIsWhole`).

**GatherPathProofs** (any repositories, budgets, calls, threads, trees and
limits, any evidence, scores, shares and budgets; `GateAssumption`,
`PipelineAssumption`, `GatheringAssumption`, `SelectionAssumption`,
`EvidenceAssumption`). The gate:
every contract that is reached fits the budget its facts carry and the policy
grants what the contract plans (`ContractHolds`, `PolicyHolds`); that a task of
more risk is never treated with less care compares two runs of the decision
tables and is a lemma about them. The pipeline: what was collected comes before
what is scheduled in the numbering of the calls (`BatchHolds`, `MergeHolds`),
and a thread works for a call of an earlier stage only when the time is over
(`PoolHolds`), which is what keeps the pools of the stages from adding up. The gathering: the
items are distinct, the ids that were joined are theirs until the last pass, and
what was kept fits the budget (`ItemsHold`), whatever the two threads deliver and
when they are cut off (`ThreadsHold`); an item of valid structure that was in the answer
is kept or there was no room for it (`StructureHolds`). One
call of the graph: what is left to ask for is at most once each and impact comes
first (`Tidy`), and each item holds of a tree between the start of the call and
now (`AskFits`). The selection: the bound loses no item of a mandatory source
(`BoundedLists`), and while those are taken the selection costs what they cost
and nothing else is in it, so that each of them fits when all do
(`MandatoryHold`). An entry of the lazy queue says no less than its row adds now,
because gains only fall as more is covered (`GainFalls`, `QueueHolds`); the top
of the queue comes before every other entry (`TopIs`), and one that is of the
current epoch and says what its row adds is therefore what the greedy rule
chooses (`PopIsGreedy`). This one is an action property; the others are
invariants.

Sequences. `InOrder` lists a set of calls by rank and `Delivered` the ended ones
among a batch; what they return for every set is proved without induction over
the data, from the fact that a set of numbers has a least element (`LeastOf`,
by the well-foundedness of `<`): a rising sequence with a given content exists
(`InOrderLists`), is the only one (`RisingIsUnique`), and two rising sequences
of which one lies below the other are joined to one (`RisingJoined`). The same
lemma orders the trace files. The chain of digests is a recursive function: that
there is a function with that equation is proved from the first length for
which there would be none (`DigestsAre`). The registry's sorts are written by rank too
(`Listed`), and its expansions as the strongest edge to each target instead of a
fold over the sorted edges. The three loops of the gathering, which add up
costs and keep what fits, are recursive functions on the length of a sequence:
one lemma gives the existence of each (`Recursively`, for a step that may be any
function of the index and the value so far) and one its invariant (`UpTo`). So
are the sums and covers of the selection and its last cut (`SumIs`, `CoverIs`,
`HardCapFits`).

Proving changed four statements that had passed TLC. `DecisionsKept` used to
excuse a setup without discovery that overwrites a registry it has not seen; the
proof did not need the excuse, because that setup drops the rows it overwrites,
and the property now holds without it. `StructureOrSource` was
false in the form "structure or a search, unless the budget is spent": with a
graph answer that uses up the graph's own share, `gather` counts valid evidence
that it then does not keep; the property and its instance now have that case
(`GraphShareSpent`). `SyncReportsTruth` was false for a workspace without
repositories, which `workspace_health` calls not ready. And the assumptions
of CapabilityGate did not say that a budget's fields are positive numbers, which
`HighRiskEscalates` needs and `TaskBudget` ensures.

Only model-checked, and why:

* all liveness (`CallsReturn`, `NeverLockedForGood`, `ExhaustionIsNoticed`,
  `EventuallyBackfilled`): fairness and ENABLED;
* the four statements the violation runs refute: a counterexample is TLC's.

## 5. Plan

Every safety property that a run checks is a theorem. What is worth doing next:

1. The benchmark modes that share one working tree, as a module of their own
   (`benchmark_integrity.py`, `benchmark_intervention.py`): what a mode leaves
   behind for the next one.
2. What the proofs of the components say of each other: that the evidence a
   selection starts from is what a gathering returns, and that the calls of the
   pipeline are those the gate's contract allows.
3. The weaker forms of the violated statements, as theorems: under which
   conditions `RolledBackIsTerminal`, `ExclusionStands` and `SameEvidence` hold.

## 6. Not modelled

* Statistics on real numbers (off-policy estimates, confidence sequences, drift):
  their outcomes are choices of the environment where a decision depends on them.
* Text ranking, tokenization, intent classification, parsing of source files and
  of manifests: the models start from the signals or scores they give.
* Benchmarks, interventions and reports: offline drivers that call the modelled
  components one after the other. Benchmark modes that run an agent share one
  working tree without looking at its snapshot again; that is not modelled.
* Argument parsing and configuration: no state beyond one process.
* `retrieval_cache.py`: nothing outside the tests uses it.
* The command lines of bubblewrap and of the external indexers, and Windows
  (`msvcrt` locks, `taskkill`): the models are of the POSIX branches.
* Two roots of one base name, whose labels coincide in the pipeline; tampering
  that keeps every signature: signatures and hashes are assumed to be
  unforgeable and free of collisions.
