-------------------------- MODULE DeploymentRuntime -------------------------
(***************************************************************************)
(* A policy under rollout: gather runs that load the deployment state,     *)
(* evaluate the live guardrails and roll back or assign a retrieval arm;   *)
(* the log of candidate decisions and their delayed verified outcomes; and *)
(* the operator who evaluates, promotes and rolls back from the command    *)
(* line.  Each update of the state file is one ledger step                 *)
(* (DeploymentStateLock shows when that abstraction holds).                *)
(*                                                                         *)
(* The log is kept as the three numbers evaluate_live_guardrails computes  *)
(* from it for a state of generation g: candidate rows, verified outcomes  *)
(* and failures among the rows of generation g or earlier.                 *)
(***************************************************************************)
EXTENDS Integers, Sequences, FiniteSets

CONSTANTS
  Runs,             \* concurrent gather runs
  InitialStates,    \* rollouts a behaviour may start from
  ExposureBudget,   \* max_candidate_exposures per live stage
  FailureBudget,    \* max_candidate_failures per live stage
  MinimumOutcomes,  \* minimum_monitor_outcomes
  MaxRows           \* bound: candidate decisions logged

VARIABLES
  file,      \* the deployment state file
  pc,        \* where each run is
  loaded,    \* per run: the state it loaded
  exposed,   \* per generation: candidate rows of that generation or earlier
  verified,  \* ... of which with a verified outcome
  failed,    \* ... of which the outcome is a failure
  report,    \* the operator's guardrails.json
  incidents, \* generations with a rollback incident bundle
  observed   \* history variable: runs whose guardrails asked for a rollback

log == <<exposed, verified, failed>>
vars == <<file, pc, loaded, exposed, verified, failed, report, incidents, observed>>

L == INSTANCE DeploymentLedger WITH state <- file

\* The ladder has five rungs and one way down.
Generations == 1..6
Counter == [Generations -> 0..MaxRows]

ASSUME BudgetAssumption ==
  /\ IsFiniteSet(Runs)
  /\ ExposureBudget \in [L!LIVE_STAGES -> Nat \ {0}]
  /\ FailureBudget \in [L!LIVE_STAGES -> Nat]
  /\ MinimumOutcomes \in Nat \ {0}
  /\ MaxRows \in Nat

\* The budgets of consecutive stages are further apart than runs can race:
\* 100, 500, 1000 and 5000 in DEFAULT_STAGE_EXPOSURE_BUDGETS.
ASSUME BudgetGapAssumption ==
  \A s \in L!LIVE_STAGES \ {"bounded"} :
    ExposureBudget[L!NEXT_STAGE[s]] >= ExposureBudget[s] + Cardinality(Runs)

\* Rollouts a behaviour starts from have no rows yet: none is past canary_1.
ASSUME InitialStatesAssumption ==
  \A s \in InitialStates : /\ s \in L!RolloutState
                           /\ L!HistoryReplays(s)
                           /\ s.stage \in {"absent", "approved", "canary_1"}

NoReport == [generation |-> 0, stage |-> "none", safe_to_advance |-> FALSE]

PC == {"idle", "evaluate", "rollback", "assign", "log", "candidate"}

TypeOK ==
  /\ file \in L!RolloutState
  /\ pc \in [Runs -> PC]
  /\ loaded \in [Runs -> L!RolloutState]
  /\ exposed \in Counter /\ verified \in Counter /\ failed \in Counter
  /\ report \in [generation : 0..6, stage : L!DEPLOYMENT_STAGES \cup {"none"},
                 safe_to_advance : BOOLEAN]
  /\ incidents \subseteq Generations
  /\ observed \subseteq Runs

Init ==
  /\ file \in InitialStates
  /\ pc = [r \in Runs |-> "idle"]
  /\ loaded = [r \in Runs |-> L!Absent]
  /\ exposed = [g \in Generations |-> 0]
  /\ verified = [g \in Generations |-> 0]
  /\ failed = [g \in Generations |-> 0]
  /\ report = NoReport
  /\ incidents = {}
  /\ observed = {}
-----------------------------------------------------------------------------
(* evaluate_live_guardrails *)

\* Mutant: exposures are not budgeted.
BudgetExhausted_FailuresOnly(s) == failed[s.generation] > FailureBudget[s.stage]

\* The budgets evaluate_live_guardrails enforces on a live state s.
BudgetExhausted(s) ==
  \/ exposed[s.generation] > ExposureBudget[s.stage]
  \/ failed[s.generation] > FailureBudget[s.stage]

\* Mutant: an exhausted budget is reported but does not block.
RollbackRequired_BudgetsIgnored(s, regression) ==
  s.stage \in L!LIVE_STAGES /\ regression

\* What the budgets leave open - failure rate, reward regression, cost, drift,
\* malformed rows - is a choice of the environment: regression.
RollbackRequired(s, regression) ==
  s.stage \in L!LIVE_STAGES /\ (BudgetExhausted(s) \/ regression)

\* Mutant: the minimum number of outcomes is not required.
SafeToAdvance_NoMinimum(s, regression, clusters) ==
  s.stage \in L!LIVE_STAGES /\ ~RollbackRequired(s, regression) /\ clusters

\* The gate of the report; clusters: are there enough monitored clusters?
SafeToAdvance(s, regression, clusters) ==
  /\ s.stage \in L!LIVE_STAGES
  /\ ~RollbackRequired(s, regression)
  /\ verified[s.generation] >= MinimumOutcomes
  /\ clusters

\* One more row or outcome of generation g.
CountOne(counter, g) ==
  [h \in Generations |-> IF h >= g THEN counter[h] + 1 ELSE counter[h]]
\* Rows of exactly generation g.
Of(counter, g) == counter[g] - (IF g = 1 THEN 0 ELSE counter[g - 1])
-----------------------------------------------------------------------------
(* A gather run: resolve_runtime_deployment and prepare_learning_decision. *)

Goto(r, label) == pc' = [pc EXCEPT ![r] = label]

\* The run retrieves with the baseline arm and is over.
UseBaseline(r) ==
  /\ Goto(r, "idle")
  /\ loaded' = [loaded EXCEPT ![r] = L!Absent]
  /\ observed' = observed \ {r}

\* load_deployment_state, without the lock.  A missing state, a stage that is
\* not live and the kill switch end in the baseline.
LoadState(r) ==
  /\ pc[r] = "idle"
  /\ file.stage \in L!LIVE_STAGES
  /\ Goto(r, "evaluate")
  /\ loaded' = [loaded EXCEPT ![r] = file]
  /\ UNCHANGED <<file, log, report, observed, incidents>>

\* _auto_rollback_if_needed evaluates the rows there are now for the state
\* that was loaded.
EvaluateGuardrails(r) ==
  /\ pc[r] = "evaluate"
  /\ \E regression \in BOOLEAN :
       IF RollbackRequired(loaded[r], regression)
         THEN Goto(r, "rollback") /\ observed' = observed \cup {r}
         ELSE Goto(r, "assign") /\ UNCHANGED observed
  /\ UNCHANGED <<file, loaded, log, report, incidents>>

\* create_incident_bundle and write_incident_bundle, best effort, once the
\* rollback to generation g is in the file.
FileIncident(g) == incidents' \in {incidents, incidents \cup {g}}

\* Mutant: the evaluated generation is not passed on.
AutoRollback_AnyGeneration(r) ==
  /\ pc[r] = "rollback"
  /\ file' = L!Advance(file, "rolled_back")
  /\ UseBaseline(r)
  /\ FileIncident(file.generation + 1)
  /\ UNCHANGED <<log, report>>

\* update_deployment_state_file with the generation that was evaluated.
AutoRollback(r) ==
  /\ pc[r] = "rollback"
  /\ file.generation = loaded[r].generation
  /\ file' = L!Advance(file, "rolled_back")
  /\ UseBaseline(r)
  /\ FileIncident(file.generation + 1)
  /\ UNCHANGED <<log, report>>

\* Mutant: a rollback that could not be written is ignored.
AutoRollbackFails_Ignored(r) ==
  /\ pc[r] = "rollback"
  /\ Goto(r, "assign")
  /\ UNCHANGED <<file, loaded, log, report, observed, incidents>>

\* Mutant: the incident is filed although the rollback was not written.
AutoRollbackFails_Files(r) ==
  /\ pc[r] = "rollback"
  /\ UseBaseline(r)
  /\ FileIncident(loaded[r].generation + 1)
  /\ UNCHANGED <<file, log, report>>

\* The file is locked, its generation changed or it cannot be written; the
\* run that saw the failing guardrail falls back to the baseline all the same.
AutoRollbackFails(r) ==
  /\ pc[r] = "rollback"
  /\ UseBaseline(r)
  /\ UNCHANGED <<file, log, report, incidents>>

\* Risk, policy context and bucket decide.
Assign(r) ==
  /\ pc[r] = "assign"
  /\ \/ Goto(r, "log") /\ UNCHANGED <<loaded, observed>>
     \/ UseBaseline(r)
  /\ UNCHANGED <<file, log, report, incidents>>

\* write_learning_decision publishes the candidate row before retrieval runs.
LogDecision(r) ==
  /\ pc[r] = "log"
  /\ exposed[6] < MaxRows
  /\ exposed' = CountOne(exposed, loaded[r].generation)
  /\ Goto(r, "candidate")
  /\ UNCHANGED <<file, loaded, verified, failed, report, observed, incidents>>

\* The write raises OSError, before or after the row became visible: the run
\* falls back to the baseline.
LogDecisionFails(r) ==
  /\ pc[r] = "log"
  /\ \/ UNCHANGED exposed
     \/ exposed[6] < MaxRows /\ exposed' = CountOne(exposed, loaded[r].generation)
  /\ UseBaseline(r)
  /\ UNCHANGED <<file, verified, failed, report, incidents>>

FinishCandidate(r) ==
  /\ pc[r] = "candidate"
  /\ Goto(r, "idle")
  /\ loaded' = [loaded EXCEPT ![r] = L!Absent]
  /\ UNCHANGED <<file, log, report, observed, incidents>>

\* Mutant: an outcome can be recorded again for the same decision.
RecordOutcome_Again(g) ==
  /\ Of(exposed, g) > 0 /\ verified[6] <= MaxRows
  /\ verified' = CountOne(verified, g)
  /\ failed' \in {failed, CountOne(failed, g)}
  /\ UNCHANGED <<file, pc, loaded, exposed, report, observed, incidents>>

\* record_verified_outcome, any time later, once per decision.
RecordOutcome(g) ==
  /\ Of(verified, g) < Of(exposed, g)
  /\ verified' = CountOne(verified, g)
  /\ failed' \in {failed, CountOne(failed, g)}
  /\ UNCHANGED <<file, pc, loaded, exposed, report, observed, incidents>>
-----------------------------------------------------------------------------
(* The operator: commands/deployment.py. *)

CreateState ==
  /\ file = L!Absent
  /\ file' = L!ApprovedState
  /\ UNCHANGED <<pc, loaded, log, report, observed, incidents>>

\* deployment guardrails --output guardrails.json
WriteReport ==
  /\ file # L!Absent
  /\ \E regression, clusters \in BOOLEAN :
       report' = [generation |-> file.generation, stage |-> file.stage,
                  safe_to_advance |-> SafeToAdvance(file, regression, clusters)]
  /\ UNCHANGED <<file, pc, loaded, log, observed, incidents>>

\* deployment promote --guardrail-report guardrails.json
Promote ==
  /\ file.stage \in DOMAIN L!NEXT_STAGE
  /\ file.stage \in L!LIVE_STAGES =>
       /\ report.safe_to_advance
       /\ report.generation = file.generation
       /\ report.stage = file.stage
  /\ file' = L!Advance(file, L!NEXT_STAGE[file.stage])
  /\ UNCHANGED <<pc, loaded, log, report, observed, incidents>>

\* deployment rollback
ManualRollback ==
  /\ file # L!Absent
  /\ file.stage # "rolled_back"
  /\ file' = L!Advance(file, "rolled_back")
  /\ FileIncident(file.generation + 1)
  /\ UNCHANGED <<pc, loaded, log, report, observed>>

RunStep(r) ==
  \/ LoadState(r) \/ EvaluateGuardrails(r) \/ AutoRollback(r)
  \/ Assign(r) \/ LogDecision(r) \/ FinishCandidate(r)

Next ==
  \/ \E r \in Runs : RunStep(r) \/ AutoRollbackFails(r) \/ LogDecisionFails(r)
  \/ \E g \in Generations : RecordOutcome(g)
  \/ CreateState \/ WriteReport \/ Promote \/ ManualRollback

Spec == Init /\ [][Next]_vars

\* Runs keep coming and proceed, and the state lock is not held against every
\* single attempt to roll back.
Fairness ==
  \A r \in Runs :
    /\ WF_vars(LoadState(r)) /\ WF_vars(EvaluateGuardrails(r)) /\ WF_vars(Assign(r))
    /\ WF_vars(LogDecision(r) \/ LogDecisionFails(r)) /\ WF_vars(FinishCandidate(r))
    /\ WF_vars(AutoRollback(r) \/ AutoRollbackFails(r)) /\ SF_vars(AutoRollback(r))
FairSpec == Spec /\ Fairness
-----------------------------------------------------------------------------
\* The composed system writes the state file as the ledger allows: the
\* generation check of update_deployment_state_file keeps an automatic rollback
\* that was decided on an older state from being applied to a newer one.
ImplementsLedger == L!Spec

\* The last live stage of the rollout, and its generation.
WasLive(s) == \/ s.stage \in L!LIVE_STAGES
              \/ s.stage = "rolled_back" /\ s.history[s.generation].from \in L!LIVE_STAGES
LiveStage(s) == IF s.stage = "rolled_back" THEN s.history[s.generation].from ELSE s.stage
LiveGeneration(s) == IF s.stage = "rolled_back" THEN s.generation - 1 ELSE s.generation

\* However the runs interleave with each other, with promotions and with
\* rollbacks, candidate exposures exceed the budget of the stage by at most
\* one per concurrent run (resolve_runtime_deployment checks, then logs).
ExposureOvershootBounded ==
  WasLive(file) =>
    exposed[LiveGeneration(file)] <= ExposureBudget[LiveStage(file)] + Cardinality(Runs)

\* A rung above canary_1 was climbed on evidence: at least the minimum number
\* of verified candidate outcomes of the earlier generations exist.
ClimbNeedsEvidence ==
  \A i \in 3..file.generation :
    file.history[i].to # "rolled_back" => verified[i - 1] >= MinimumOutcomes

\* The request that observed a failing guardrail never retrieves with the
\* candidate arm, whether its rollback was written or lost a race.
ObserverFailsClosed ==
  \A r \in Runs : r \in observed => pc[r] \notin {"assign", "log", "candidate"}

\* An incident bundle tells of the rollback that ended the rollout, whichever of
\* racing runs and the operator wrote it.
IncidentsDescribeRollback ==
  \A g \in incidents : file.stage = "rolled_back" /\ file.generation = g

\* An exhausted budget ends in a rollback, or the operator moves the rollout
\* to a stage whose budget is not exhausted: it does not stay exhausted.
ExhaustionIsNoticed ==
  LET Exhausted == file.stage \in L!LIVE_STAGES /\ BudgetExhausted(file)
  IN  Exhausted ~> ~Exhausted
=============================================================================
