--------------------------- MODULE CapabilityGate ---------------------------
(***************************************************************************)
(* What a task is allowed to do: its text is classified into a lane and a  *)
(* risk, the orchestration contract fixes agents, tools, passes and graph  *)
(* depth from that and from what retrieval found, the capability policy is *)
(* made of the contract, and the gate judges every action a model proposes *)
(* against the policy.  Text is reduced to the signals the classifier      *)
(* looks for; a parameter tree to its entries, each with the level it is   *)
(* nested at, its key's kind and its value.                                *)
(***************************************************************************)
EXTENDS Integers, Sequences, SequencesExt, FiniteSets

CONSTANTS
  Repos,         \* repository ids, as the control plane assigns them
  TaskBudgets,       \* execution.orchestration_budget settings
  MaxChanged,    \* changed files of a task
  MaxRoots,      \* repositories searched
  MaxNesting,    \* _MAX_PARAMETER_DEPTH
  MaxEntries     \* entries of a parameter tree

ASSUME GateAssumption ==
  /\ {MaxChanged, MaxNesting, MaxEntries} \subseteq Nat /\ MaxRoots \in Nat \ {0}
  /\ TaskBudgets # {}
  /\ TaskBudgets \subseteq [slots : Nat \ {0}, calls : Nat, depth : Nat \ {0}, review : Nat \ {0},
                             verify : Nat \ {0}]

VARIABLES
  phase,     \* "task", "contracted", "gated"
  gateTask,      \* what the text signals
  facts,     \* what the contract is made of
  contract,  \* the orchestration contract
  policy,    \* the capability policy
  escalates, \* whether the task was a change with a high-risk keyword
  known,     \* evidence ids the gate is given
  gateVerdict    \* the last request and the gate's answer, if any

gateVars == <<phase, gateTask, facts, contract, policy, escalates, known, gateVerdict>>

Lanes == {"answer", "small", "full"}
Risks == <<"low", "medium", "high">>
Weight(risk) == CHOOSE i \in 1..3 : Risks[i] = risk
Lesser(a, b) == IF a < b THEN a ELSE b
Most(a, b) == IF a > b THEN a ELSE b
One(condition) == IF condition THEN 1 ELSE 0

-----------------------------------------------------------------------------
(* classify and build_orchestration_contract. *)

Tasks == [question : BOOLEAN, change : BOOLEAN, structural : BOOLEAN, high : BOOLEAN,
          full : BOOLEAN, small : BOOLEAN, short : BOOLEAN, files : 0..3]

Route(lane, risk, structural) == [lane |-> lane, risk |-> risk, structural |-> structural]

\* Mutant: the full-lane signals are looked at before the high-risk ones.
Classify_FullFirst(t) ==
  IF t.question /\ ~t.change /\ ~t.structural THEN Route("answer", "low", FALSE)
  ELSE IF t.full \/ t.structural THEN Route("full", "medium", t.structural)
  ELSE IF t.high THEN Route("full", "high", t.structural)
  ELSE IF t.change /\ t.files \in 1..2 /\ (t.small \/ t.short) THEN Route("small", "low", FALSE)
  ELSE Route("full", "medium", FALSE)

Classify(t) ==
  IF t.question /\ ~t.change /\ ~t.structural THEN Route("answer", "low", FALSE)
  ELSE IF t.high THEN Route("full", "high", t.structural)
  ELSE IF t.full \/ t.structural THEN Route("full", "medium", t.structural)
  ELSE IF t.change /\ t.files \in 1..2 /\ (t.small \/ t.short) THEN Route("small", "low", FALSE)
  ELSE Route("full", "medium", FALSE)

\* What retrieval and the workspace contribute.
Facts == [gap : BOOLEAN, structural : BOOLEAN, changed : 0..MaxChanged, roots : 1..MaxRoots,
          crg : BOOLEAN, budget : TaskBudgets]

Structural(d, f) == f.structural \/ d.structural

Complexity(d, f) ==
  LET lane == CASE d.lane = "answer" -> 0 [] d.lane = "small" -> 1 [] d.lane = "full" -> 2 IN
  2 * lane + 2 * (Weight(d.risk) - 1) + Lesser(4, f.changed) + Lesser(2, f.roots - 1)
    + 2 * One(Structural(d, f)) + 2 * One(f.gap)

CrgPlan(d, f) ==
  IF ~f.crg \/ d.lane = "answer" THEN <<>>
  ELSE LET plan == <<"minimal_context">>
                   \o (IF Structural(d, f) \/ f.changed >= 2 THEN <<"impact_radius">> ELSE <<>>)
                   \o (IF Structural(d, f) THEN <<"query_graph">> ELSE <<>>)
                   \o <<"review_context">>
       IN  SubSeq(plan, 1, Lesser(Len(plan), f.budget.calls))

\* Mutant: the second review pass is for the complex tasks only.
Passes_ScoreOnly(d, f) ==
  IF d.lane # "full" THEN [review |-> 1, verify |-> 1]
  ELSE [review |-> 1 + One(Complexity(d, f) >= 10), verify |-> 1 + One(f.gap)]

Passes(d, f) ==
  IF d.lane # "full" THEN [review |-> 1, verify |-> 1]
  ELSE [review |-> 1 + One(d.risk = "high" \/ Complexity(d, f) >= 10),
        verify |-> 1 + One(d.risk = "high" \/ f.gap)]

\* Mutant: the depth follows the score alone.
GraphDepth_Uncapped(score, budget) == 1 + One(score >= 8) + One(score >= 12)

\* Mutant: the first level is not counted.
GraphDepth_FromZero(score, budget) == Lesser(One(score >= 8) + One(score >= 12), budget.depth)

GraphDepth(score, budget) == Lesser(1 + One(score >= 8) + One(score >= 12), budget.depth)

BuildContract(d, f) ==
  LET score == Complexity(d, f)
      slots == IF d.lane = "full" THEN 2 + One(score >= 8) + One(score >= 12) ELSE 1
  IN  [lane |-> d.lane, risk |-> d.risk, plan |-> CrgPlan(d, f),
       slots |-> Lesser(slots, f.budget.slots),
       review |-> Lesser(Passes(d, f).review, f.budget.review),
       verify |-> Lesser(Passes(d, f).verify, f.budget.verify),
       depth |-> GraphDepth(score, f.budget)]

-----------------------------------------------------------------------------
(* The policy and the gate. *)

EvidenceIds == {"cited", "fabricated"}

\* build_model_capability_policy.
BuildPolicy(c, f, repos) ==
  [lane |-> c.lane, risk |-> c.risk, tools |-> ToSet(c.plan), repos |-> repos,
   verify |-> Most(1, c.verify), depth |-> Most(1, Lesser(c.depth, f.budget.depth))]

Tools == {"minimal_context", "impact_radius", "query_graph", "review_context", "unplanned", "blank"}
Capabilities == {"tool", "provider", "activation", "network", "secret", "lane", "skip"}

\* An entry of the tree: a key of some kind, at some level, and its value.
\* "malformed" is a value of no type the key allows, "oversize" a string, a
\* list or a mapping that is too large, "inside" any other, and the
\* number of a depth stands beside it.
Entries ==
  {e \in [level : 1..(MaxNesting + 1), key : {"plain", "privileged", "repository", "depth", "path"},
          value : Repos \cup {"inside", "outside", "malformed", "oversize"}, depth : 0..4] :
    /\ e.depth # 0 => e.key = "depth" /\ e.value = "inside"
    /\ \/ e.value = "oversize"
       \/ e.key = "plain" /\ e.value \in {"inside", "malformed"}
       \/ e.key = "privileged" /\ e.value = "inside"
       \/ e.key = "repository" /\ e.value \in Repos \cup {"malformed"}
       \/ e.key = "depth" /\ e.value \in {"inside", "malformed"}
       \/ e.key = "path" /\ e.value \in {"inside", "outside", "malformed"}}

Parameters == BoundedSeq(Entries, MaxEntries)

Request(capability, tool, repository, privileged, parameters, cited) ==
  [capability |-> capability, tool |-> tool, repository |-> repository,
   privileged |-> privileged, parameters |-> parameters, cited |-> cited]

\* What a model proposes: an action of another capability, or a tool with
\* either parameters or fields beside them.
Requests ==
  {Request(c, "minimal_context", "none", FALSE, <<>>, {}) : c \in Capabilities}
  \cup {Request("tool", t, "none", FALSE, <<>>, {"cited"}) : t \in Tools}
  \cup {Request("tool", "minimal_context", "none", FALSE, p, {"cited"}) : p \in Parameters}
  \cup {Request("tool", "minimal_context", r, x, <<>>, e) :
          r \in Repos \cup {"none"}, x \in BOOLEAN, e \in SUBSET EvidenceIds}

\* _canonical_value, which takes the digest of a request: its bounds.
DigestRefusal(p) ==
  IF \E i \in 1..Len(p) : p[i].value = "oversize" \/ p[i].level > MaxNesting THEN "parameter_budget_exceeded"
  ELSE IF \E i \in 1..Len(p) : p[i].key = "plain" /\ p[i].value = "malformed" THEN "invalid_request"
  ELSE "none"

\* Mutant: only the entries of the outermost mapping are judged.
EntryRefusal_TopLevel(pol, e) ==
  IF e.level > 1 THEN "none"
  ELSE CASE e.key = "privileged" -> "privileged_parameter"
         [] e.key = "repository" -> IF e.value \in pol.repos THEN "none" ELSE "repository_scope_violation"
         [] e.key = "depth" -> IF e.depth <= pol.depth THEN "none" ELSE "graph_depth_exceeded"
         [] e.key = "path" -> IF e.value = "inside" THEN "none" ELSE "path_scope_violation"
         [] OTHER -> "none"

\* Mutant: the depth the policy allows is exclusive.
EntryRefusal_Strict(pol, e) ==
  CASE e.key = "privileged" -> "privileged_parameter"
    [] e.key = "repository" ->
         IF e.value = "malformed" THEN "invalid_request"
         ELSE IF e.value \notin pol.repos THEN "repository_scope_violation" ELSE "none"
    [] e.key = "depth" ->
         IF e.value = "malformed" THEN "invalid_request"
         ELSE IF e.depth >= pol.depth THEN "graph_depth_exceeded" ELSE "none"
    [] e.key = "path" -> IF e.value # "inside" THEN "path_scope_violation" ELSE "none"
    [] OTHER -> "none"

\* The walk of _validate_tool_parameters, at one entry.
EntryRefusal(pol, e) ==
  CASE e.key = "privileged" -> "privileged_parameter"
    [] e.key = "repository" ->
         IF e.value = "malformed" THEN "invalid_request"
         ELSE IF e.value \notin pol.repos THEN "repository_scope_violation" ELSE "none"
    [] e.key = "depth" ->
         IF e.value = "malformed" THEN "invalid_request"
         ELSE IF e.depth > pol.depth THEN "graph_depth_exceeded" ELSE "none"
    [] e.key = "path" -> IF e.value # "inside" THEN "path_scope_violation" ELSE "none"
    [] OTHER -> "none"

\* The first refusal of the walk.
ParameterRefusal(pol, p) ==
  LET refused == {i \in 1..Len(p) : EntryRefusal(pol, p[i]) # "none"} IN
  IF refused = {} THEN "none"
  ELSE EntryRefusal(pol, p[CHOOSE i \in refused : \A k \in refused : i <= k])

References(req) ==
  {req.parameters[i].value : i \in {k \in 1..Len(req.parameters) : req.parameters[k].key = "repository"}}
  \cup ({req.repository} \ {"none"})

ToolRefusal(pol, req) ==
  CASE req.tool = "blank" -> "invalid_request"
    [] req.tool # "blank" /\ req.tool \notin pol.tools -> "tool_not_allowlisted"
    [] OTHER ->
         IF req.privileged THEN "privileged_parameter"
         ELSE IF req.repository # "none" /\ req.repository \notin pol.repos THEN "repository_scope_violation"
         ELSE IF ParameterRefusal(pol, req.parameters) # "none" THEN ParameterRefusal(pol, req.parameters)
         ELSE IF Cardinality(pol.repos) > 1 /\ References(req) = {} THEN "repository_scope_required"
         ELSE "none"

\* authorize_model_action: "none" allows.
Refusal(pol, req, ids) ==
  IF DigestRefusal(req.parameters) # "none" THEN DigestRefusal(req.parameters)
  ELSE IF ~(req.cited \subseteq ids) THEN "unknown_evidence"
  ELSE CASE req.capability = "tool" -> ToolRefusal(pol, req)
         [] req.capability \in {"provider", "lane"} -> "control_plane_owned_capability"
         [] req.capability = "activation" -> "operator_owned_capability"
         [] req.capability \in {"network", "secret"} -> "trusted_runtime_grant_required"
         [] req.capability = "skip" -> "verification_required"

-----------------------------------------------------------------------------
(* One preparation, and the actions a model proposes after it. *)

NoRoute == Route("full", "medium", FALSE)
NoFacts == [gap |-> FALSE, structural |-> FALSE, changed |-> 0, roots |-> 1, crg |-> FALSE,
            budget |-> CHOOSE b \in TaskBudgets : TRUE]
NoContract == BuildContract(NoRoute, NoFacts)
NoPolicy == BuildPolicy(NoContract, NoFacts, {})

NoTask == [question |-> FALSE, change |-> FALSE, structural |-> FALSE, high |-> FALSE,
           full |-> FALSE, small |-> FALSE, short |-> FALSE, files |-> 0]

GateStart(signals) ==
  /\ phase = "task" /\ gateTask = signals
  /\ facts = NoFacts /\ contract = NoContract /\ policy = NoPolicy
  /\ escalates = FALSE /\ known = {} /\ gateVerdict = <<>>
GateInit == \E signals \in Tasks : GateStart(signals)

\* Classification, retrieval and the contract.  The text plays no part after
\* it; what is kept of it is whether it had to escalate.
Prepare ==
  /\ phase = "task"
  /\ \E f \in Facts :
       /\ facts' = f
       /\ contract' = BuildContract(Classify(gateTask), f)
  /\ phase' = "contracted" /\ gateTask' = NoTask
  /\ escalates' = (gateTask.change /\ gateTask.high)
  /\ UNCHANGED <<policy, known, gateVerdict>>

\* Evidence contributes the repositories it is from, and its own ids.
Gate ==
  /\ phase = "contracted"
  /\ \E repos \in SUBSET Repos :
       policy' = BuildPolicy(contract, facts, repos)
  /\ known' = {"cited"}
  /\ phase' = "gated" /\ facts' = NoFacts
  /\ UNCHANGED <<gateTask, contract, escalates, gateVerdict>>

Authorize ==
  /\ phase = "gated" /\ gateVerdict = <<>>
  /\ \E req \in Requests : gateVerdict' = <<req, Refusal(policy, req, known)>>
  /\ UNCHANGED <<phase, gateTask, facts, contract, policy, escalates, known>>

\* The gate keeps nothing of a request it has answered.
Answered ==
  /\ gateVerdict # <<>> /\ gateVerdict' = <<>>
  /\ UNCHANGED <<phase, gateTask, facts, contract, policy, escalates, known>>

GateNext == Prepare \/ Gate \/ Authorize \/ Answered

GateSpec == GateInit /\ [][GateNext]_gateVars

-----------------------------------------------------------------------------
(* Properties. *)

GateTypeOK ==
  /\ phase \in {"task", "contracted", "gated"} /\ gateTask \in Tasks /\ facts \in Facts
  /\ contract.lane \in Lanes /\ Len(contract.plan) <= 4
  /\ contract.depth >= 1 /\ policy.depth >= 1 /\ policy.verify >= 1
  /\ policy.repos \subseteq Repos /\ known \subseteq EvidenceIds
  /\ gateVerdict # <<>> => phase = "gated"

\* High-risk mutations escalate: a change with a high-risk keyword, however it
\* is phrased and whatever retrieval found, is prepared in the full lane at
\* high risk and verified as often as the budget allows, up to twice.
HighRiskEscalates ==
  phase = "contracted" /\ escalates =>
    /\ contract.lane = "full" /\ contract.risk = "high"
    /\ contract.verify = Lesser(2, facts.budget.verify)
    /\ contract.review = Lesser(2, facts.budget.review)

\* Component-wise conservation: no part of a contract exceeds its budget, and
\* the policy made of it grants no more tools and no deeper traversal.
BudgetConserved ==
  /\ phase = "contracted" =>
       /\ contract.slots <= facts.budget.slots /\ contract.depth <= facts.budget.depth
       /\ contract.review <= facts.budget.review /\ contract.verify <= facts.budget.verify
       /\ Len(contract.plan) <= facts.budget.calls
  /\ phase = "gated" =>
       /\ policy.tools \subseteq ToSet(contract.plan) /\ policy.depth <= contract.depth
       /\ policy.verify >= contract.verify

\* More risk never buys less care: with the same facts, the contract of a
\* riskier task of the full lane has no fewer passes, agents or levels.
RiskNeverRelaxes ==
  phase = "contracted" /\ contract.lane = "full" =>
    \A structural \in BOOLEAN, risk \in {"medium", "high"} :
      LET milder == BuildContract(Route("full", "medium", structural), facts)
          riskier == BuildContract(Route("full", risk, structural), facts) IN
      /\ milder.review <= riskier.review /\ milder.verify <= riskier.verify
      /\ milder.slots <= riskier.slots /\ milder.depth <= riskier.depth
      /\ risk = "high" => riskier.review = Lesser(2, facts.budget.review)

\* An allowed action stays within what was fixed before the model spoke: a
\* tool the contract planned, of a lane that runs tools; every repository it
\* names, at any level, is one the evidence is from, and it names one when
\* there are several; every depth, at any level, within the contract's; every
\* path inside; nothing privileged; no evidence made up.
AllowedStaysInScope ==
  gateVerdict # <<>> /\ gateVerdict[2] = "none" =>
    LET req == gateVerdict[1] IN
    /\ contract.lane # "answer" /\ req.capability = "tool" /\ req.tool \in ToSet(contract.plan)
    /\ References(req) \subseteq policy.repos
    /\ Cardinality(policy.repos) > 1 => References(req) # {}
    /\ ~req.privileged /\ "fabricated" \notin req.cited
    /\ \A i \in 1..Len(req.parameters) :
         LET e == req.parameters[i] IN
         /\ e.level <= MaxNesting /\ e.key # "privileged" /\ e.value # "oversize"
         /\ e.key = "depth" => e.value = "inside" /\ e.depth <= contract.depth
         /\ e.key = "path" => e.value = "inside"

\* And nothing that stays within it is refused.
ScopedIsAllowed ==
  gateVerdict # <<>> =>
    LET req == gateVerdict[1] IN
    /\ req.capability = "tool" /\ req.tool \in policy.tools /\ ~req.privileged /\ req.cited \subseteq known
    /\ req.repository \in policy.repos \cup {"none"}
    /\ \A i \in 1..Len(req.parameters) :
         LET e == req.parameters[i] IN
         /\ e.level <= MaxNesting /\ e.value \notin {"oversize", "malformed", "outside"} /\ e.key # "privileged"
         /\ e.key = "repository" => e.value \in policy.repos
         /\ e.key = "depth" => e.depth <= policy.depth
    /\ Cardinality(policy.repos) > 1 => References(req) # {}
    => gateVerdict[2] = "none"

\* What a model may do follows from the task and never from the model: high risk
\* escalates, no contract exceeds its budgets and more risk never buys less care
\* (build_orchestration_contract), and the gate allows exactly what stays within
\* the contract's tools, repositories, depth and paths (authorize).
GateSafety ==
  GateTypeOK /\ HighRiskEscalates /\ BudgetConserved /\ RiskNeverRelaxes /\ AllowedStaysInScope /\ ScopedIsAllowed
=============================================================================
