-------------------------- MODULE GatherPathProofs --------------------------
(***************************************************************************)
(* Proofs about five components a gather call passes through: what a task  *)
(* may do and the gate that judges it (CapabilityGate), the stages of the  *)
(* retrieval under one deadline (RetrievalPipeline), the base evidence of  *)
(* one repository and its budget (ContextGathering), one call of the code  *)
(* graph while the tree is edited (StructuralEvidence), and what is        *)
(* selected of the evidence and judged by it (ContextSelection).           *)
(***************************************************************************)
EXTENDS CapabilityGate, RetrievalPipeline, ContextGathering, ContextSelection,
        StructuralEvidence, FiniteSetTheorems, SequenceTheorems, WellFoundedInduction, TLAPS

LessThan == {p \in Nat \X Nat : p[1] < p[2]}

\* A set of natural numbers has a least element.
LEMMA LeastOf ==
  ASSUME NEW S \in SUBSET Nat, S # {} PROVE \E n \in S : \A m \in S : n <= m
<1>1. IsWellFoundedOn(LessThan, Nat)
  BY NatLessThanWellFounded DEF OpToRel, LessThan
<1>2. PICK n \in S : \A m \in S : ~(<<m, n>> \in LessThan)
  BY <1>1, WFMin
<1>3. ASSUME NEW m \in S, m < n PROVE FALSE
  <2>1. <<m, n>> \in LessThan
    BY <1>3 DEF LessThan
  <2> QED BY <1>2, <2>1
<1>4. n \in Nat /\ \A m \in S : m \in Nat /\ ~(m < n)
  BY <1>3
<1>5. \A m \in S : n <= m
  BY <1>4
<1> QED BY <1>5

-----------------------------------------------------------------------------
\* The values a preparation works with.
PlanSteps == {"minimal_context", "impact_radius", "query_graph", "review_context"}
RiskNames == {"low", "medium", "high"}
Levels == Nat \ {0}
TaskRoutes == [lane : Lanes, risk : RiskNames, structural : BOOLEAN]
AllBudgets == [slots : Levels, calls : Nat, depth : Levels, review : Levels, verify : Levels]

\* The budget of a task is one of the settings.
LEMMA BudgetOf ==
  ASSUME NEW f \in Facts
  PROVE  /\ f.budget \in AllBudgets /\ f.budget.slots \in Levels /\ f.budget.calls \in Nat
         /\ f.budget.depth \in Levels /\ f.budget.review \in Levels /\ f.budget.verify \in Levels
  BY GateAssumption DEF Facts, AllBudgets, Levels

\* Four parts joined, of which the middle two may be missing.
LEMMA FourJoined ==
  ASSUME NEW S, NEW a \in Seq(S), NEW b \in Seq(S), NEW c \in Seq(S), NEW e \in Seq(S),
         Len(a) = 1, Len(b) <= 1, Len(c) <= 1, Len(e) = 1
  PROVE  a \o b \o c \o e \in Seq(S) /\ Len(a \o b \o c \o e) \in 2..4
<1>1. Len(a) \in Nat /\ Len(b) \in Nat /\ Len(c) \in Nat /\ Len(e) \in Nat
  OBVIOUS
<1> DEFINE ab == a \o b
           abc == ab \o c
<1>2. ab \in Seq(S) /\ Len(ab) = Len(a) + Len(b)
  BY ConcatProperties
<1> HIDE DEF ab
<1>3. abc \in Seq(S) /\ Len(abc) = Len(ab) + Len(c)
  BY <1>2, ConcatProperties
<1> HIDE DEF abc
<1>4. abc \o e \in Seq(S) /\ Len(abc \o e) = Len(abc) + Len(e)
  BY <1>3, ConcatProperties
<1>5. abc \o e = a \o b \o c \o e
  BY DEF abc, ab
<1>6. Len(abc) + Len(e) \in 2..4
  BY <1>1, <1>2, <1>3
<1> QED BY <1>4, <1>5, <1>6

\* The steps planned on the graph: at most four, within the budget, none for an answer.
LEMMA PlanFits ==
  ASSUME NEW d \in TaskRoutes, NEW f \in Facts
  PROVE  /\ CrgPlan(d, f) \in Seq(PlanSteps) /\ Len(CrgPlan(d, f)) <= 4
         /\ Len(CrgPlan(d, f)) <= f.budget.calls
         /\ d.lane = "answer" => CrgPlan(d, f) = <<>>
<1>0. f.budget.calls \in Nat
  BY BudgetOf
<1>1. CASE ~f.crg \/ d.lane = "answer"
  <2>1. CrgPlan(d, f) = <<>>
    BY <1>1 DEF CrgPlan
  <2> QED BY <2>1, <1>0
<1>2. CASE ~(~f.crg \/ d.lane = "answer")
  <2> DEFINE impact == IF Structural(d, f) \/ f.changed >= 2 THEN <<"impact_radius">> ELSE <<>>
             query == IF Structural(d, f) THEN <<"query_graph">> ELSE <<>>
             first == <<"minimal_context">>
             last == <<"review_context">>
             plan == first \o impact \o query \o last
             n == Lesser(Len(plan), f.budget.calls)
  <2>1. \A x \in PlanSteps : <<x>> \in Seq(PlanSteps) /\ Len(<<x>>) = 1
    OBVIOUS
  <2>2. <<>> \in Seq(PlanSteps) /\ Len(<<>>) = 0
    OBVIOUS
  <2>3. /\ "minimal_context" \in PlanSteps /\ "review_context" \in PlanSteps
        /\ "impact_radius" \in PlanSteps /\ "query_graph" \in PlanSteps
    BY DEF PlanSteps
  <2>4. impact \in Seq(PlanSteps) /\ Len(impact) <= 1
    BY <2>1, <2>2, <2>3
  <2>5. query \in Seq(PlanSteps) /\ Len(query) <= 1
    BY <2>1, <2>2, <2>3
  <2>12. first \in Seq(PlanSteps) /\ Len(first) = 1 /\ last \in Seq(PlanSteps) /\ Len(last) = 1
    BY <2>1, <2>3
  <2> HIDE DEF impact, query, first, last
  <2>11. plan \in Seq(PlanSteps) /\ Len(plan) \in 2..4
    BY <2>4, <2>5, <2>12, FourJoined
  <2>6. CrgPlan(d, f) = SubSeq(plan, 1, n)
    BY <1>2 DEF CrgPlan, impact, query, first, last
  <2> HIDE DEF n, plan
  <2>8. n \in Nat /\ n <= Len(plan) /\ n <= f.budget.calls
    BY <2>11, <1>0 DEF Lesser, n
  <2>9. SubSeq(plan, 1, n) \in Seq(PlanSteps) /\ Len(SubSeq(plan, 1, n)) = n
    BY <2>11, <2>8
  <2>10. Len(CrgPlan(d, f)) <= 4
    BY <2>6, <2>11, <2>8, <2>9
  <2> QED BY <1>2, <2>6, <2>8, <2>9, <2>10
<1> QED BY <1>1, <1>2

\* A change with a high-risk keyword is routed to the full lane at high risk.
LEMMA ClassifyIsRoute ==
  ASSUME NEW t \in Tasks
  PROVE  /\ Classify(t) \in TaskRoutes
         /\ t.change /\ t.high => Classify(t).lane = "full" /\ Classify(t).risk = "high"
<1>1. FALSE \in BOOLEAN
  BY Zenon
<1>2. t.structural \in BOOLEAN
  BY DEF Tasks
<1>3. /\ "answer" \in Lanes /\ "small" \in Lanes /\ "full" \in Lanes
      /\ "low" \in RiskNames /\ "medium" \in RiskNames /\ "high" \in RiskNames
  BY DEF Lanes, RiskNames
<1>4. /\ Route("answer", "low", FALSE) \in TaskRoutes
      /\ Route("full", "high", t.structural) \in TaskRoutes
      /\ Route("full", "medium", t.structural) \in TaskRoutes
      /\ Route("small", "low", FALSE) \in TaskRoutes
      /\ Route("full", "medium", FALSE) \in TaskRoutes
      /\ Route("full", "high", t.structural).lane = "full"
      /\ Route("full", "high", t.structural).risk = "high"
  BY <1>1, <1>2, <1>3 DEF Route, TaskRoutes
<1>5. Classify(t) \in TaskRoutes
  BY <1>4 DEF Classify
<1>6. ASSUME t.change, t.high PROVE Classify(t) = Route("full", "high", t.structural)
  BY <1>6 DEF Classify
<1> QED BY <1>4, <1>5, <1>6

\* The weight of each risk.
LEMMA Weights == Weight("low") = 1 /\ Weight("medium") = 2 /\ Weight("high") = 3
<1>1. \A i \in 1..3 : /\ Risks[i] = "low" <=> i = 1
                      /\ Risks[i] = "medium" <=> i = 2
                      /\ Risks[i] = "high" <=> i = 3
  BY DEF Risks
<1> QED BY <1>1 DEF Weight

\* The score is a number.
LEMMA ComplexityIsInt ==
  ASSUME NEW d \in TaskRoutes, NEW f \in Facts PROVE Complexity(d, f) \in Int
<1>1. d.lane \in Lanes /\ d.risk \in RiskNames /\ f.changed \in Int /\ f.roots \in Int
  BY GateAssumption DEF TaskRoutes, Facts
<1>2. Weight(d.risk) \in Int
  BY <1>1, Weights DEF RiskNames
<1>3. Lesser(4, f.changed) \in Int /\ Lesser(2, f.roots - 1) \in Int
      /\ One(Structural(d, f)) \in Int /\ One(f.gap) \in Int
  BY <1>1 DEF Lesser, One
<1> QED BY <1>1, <1>2, <1>3 DEF Complexity, Lanes

\* What every contract is like.
FineContract(c, budget) ==
  /\ c.slots <= budget.slots /\ c.depth <= budget.depth
  /\ c.review <= budget.review /\ c.verify <= budget.verify
  /\ Len(c.plan) <= budget.calls

Contracts == [lane : Lanes, risk : RiskNames, plan : Seq(PlanSteps), slots : Levels, review : Levels,
              verify : Levels, depth : Levels]

\* A contract is within the budget part by part, and has the passes its route asks for.
LEMMA ContractIsFine ==
  ASSUME NEW d \in TaskRoutes, NEW f \in Facts
  PROVE  /\ BuildContract(d, f) \in Contracts
         /\ BuildContract(d, f).lane = d.lane /\ BuildContract(d, f).risk = d.risk
         /\ FineContract(BuildContract(d, f), f.budget)
         /\ Len(BuildContract(d, f).plan) <= 4
         /\ BuildContract(d, f).lane = "answer" => BuildContract(d, f).plan = <<>>
         /\ BuildContract(d, f).review = Lesser(Passes(d, f).review, f.budget.review)
         /\ BuildContract(d, f).verify = Lesser(Passes(d, f).verify, f.budget.verify)
<1> DEFINE score == Complexity(d, f)
           wanted == IF d.lane = "full" THEN 2 + One(score >= 8) + One(score >= 12) ELSE 1
           p == Passes(d, f)
           plan == CrgPlan(d, f)
           slots == Lesser(wanted, f.budget.slots)
           review == Lesser(p.review, f.budget.review)
           verify == Lesser(p.verify, f.budget.verify)
           depth == GraphDepth(score, f.budget)
<1>1. /\ f.budget.slots \in Levels /\ f.budget.calls \in Nat
      /\ f.budget.depth \in Levels /\ f.budget.review \in Levels /\ f.budget.verify \in Levels
  BY BudgetOf
<1>2. wanted \in Levels /\ p.review \in Levels /\ p.verify \in Levels
      /\ 1 + One(score >= 8) + One(score >= 12) \in Levels
  BY DEF One, Levels, Passes
<1>3. plan \in Seq(PlanSteps) /\ Len(plan) <= 4 /\ Len(plan) <= f.budget.calls
      /\ (d.lane = "answer" => plan = <<>>)
  BY PlanFits
<1> HIDE DEF wanted, p, plan, score
<1>4. /\ slots \in Levels /\ slots <= f.budget.slots /\ review \in Levels /\ review <= f.budget.review
      /\ verify \in Levels /\ verify <= f.budget.verify /\ depth \in Levels /\ depth <= f.budget.depth
  BY <1>1, <1>2 DEF Lesser, Levels, GraphDepth
<1>5. BuildContract(d, f) = [lane |-> d.lane, risk |-> d.risk, plan |-> plan, slots |-> slots,
                             review |-> review, verify |-> verify, depth |-> depth]
  BY DEF BuildContract, wanted, p, plan, score
<1>6. d.lane \in Lanes /\ d.risk \in RiskNames
  BY DEF TaskRoutes
<1> HIDE DEF slots, depth
<1>7. review = Lesser(Passes(d, f).review, f.budget.review) /\ verify = Lesser(Passes(d, f).verify, f.budget.verify)
  BY DEF p
<1> HIDE DEF review, verify
<1> QED BY <1>3, <1>4, <1>5, <1>6, <1>7 DEF Contracts, FineContract

\* More risk never buys less care, for any facts.
LEMMA RiskIsMonotone ==
  ASSUME NEW f \in Facts, NEW structural \in BOOLEAN, NEW risk \in {"medium", "high"}
  PROVE  LET milder == BuildContract(Route("full", "medium", structural), f)
             riskier == BuildContract(Route("full", risk, structural), f) IN
         /\ milder.review <= riskier.review /\ milder.verify <= riskier.verify
         /\ milder.slots <= riskier.slots /\ milder.depth <= riskier.depth
         /\ risk = "high" => riskier.review = Lesser(2, f.budget.review)
<1> DEFINE d == Route("full", "medium", structural)
           e == Route("full", risk, structural)
           a == Complexity(d, f)
           b == Complexity(e, f)
<1>1. /\ d \in TaskRoutes /\ e \in TaskRoutes /\ d.lane = "full" /\ e.lane = "full" /\ d.risk = "medium"
      /\ e.risk = risk /\ d.structural = e.structural
  BY DEF Route, TaskRoutes, Lanes, RiskNames
<1> HIDE DEF d, e
<1>2. a \in Int /\ b \in Int
  BY <1>1, ComplexityIsInt
<1>3. a <= b
  <2>1. Weight(d.risk) = 2 /\ Weight(e.risk) \in 2..3
    BY <1>1, Weights
  <2>2. f.changed \in Int /\ f.roots \in Int
    BY GateAssumption DEF Facts
  <2>3. Lesser(4, f.changed) \in Int /\ Lesser(2, f.roots - 1) \in Int
        /\ One(Structural(d, f)) = One(Structural(e, f)) /\ One(Structural(d, f)) \in Int /\ One(f.gap) \in Int
    BY <2>2, <1>1 DEF Lesser, One, Structural
  <2> QED BY <1>1, <2>1, <2>3 DEF Complexity
<1> HIDE DEF a, b
<1>4. /\ f.budget.slots \in Levels /\ f.budget.calls \in Nat
      /\ f.budget.depth \in Levels /\ f.budget.review \in Levels /\ f.budget.verify \in Levels
  BY BudgetOf
<1>5. /\ BuildContract(d, f).slots = Lesser(2 + One(a >= 8) + One(a >= 12), f.budget.slots)
      /\ BuildContract(e, f).slots = Lesser(2 + One(b >= 8) + One(b >= 12), f.budget.slots)
      /\ BuildContract(d, f).depth = Lesser(1 + One(a >= 8) + One(a >= 12), f.budget.depth)
      /\ BuildContract(e, f).depth = Lesser(1 + One(b >= 8) + One(b >= 12), f.budget.depth)
      /\ BuildContract(d, f).review = Lesser(1 + One(a >= 10), f.budget.review)
      /\ BuildContract(e, f).review = Lesser(1 + One(risk = "high" \/ b >= 10), f.budget.review)
      /\ BuildContract(d, f).verify = Lesser(1 + One(f.gap), f.budget.verify)
      /\ BuildContract(e, f).verify = Lesser(1 + One(risk = "high" \/ f.gap), f.budget.verify)
  BY <1>1 DEF BuildContract, Passes, GraphDepth, One, a, b
<1>6. /\ One(a >= 8) \in 0..1 /\ One(a >= 12) \in 0..1 /\ One(a >= 10) \in 0..1 /\ One(f.gap) \in 0..1
      /\ One(b >= 8) \in 0..1 /\ One(b >= 12) \in 0..1 /\ One(risk = "high" \/ b >= 10) \in 0..1
      /\ One(risk = "high" \/ f.gap) \in 0..1
      /\ One(a >= 8) <= One(b >= 8) /\ One(a >= 12) <= One(b >= 12)
      /\ One(a >= 10) <= One(risk = "high" \/ b >= 10) /\ One(f.gap) <= One(risk = "high" \/ f.gap)
      /\ risk = "high" => One(risk = "high" \/ b >= 10) = 1
  BY <1>2, <1>3 DEF One
<1>7. /\ BuildContract(d, f).review <= BuildContract(e, f).review
      /\ BuildContract(d, f).verify <= BuildContract(e, f).verify
      /\ BuildContract(d, f).slots <= BuildContract(e, f).slots
      /\ BuildContract(d, f).depth <= BuildContract(e, f).depth
      /\ risk = "high" => BuildContract(e, f).review = Lesser(2, f.budget.review)
  BY <1>4, <1>5, <1>6 DEF Lesser, Levels
<1> QED BY <1>7 DEF d, e
-----------------------------------------------------------------------------
\* What a model may propose, by its parts.
Proposals == [capability : Capabilities, tool : Tools, repository : Repos \cup {"none"},
              privileged : BOOLEAN, parameters : Seq(Entries), cited : SUBSET EvidenceIds]

\* Every request is a proposal.
LEMMA RequestsAreProposals == Requests \subseteq Proposals
<1>1. ASSUME NEW p \in Parameters PROVE p \in Seq(Entries)
  <2>1. MaxEntries \in Nat
    BY GateAssumption
  <2>2. PICK m \in 0..MaxEntries : p \in [1..m -> Entries]
    BY DEF Parameters, BoundedSeq, SeqOf
  <2> HIDE DEF Entries
  <2> QED BY <2>1, <2>2
<1>2. <<>> \in Seq(Entries)
  OBVIOUS
<1>3. /\ TRUE \in BOOLEAN /\ FALSE \in BOOLEAN
  BY Zenon
<1>4. /\ {} \in SUBSET EvidenceIds /\ {"cited"} \in SUBSET EvidenceIds
      /\ "minimal_context" \in Tools /\ "tool" \in Capabilities /\ "none" \in Repos \cup {"none"}
  BY DEF EvidenceIds, Tools, Capabilities
<1> DEFINE Params == Seq(Entries)
<1>5. <<>> \in Params /\ Parameters \subseteq Params /\ Proposals = [capability : Capabilities, tool : Tools, repository : Repos \cup {"none"},
              privileged : BOOLEAN, parameters : Params, cited : SUBSET EvidenceIds]
  BY <1>1, <1>2 DEF Proposals
<1> HIDE DEF Params
<1>6. ASSUME NEW c \in Capabilities, NEW t \in Tools, NEW r \in Repos \cup {"none"}, NEW x \in BOOLEAN,
             NEW p \in Params, NEW e \in SUBSET EvidenceIds
      PROVE  Request(c, t, r, x, p, e) \in Proposals
  BY <1>5 DEF Request
<1>7. /\ \A c \in Capabilities : Request(c, "minimal_context", "none", FALSE, <<>>, {}) \in Proposals
      /\ \A t \in Tools : Request("tool", t, "none", FALSE, <<>>, {"cited"}) \in Proposals
      /\ \A p \in Parameters : Request("tool", "minimal_context", "none", FALSE, p, {"cited"}) \in Proposals
      /\ \A r \in Repos \cup {"none"}, x \in BOOLEAN, e \in SUBSET EvidenceIds :
           Request("tool", "minimal_context", r, x, <<>>, e) \in Proposals
  BY <1>3, <1>4, <1>5, <1>6
<1> DEFINE Blank == {Request(c, "minimal_context", "none", FALSE, <<>>, {}) : c \in Capabilities}
           Planned == {Request("tool", t, "none", FALSE, <<>>, {"cited"}) : t \in Tools}
           Deep == {Request("tool", "minimal_context", "none", FALSE, p, {"cited"}) : p \in Parameters}
           Flat == {Request("tool", "minimal_context", r, x, <<>>, e) :
                      r \in Repos \cup {"none"}, x \in BOOLEAN, e \in SUBSET EvidenceIds}
<1>8. Blank \subseteq Proposals
  BY <1>7
<1>9. Planned \subseteq Proposals
  BY <1>7
<1>10. Deep \subseteq Proposals
  BY <1>7
<1>11. Flat \subseteq Proposals
  BY <1>7
<1>12. Requests = Blank \cup Planned \cup Deep \cup Flat
  BY DEF Requests
<1> HIDE DEF Blank, Planned, Deep, Flat
<1> QED BY <1>8, <1>9, <1>10, <1>11, <1>12

\* The walk refuses nothing exactly when it refuses no entry.
LEMMA WalkRefusesNothing ==
  ASSUME NEW pol, NEW p \in Seq(Entries)
  PROVE  ParameterRefusal(pol, p) = "none" <=> \A i \in 1..Len(p) : EntryRefusal(pol, p[i]) = "none"
<1> DEFINE refused == {i \in 1..Len(p) : EntryRefusal(pol, p[i]) # "none"}
<1>1. ParameterRefusal(pol, p) = IF refused = {} THEN "none"
                                 ELSE EntryRefusal(pol, p[CHOOSE i \in refused : \A k \in refused : i <= k])
  BY DEF ParameterRefusal
<1>2. refused \in SUBSET Nat
  OBVIOUS
<1>3. ASSUME refused # {}
      PROVE  (CHOOSE i \in refused : \A k \in refused : i <= k) \in refused
  <2> HIDE DEF refused
  <2>1. \E i \in refused : \A k \in refused : i <= k
    BY <1>2, <1>3, LeastOf
  <2> QED BY <2>1
<1>4. CASE refused = {}
  BY <1>1, <1>4
<1>5. CASE refused # {}
  BY <1>1, <1>3, <1>5
<1> QED BY <1>4, <1>5

\* Exactly what the gate allows.
Within(pol, req, ids) ==
  /\ \A i \in 1..Len(req.parameters) :
       /\ req.parameters[i].value # "oversize" /\ req.parameters[i].level <= MaxNesting
       /\ ~(req.parameters[i].key = "plain" /\ req.parameters[i].value = "malformed")
       /\ EntryRefusal(pol, req.parameters[i]) = "none"
  /\ req.cited \subseteq ids /\ req.capability = "tool" /\ req.tool # "blank" /\ req.tool \in pol.tools
  /\ ~req.privileged
  /\ req.repository # "none" => req.repository \in pol.repos
  /\ ~(Cardinality(pol.repos) > 1 /\ References(req) = {})

\* The gate allows a proposal exactly when it is within the policy.
LEMMA AllowedIsWithin ==
  ASSUME NEW pol, NEW req \in Proposals, NEW ids
  PROVE  Refusal(pol, req, ids) = "none" <=> Within(pol, req, ids)
<1> DEFINE p == req.parameters
<1>1. p \in Seq(Entries) /\ req.capability \in Capabilities
  BY DEF Proposals
<1>2. ASSUME NEW i \in 1..Len(p) PROVE p[i].level \in Int
  <2>1. MaxNesting \in Nat
    BY GateAssumption
  <2>2. p[i] \in Entries
    BY <1>1
  <2> QED BY <2>1, <2>2 DEF Entries
<1>3. DigestRefusal(p) = "none" <=>
        \A i \in 1..Len(p) : /\ p[i].value # "oversize" /\ p[i].level <= MaxNesting
                             /\ ~(p[i].key = "plain" /\ p[i].value = "malformed")
  <2>1. \A i \in 1..Len(p) : ~(p[i].level > MaxNesting) <=> p[i].level <= MaxNesting
    BY <1>2, GateAssumption
  <2> DEFINE n == Len(p)
  <2> HIDE DEF p, n
  <2>2. (\A i \in 1..n : ~(p[i].level > MaxNesting) <=> p[i].level <= MaxNesting)
        => ((IF \E i \in 1..n : p[i].value = "oversize" \/ p[i].level > MaxNesting
                THEN "parameter_budget_exceeded"
                ELSE IF \E i \in 1..n : p[i].key = "plain" /\ p[i].value = "malformed"
                     THEN "invalid_request" ELSE "none") = "none"
            <=> \A i \in 1..n : /\ p[i].value # "oversize" /\ p[i].level <= MaxNesting
                                /\ ~(p[i].key = "plain" /\ p[i].value = "malformed"))
    OBVIOUS
  <2> QED BY <2>1, <2>2 DEF DigestRefusal, n
<1>4. ParameterRefusal(pol, p) = "none" <=> \A i \in 1..Len(p) : EntryRefusal(pol, p[i]) = "none"
  BY <1>1, WalkRefusesNothing
<1>5. ToolRefusal(pol, req) = "none" <=>
        /\ req.tool # "blank" /\ req.tool \in pol.tools /\ ~req.privileged
        /\ req.repository # "none" => req.repository \in pol.repos
        /\ ParameterRefusal(pol, p) = "none"
        /\ ~(Cardinality(pol.repos) > 1 /\ References(req) = {})
  BY DEF ToolRefusal
<1>6. Refusal(pol, req, ids) = "none" <=>
        /\ DigestRefusal(p) = "none" /\ req.cited \subseteq ids
        /\ req.capability = "tool" /\ ToolRefusal(pol, req) = "none"
  BY <1>1 DEF Refusal, Capabilities
<1> QED BY <1>3, <1>4, <1>5, <1>6, Zenon DEF Within

-----------------------------------------------------------------------------
\* The policy made of a contract grants no more than the contract.
LEMMA PolicyIsWithin ==
  ASSUME NEW c \in Contracts, NEW f \in Facts, NEW repos
  PROVE  LET p == BuildPolicy(c, f, repos) IN
         /\ p.tools = ToSet(c.plan) /\ p.repos = repos
         /\ p.verify \in Levels /\ p.verify >= c.verify /\ p.depth \in Levels /\ p.depth <= c.depth
<1>1. f.budget.depth \in Levels /\ c.verify \in Levels /\ c.depth \in Levels
  BY BudgetOf DEF Contracts
<1>2. /\ Most(1, c.verify) \in Levels /\ Most(1, c.verify) >= c.verify
      /\ Most(1, Lesser(c.depth, f.budget.depth)) \in Levels
      /\ Most(1, Lesser(c.depth, f.budget.depth)) <= c.depth
  BY <1>1 DEF Most, Lesser, Levels
<1> QED BY <1>2 DEF BuildPolicy

\* The values before the first preparation have their types.
LEMMA StartIsFine ==
  /\ NoTask \in Tasks /\ NoFacts \in Facts /\ NoRoute \in TaskRoutes /\ NoContract \in Contracts
<1>1. FALSE \in BOOLEAN
  BY Zenon
<1>2. /\ 0 \in 0..3 /\ 0 \in 0..MaxChanged /\ 1 \in 1..MaxRoots
  BY GateAssumption
<1>3. (CHOOSE b \in TaskBudgets : TRUE) \in TaskBudgets
  BY GateAssumption
<1>4. NoTask \in Tasks
  BY <1>1, <1>2 DEF NoTask, Tasks
<1>5. NoFacts \in Facts
  BY <1>1, <1>2, <1>3 DEF NoFacts, Facts
<1>6. NoRoute \in TaskRoutes
  BY <1>1 DEF NoRoute, Route, TaskRoutes, Lanes, RiskNames
<1>7. NoContract \in Contracts
  BY <1>5, <1>6, ContractIsFine DEF NoContract
<1> QED BY <1>4, <1>5, <1>6, <1>7

\* The inductive invariant of the gate: the types, ...
GateTyped ==
  /\ phase \in {"task", "contracted", "gated"} /\ gateTask \in Tasks /\ facts \in Facts
  /\ contract \in Contracts /\ Len(contract.plan) <= 4 /\ (contract.lane = "answer" => contract.plan = <<>>)
  /\ policy.depth \in Levels /\ policy.verify \in Levels /\ policy.repos \subseteq Repos
  /\ known \subseteq {"cited"}

\* The contract fits the budget it was made for, and cares as much as the task asks.
ContractHolds ==
  phase = "contracted" =>
    /\ FineContract(contract, facts.budget)
    /\ escalates => /\ contract.lane = "full" /\ contract.risk = "high"
                    /\ contract.verify = Lesser(2, facts.budget.verify)
                    /\ contract.review = Lesser(2, facts.budget.review)

\* The policy grants what the contract plans.
PolicyHolds ==
  phase = "gated" =>
    /\ policy.tools = ToSet(contract.plan) /\ policy.depth <= contract.depth
    /\ policy.verify >= contract.verify /\ known = {"cited"}

\* The answer is the gate's, under the policy in force.
VerdictHolds ==
  gateVerdict # <<>> =>
    /\ phase = "gated"
    /\ \E req \in Requests : gateVerdict = <<req, Refusal(policy, req, known)>>

GateInv == GateTyped /\ ContractHolds /\ PolicyHolds /\ VerdictHolds

\* The invariant of the gate holds before the task is classified.
LEMMA GateInitFits == GateInit => GateInv
<1> SUFFICES ASSUME NEW signals \in Tasks, GateStart(signals) PROVE GateInv
  BY DEF GateInit
<1>1. /\ phase = "task" /\ gateTask = signals /\ facts = NoFacts /\ contract = NoContract
      /\ policy = NoPolicy /\ known = {} /\ gateVerdict = <<>>
  BY DEF GateStart
<1>2. Len(NoContract.plan) <= 4 /\ (NoContract.lane = "answer" => NoContract.plan = <<>>)
  BY StartIsFine, ContractIsFine DEF NoContract
<1>3. NoPolicy.depth \in Levels /\ NoPolicy.verify \in Levels /\ NoPolicy.repos \subseteq Repos
  BY StartIsFine, PolicyIsWithin DEF NoPolicy
<1>4. GateTyped
  BY <1>1, <1>2, <1>3, StartIsFine DEF GateTyped
<1> QED BY <1>1, <1>4 DEF GateInv, ContractHolds, PolicyHolds, VerdictHolds

\* Every step of the gate preserves it.
LEMMA GateNextFits == GateInv /\ [GateNext]_gateVars => GateInv'
<1> SUFFICES ASSUME GateInv, [GateNext]_gateVars PROVE GateInv'
  OBVIOUS
<1>1. ASSUME Prepare PROVE GateInv'
  <2>1. PICK f \in Facts : facts' = f /\ contract' = BuildContract(Classify(gateTask), f)
    BY <1>1 DEF Prepare
  <2>2. /\ phase = "task" /\ phase' = "contracted" /\ gateTask' = NoTask
        /\ escalates' = (gateTask.change /\ gateTask.high)
        /\ policy' = policy /\ known' = known /\ gateVerdict' = gateVerdict
    BY <1>1 DEF Prepare
  <2>3. gateVerdict = <<>>
    BY <2>2 DEF GateInv, VerdictHolds
  <2> DEFINE d == Classify(gateTask)
  <2>4. d \in TaskRoutes /\ (gateTask.change /\ gateTask.high => d.lane = "full" /\ d.risk = "high")
    BY ClassifyIsRoute DEF GateInv, GateTyped
  <2> HIDE DEF d
  <2>5. /\ contract' \in Contracts /\ contract'.lane = d.lane /\ contract'.risk = d.risk
        /\ FineContract(contract', f.budget) /\ Len(contract'.plan) <= 4
        /\ contract'.lane = "answer" => contract'.plan = <<>>
    BY <2>1, <2>4, ContractIsFine DEF d
  <2>6. /\ contract'.review = Lesser(Passes(d, f).review, f.budget.review)
        /\ contract'.verify = Lesser(Passes(d, f).verify, f.budget.verify)
    BY <2>1, <2>4, ContractIsFine DEF d
  <2>7. ASSUME escalates'
        PROVE  /\ contract'.lane = "full" /\ contract'.risk = "high"
               /\ contract'.verify = Lesser(2, f.budget.verify)
               /\ contract'.review = Lesser(2, f.budget.review)
    <3>1. d.lane = "full" /\ d.risk = "high"
      BY <2>2, <2>4, <2>7
    <3>2. Passes(d, f).review = 2 /\ Passes(d, f).verify = 2
      BY <3>1 DEF Passes, One
    <3> QED BY <3>1, <3>2, <2>5, <2>6
  <2>8. GateTyped'
    BY <2>1, <2>2, <2>5, StartIsFine DEF GateInv, GateTyped
  <2>9. ContractHolds'
    BY <2>1, <2>2, <2>5, <2>7 DEF ContractHolds
  <2> QED BY <2>2, <2>3, <2>8, <2>9 DEF GateInv, PolicyHolds, VerdictHolds
<1>2. ASSUME Gate PROVE GateInv'
  <2>1. PICK repos \in SUBSET Repos : policy' = BuildPolicy(contract, facts, repos)
    BY <1>2 DEF Gate
  <2>2. /\ phase = "contracted" /\ known' = {"cited"} /\ phase' = "gated" /\ facts' = NoFacts
        /\ gateTask' = gateTask /\ contract' = contract /\ gateVerdict' = gateVerdict
    BY <1>2 DEF Gate
  <2>3. gateVerdict = <<>>
    BY <2>2 DEF GateInv, VerdictHolds
  <2>4. contract \in Contracts /\ facts \in Facts
    BY DEF GateInv, GateTyped
  <2>5. /\ policy'.tools = ToSet(contract.plan) /\ policy'.repos = repos
        /\ policy'.verify \in Levels /\ policy'.verify >= contract.verify
        /\ policy'.depth \in Levels /\ policy'.depth <= contract.depth
    BY <2>1, <2>4, PolicyIsWithin
  <2>6. GateTyped'
    BY <2>2, <2>5, StartIsFine DEF GateInv, GateTyped
  <2>7. PolicyHolds'
    BY <2>2, <2>5 DEF PolicyHolds
  <2> QED BY <2>2, <2>3, <2>6, <2>7 DEF GateInv, ContractHolds, VerdictHolds
<1>3. ASSUME Authorize PROVE GateInv'
  <2>1. /\ phase = "gated" /\ phase' = phase /\ gateTask' = gateTask /\ facts' = facts
        /\ contract' = contract /\ policy' = policy /\ known' = known
    BY <1>3 DEF Authorize
  <2>2. \E req \in Requests : gateVerdict' = <<req, Refusal(policy, req, known)>>
    BY <1>3 DEF Authorize
  <2>3. VerdictHolds'
    BY <2>1, <2>2 DEF VerdictHolds
  <2> QED BY <2>1, <2>3 DEF GateInv, GateTyped, ContractHolds, PolicyHolds
<1>4. ASSUME Answered PROVE GateInv'
  BY <1>4 DEF Answered, GateInv, GateTyped, ContractHolds, PolicyHolds, VerdictHolds
<1>5. CASE UNCHANGED gateVars
  BY <1>5 DEF gateVars, GateInv, GateTyped, ContractHolds, PolicyHolds, VerdictHolds
<1> QED BY <1>1, <1>2, <1>3, <1>4, <1>5 DEF GateNext

\* It implies the safety of the gate.
LEMMA GateInvIsSafe == GateInv => GateSafety
<1> SUFFICES ASSUME GateInv PROVE GateSafety
  OBVIOUS
<1> USE DEF GateInv
<1>1. /\ contract \in Contracts /\ policy.depth \in Levels /\ policy.verify \in Levels /\ facts \in Facts
      /\ contract.lane \in Lanes /\ contract.depth \in Levels
  BY DEF GateTyped, Contracts
<1>2. GateTypeOK
  BY <1>1 DEF GateTypeOK, GateTyped, VerdictHolds, EvidenceIds, Levels
<1>3. HighRiskEscalates
  BY DEF HighRiskEscalates, ContractHolds
<1>4. BudgetConserved
  BY DEF BudgetConserved, ContractHolds, PolicyHolds, FineContract
<1>5. RiskNeverRelaxes
  BY <1>1, RiskIsMonotone DEF RiskNeverRelaxes
<1>6. AllowedStaysInScope
  <2> SUFFICES ASSUME gateVerdict # <<>>, gateVerdict[2] = "none"
               PROVE  LET req == gateVerdict[1] IN
                      /\ contract.lane # "answer" /\ req.capability = "tool" /\ req.tool \in ToSet(contract.plan)
                      /\ References(req) \subseteq policy.repos
                      /\ Cardinality(policy.repos) > 1 => References(req) # {}
                      /\ ~req.privileged /\ "fabricated" \notin req.cited
                      /\ \A i \in 1..Len(req.parameters) :
                           LET e == req.parameters[i] IN
                           /\ e.level <= MaxNesting /\ e.key # "privileged" /\ e.value # "oversize"
                           /\ e.key = "depth" => e.value = "inside" /\ e.depth <= contract.depth
                           /\ e.key = "path" => e.value = "inside"
    BY DEF AllowedStaysInScope
  <2>1. PICK req \in Requests : gateVerdict = <<req, Refusal(policy, req, known)>>
    BY DEF VerdictHolds
  <2>2. /\ gateVerdict[1] = req /\ Refusal(policy, req, known) = "none" /\ req \in Proposals
    BY <2>1, RequestsAreProposals
  <2>3. Within(policy, req, known)
    BY <2>2, AllowedIsWithin
  <2>4. /\ policy.tools = ToSet(contract.plan) /\ policy.depth <= contract.depth /\ known = {"cited"}
    BY DEF VerdictHolds, PolicyHolds
  <2>5. ASSUME NEW i \in 1..Len(req.parameters)
        PROVE  LET e == req.parameters[i] IN
               /\ e.level <= MaxNesting /\ e.key # "privileged" /\ e.value # "oversize"
               /\ e.key = "depth" => e.value = "inside" /\ e.depth <= contract.depth
               /\ e.key = "path" => e.value = "inside"
               /\ e.key = "repository" => e.value \in policy.repos
    <3> DEFINE e == req.parameters[i]
    <3>1. /\ e.level <= MaxNesting /\ e.value # "oversize" /\ EntryRefusal(policy, e) = "none"
      BY <2>3 DEF Within
    <3>2. e \in Entries
      BY <2>2 DEF Proposals
    <3>3. e.key \in {"plain", "privileged", "repository", "depth", "path"} /\ e.depth \in Int
      BY <3>2 DEF Entries
    <3>4. e.key = "depth" => e.value \in {"inside", "malformed"}
      BY <3>1, <3>2 DEF Entries
    <3>5. policy.depth \in Int /\ contract.depth \in Int
      BY <1>1 DEF Levels
    <3> HIDE DEF e
    <3>7. e.key # "privileged"
      BY <3>1 DEF EntryRefusal
    <3>8. e.key = "repository" => e.value \in policy.repos
      BY <3>1 DEF EntryRefusal
    <3>9. ASSUME e.key = "depth" PROVE e.value = "inside" /\ e.depth <= contract.depth
      <4>1. e.value # "malformed" /\ ~(e.depth > policy.depth)
        BY <3>1, <3>9 DEF EntryRefusal
      <4> QED BY <4>1, <3>1, <3>3, <3>4, <3>5, <3>9, <2>4
    <3>10. e.key = "path" => e.value = "inside"
      BY <3>1 DEF EntryRefusal
    <3> QED BY <3>1, <3>7, <3>8, <3>9, <3>10 DEF e
  <2>6. References(req) \subseteq policy.repos
    BY <2>3, <2>5 DEF References, Within
  <2>7. /\ req.capability = "tool" /\ req.tool \in ToSet(contract.plan) /\ ~req.privileged
        /\ "fabricated" \notin req.cited /\ (Cardinality(policy.repos) > 1 => References(req) # {})
    BY <2>3, <2>4 DEF Within
  <2>8. contract.lane # "answer"
    <3>1. ToSet(<<>>) = {}
      BY DEF ToSet
    <3> QED BY <3>1, <2>7 DEF GateTyped
  <2> QED BY <2>2, <2>5, <2>6, <2>7, <2>8
<1>7. ScopedIsAllowed
  <2> SUFFICES ASSUME gateVerdict # <<>>, NEW req, req = gateVerdict[1],
                      req.capability = "tool", req.tool \in policy.tools, ~req.privileged,
                      req.cited \subseteq known, req.repository \in policy.repos \cup {"none"},
                      \A i \in 1..Len(req.parameters) :
                        LET e == req.parameters[i] IN
                        /\ e.level <= MaxNesting /\ e.value \notin {"oversize", "malformed", "outside"}
                        /\ e.key # "privileged" /\ (e.key = "repository" => e.value \in policy.repos)
                        /\ (e.key = "depth" => e.depth <= policy.depth),
                      Cardinality(policy.repos) > 1 => References(req) # {}
               PROVE  gateVerdict[2] = "none"
    BY DEF ScopedIsAllowed
  <2>1. /\ req \in Requests /\ gateVerdict[2] = Refusal(policy, req, known)
    BY DEF VerdictHolds
  <2>2. req \in Proposals
    BY <2>1, RequestsAreProposals
  <2>3. req.tool # "blank"
    <3>1. contract.plan \in Seq(PlanSteps) /\ policy.tools = ToSet(contract.plan)
      BY <1>1 DEF Contracts, VerdictHolds, PolicyHolds
    <3>2. ToSet(contract.plan) \subseteq PlanSteps
      BY <3>1 DEF ToSet
    <3> QED BY <3>1, <3>2 DEF PlanSteps
  <2>4. ASSUME NEW i \in 1..Len(req.parameters)
        PROVE  /\ EntryRefusal(policy, req.parameters[i]) = "none"
               /\ req.parameters[i].value \notin {"oversize", "malformed"} /\ req.parameters[i].level <= MaxNesting
    <3> DEFINE e == req.parameters[i]
    <3>1. e \in Entries
      BY <2>2 DEF Proposals
    <3>2. /\ e.key \in {"plain", "privileged", "repository", "depth", "path"} /\ e.depth \in Int
          /\ policy.depth \in Int
      BY <3>1, <1>1 DEF Entries, Levels
    <3>3. e.key = "path" => e.value \in {"inside", "outside", "malformed", "oversize"}
      BY <3>1 DEF Entries
    <3>4. /\ e.level <= MaxNesting /\ e.value \notin {"oversize", "malformed", "outside"}
          /\ e.key # "privileged" /\ (e.key = "repository" => e.value \in policy.repos)
          /\ (e.key = "depth" => ~(e.depth > policy.depth))
      BY <3>2
    <3> HIDE DEF e
    <3>5. EntryRefusal(policy, e) = "none"
      BY <3>2, <3>3, <3>4 DEF EntryRefusal
    <3> QED BY <3>4, <3>5 DEF e
  <2>5. Within(policy, req, known)
    BY <2>3, <2>4 DEF Within
  <2> QED BY <2>1, <2>2, <2>5, AllowedIsWithin
<1> QED BY <1>2, <1>3, <1>4, <1>5, <1>6, <1>7 DEF GateSafety

\* For any repositories, budgets and bounds on a request, the capability gate is
\* safe: high risk escalates, no contract exceeds its budget, more risk never buys
\* less care, and the gate allows exactly what stays within the contract
\* (build_orchestration_contract, authorize_model_action).
THEOREM GateIsSafe == GateSpec => []GateSafety
  BY GateInitFits, GateNextFits, GateInvIsSafe, PTL DEF GateSpec

-----------------------------------------------------------------------------
(* RetrievalPipeline: sequences in rising order, then the invariant. *)

Rising(s) == \A i, j \in 1..Len(s) : i < j => s[i] < s[j]
Content(s) == {s[i] : i \in 1..Len(s)}

\* InOrder lists a finite set of numbers, each once and least first.
LEMMA InOrderLists ==
  ASSUME NEW S \in SUBSET Nat, IsFiniteSet(S)
  PROVE  /\ InOrder(S) \in Seq(S) /\ Rising(InOrder(S)) /\ Content(InOrder(S)) = S
         /\ Len(InOrder(S)) = Cardinality(S)
<1> DEFINE n == Cardinality(S)
           below(c) == {d \in S : d < c}
           rank == [c \in S |-> Cardinality(below(c))]
           T == 0..(n - 1)
           order == InOrder(S)
<1>1. n \in Nat
  BY FS_CardinalityType
<1>2. ASSUME NEW c \in S
      PROVE  /\ IsFiniteSet(below(c)) /\ Cardinality(below(c)) \in Nat /\ Cardinality(below(c)) < n
  <2>1. below(c) \in SUBSET S /\ c \notin below(c) /\ c \in Nat
    OBVIOUS
  <2>2. IsFiniteSet(below(c)) /\ Cardinality(below(c)) <= n /\ (n = Cardinality(below(c)) => S = below(c))
    BY <2>1, FS_Subset
  <2>3. Cardinality(below(c)) \in Nat
    BY <2>2, FS_CardinalityType
  <2> HIDE DEF below
  <2> QED BY <1>1, <2>1, <2>2, <2>3
<1>3. ASSUME NEW c \in S, NEW d \in S, c < d PROVE Cardinality(below(c)) < Cardinality(below(d))
  <2>0. c \in Nat /\ d \in Nat /\ S \subseteq Nat
    OBVIOUS
  <2>4. \A e \in S : e \in Nat /\ (e < c => e < d)
    BY <1>3, <2>0
  <2>5. c < d /\ ~(c < c)
    BY <1>3, <2>0
  <2>1. below(c) \in SUBSET below(d) /\ c \in below(d) /\ c \notin below(c)
    BY <2>4, <2>5, Zenon
  <2>2. IsFiniteSet(below(d))
    BY <1>2
  <2> HIDE DEF below
  <2>3. Cardinality(below(c)) <= Cardinality(below(d)) /\ Cardinality(below(d)) # Cardinality(below(c))
    BY <2>1, <2>2, FS_Subset
  <2> QED BY <1>2, <2>3
<1>4. \A c \in S : rank[c] = Cardinality(below(c)) /\ rank[c] \in T
  BY <1>1, <1>2
<1>5. \A c, d \in S : c < d => rank[c] < rank[d]
  BY <1>3
<1>6. rank \in [S -> T]
  BY <1>1, <1>2
<1>11. order = [i \in 1..n |-> CHOOSE c \in S : Cardinality(below(c)) = i - 1]
  BY DEF InOrder
<1> HIDE DEF rank, below
<1>7. rank \in Injection(S, T)
  <2>1. \A c, d \in S : c # d => rank[c] # rank[d]
    <3> SUFFICES ASSUME NEW c \in S, NEW d \in S, c # d PROVE rank[c] # rank[d]
      OBVIOUS
    <3>1. c \in Nat /\ d \in Nat /\ rank[c] \in Int /\ rank[d] \in Int
      BY <1>1, <1>4
    <3>2. c < d \/ d < c
      BY <3>1
    <3> QED BY <1>5, <3>1, <3>2
  <2> QED BY <1>6, <2>1 DEF Injection, IsInjective
<1>8. IsFiniteSet(T) /\ Cardinality(T) = n
  <2>1. 0 \in Int /\ n - 1 \in Int
    BY <1>1
  <2>2. IsFiniteSet(T) /\ Cardinality(T) = IF 0 > n - 1 THEN 0 ELSE (n - 1) - 0 + 1
    BY <2>1, FS_Interval
  <2> QED BY <1>1, <2>2
<1>9. rank \in Surjection(S, T)
  BY <1>7, <1>8, FS_Injection
<1> HIDE DEF T, n
<1>10. \A t \in T : \E c \in S : rank[c] = t
  BY <1>9 DEF Surjection
<1>12. ASSUME NEW i \in 1..n PROVE order[i] \in S /\ rank[order[i]] = i - 1
  <2>1. i - 1 \in T
    BY <1>1 DEF T
  <2>2. PICK c \in S : rank[c] = i - 1
    BY <1>10, <2>1
  <2>3. Cardinality(below(c)) = i - 1
    BY <1>4, <2>2
  <2>4. order[i] \in S /\ Cardinality(below(order[i])) = i - 1
    BY <1>11, <2>3
  <2> QED BY <1>4, <2>4
<1> HIDE DEF order
<1>13. order \in Seq(S) /\ Len(order) = n
  BY <1>1, <1>11, <1>12
<1>14. Rising(order)
  <2> SUFFICES ASSUME NEW i \in 1..n, NEW j \in 1..n, i < j PROVE order[i] < order[j]
    BY <1>13 DEF Rising
  <2>1. /\ order[i] \in S /\ order[j] \in S /\ rank[order[i]] = i - 1 /\ rank[order[j]] = j - 1
        /\ order[i] \in Nat /\ order[j] \in Nat
    BY <1>12
  <2>2. ~(order[j] < order[i]) /\ order[i] # order[j]
    BY <1>1, <1>5, <2>1
  <2> QED BY <2>1, <2>2
<1>15. Content(order) = S
  <2>1. Content(order) \subseteq S
    BY <1>12, <1>13 DEF Content
  <2>2. ASSUME NEW c \in S PROVE c \in Content(order)
    <3>1. rank[c] \in T /\ rank[c] + 1 \in 1..n
      BY <1>1, <1>4 DEF T
    <3> DEFINE e == order[rank[c] + 1]
    <3>2. e \in S /\ rank[e] = rank[c]
      BY <1>1, <1>12, <3>1 DEF T
    <3>3. e = c
      BY <1>7, <3>2 DEF Injection, IsInjective
    <3> QED BY <1>13, <3>1, <3>3 DEF Content
  <2> QED BY <2>1, <2>2
<1> QED BY <1>13, <1>14, <1>15 DEF order, n

\* Two rising sequences of the same numbers are the same.
LEMMA RisingIsUnique ==
  ASSUME NEW s \in Seq(Nat), NEW t \in Seq(Nat), Rising(s), Rising(t), Content(s) = Content(t)
  PROVE  s = t
<1>1. Len(s) \in Nat /\ Len(t) \in Nat /\ (\A i \in 1..Len(s) : s[i] \in Nat) /\ (\A i \in 1..Len(t) : t[i] \in Nat)
  OBVIOUS
<1> DEFINE common == {i \in Nat : i \in 1..Len(s) /\ i \in 1..Len(t)}
           differ == {i \in common : s[i] # t[i]}
<1>2. differ = {}
  <2> SUFFICES ASSUME differ # {} PROVE FALSE
    OBVIOUS
  <2>1. differ \in SUBSET Nat
    OBVIOUS
  <2>2. PICK i \in differ : \A k \in differ : i <= k
    BY <2>1, LeastOf
  <2>3. i \in 1..Len(s) /\ i \in 1..Len(t) /\ s[i] # t[i] /\ s[i] \in Nat /\ t[i] \in Nat /\ i \in Nat
    <3>1. i \in common /\ s[i] # t[i]
      OBVIOUS
    <3>2. i \in Nat /\ i \in 1..Len(s) /\ i \in 1..Len(t)
      BY <3>1
    <3> QED BY <1>1, <3>1, <3>2
  <2>4. \A k \in 1..Len(s) : k \in 1..Len(t) /\ k < i => s[k] = t[k]
    BY <1>1, <2>2
  <2> HIDE DEF differ, common
  <2>5. ASSUME s[i] < t[i] PROVE FALSE
    <3>1. PICK j \in 1..Len(t) : t[j] = s[i]
      BY <2>3 DEF Content
    <3>2. ~(i < j) /\ i # j
      BY <2>3, <2>5, <3>1 DEF Rising
    <3>3. j < i /\ j \in 1..Len(s)
      BY <1>1, <2>3, <3>2
    <3>4. s[j] < s[i]
      BY <2>3, <3>3 DEF Rising
    <3>5. s[j] = t[j]
      BY <2>4, <3>3
    <3> QED BY <2>3, <3>1, <3>4, <3>5
  <2>6. ASSUME t[i] < s[i] PROVE FALSE
    <3>1. PICK j \in 1..Len(s) : s[j] = t[i]
      BY <2>3 DEF Content
    <3>2. ~(i < j) /\ i # j
      BY <2>3, <2>6, <3>1 DEF Rising
    <3>3. j < i /\ j \in 1..Len(t)
      BY <1>1, <2>3, <3>2
    <3>4. t[j] < t[i]
      BY <2>3, <3>3 DEF Rising
    <3>5. s[j] = t[j]
      BY <2>4, <3>3
    <3> QED BY <2>3, <3>1, <3>4, <3>5
  <2> QED BY <1>1, <2>3, <2>5, <2>6
<1>3. ASSUME NEW i \in 1..Len(s), i \in 1..Len(t) PROVE s[i] = t[i]
  <2>1. i \in Nat
    BY <1>1
  <2>2. i \in common
    BY <1>3, <2>1
  <2> HIDE DEF common
  <2> QED BY <1>2, <2>2
<1> HIDE DEF differ, common
<1>4. Len(s) <= Len(t)
  <2> SUFFICES ASSUME Len(t) < Len(s) PROVE FALSE
    BY <1>1
  <2> DEFINE m == Len(t) + 1
  <2>1. m \in 1..Len(s)
    BY <1>1
  <2>2. PICK j \in 1..Len(t) : t[j] = s[m]
    BY <2>1 DEF Content
  <2>3. j \in 1..Len(s) /\ s[j] = s[m] /\ j < m
    BY <1>1, <1>3, <2>2
  <2> HIDE DEF m
  <2> QED BY <1>1, <2>1, <2>3 DEF Rising
<1>5. Len(t) <= Len(s)
  <2> SUFFICES ASSUME Len(s) < Len(t) PROVE FALSE
    BY <1>1
  <2> DEFINE m == Len(s) + 1
  <2>1. m \in 1..Len(t)
    BY <1>1
  <2>2. PICK j \in 1..Len(s) : s[j] = t[m]
    BY <2>1 DEF Content
  <2>3. j \in 1..Len(t) /\ t[j] = t[m] /\ j < m
    BY <1>1, <1>3, <2>2
  <2> HIDE DEF m
  <2> QED BY <1>1, <2>1, <2>3 DEF Rising
<1>6. Len(s) = Len(t) /\ \A i \in 1..Len(s) : s[i] = t[i]
  BY <1>1, <1>3, <1>4, <1>5
<1> QED BY <1>6, SeqEqual

-----------------------------------------------------------------------------
\* The inductive invariant of the pipeline.
NCalls == NBase + NSpecialists + 2

\* Where a stage's calls begin in the engine's list: after those of the stages before it.
Prior(s) ==
  CASE s = "base" -> 0
    [] s = "specialists" -> NBase
    [] s = "structural" -> NBase + NSpecialists
    [] s = "scip" -> NBase + NSpecialists + 1
    [] OTHER -> NCalls
\* And where those of the next one begin.
Upto(s) ==
  CASE s = "base" -> NBase
    [] s = "specialists" -> NBase + NSpecialists
    [] s = "structural" -> NBase + NSpecialists + 1
    [] OTHER -> NCalls

Stages == {"base", "specialists", "structural", "scip"}
Collected == attempted \ Scheduled

\* The batch is what is scheduled of the stage, in input order; what was
\* collected comes before it.
BatchHolds ==
  /\ Rising(batch) /\ (stage \notin Stages => batch = <<>>)
  /\ batch # <<>> => /\ Scheduled \subseteq attempted
                     /\ \A c \in Scheduled : Prior(stage) < c /\ c <= Upto(stage)
                     /\ \A c \in Collected : c <= Prior(stage)
  /\ \A c \in attempted : c <= Upto(stage)

\* Every collected call ended, with items or an error.
MergeHolds ==
  stage # "cancelled" =>
    /\ Rising(merged) /\ Content(merged) = {c \in Collected : HasItems(c)}
    /\ errors = {c \in Collected : outcome[c] # "ok"}
    /\ \A c \in Collected : outcome[c] # "none"

\* No call waits for a thread but those of the batch, and a thread works for
\* another only when the time is over.
PoolHolds ==
  /\ \A c \in Calls : worker[c] = "queued" => c \in Scheduled
  /\ batch # <<>> => Running \subseteq Scheduled
  /\ \A c \in Calls :
       /\ stage # "cancelled" /\ worker[c] = "running" /\ c \notin Scheduled => expired
       /\ c \in Scheduled /\ worker[c] \in {"queued", "running"} /\ outcome[c] # "none" => expired
  /\ Cardinality(Running) <= MaxConcurrency

PipelineInv == PipelineTypeOK /\ BatchHolds /\ MergeHolds /\ PoolHolds

-----------------------------------------------------------------------------
\* The stages' calls follow one another in the numbering.
LEMMA Numbers ==
  /\ NBase \in Nat \ {0} /\ NSpecialists \in Nat /\ MaxConcurrency \in Nat \ {0}
  /\ NCalls \in Nat /\ Calls = 1..NCalls /\ Calls \in SUBSET Nat /\ IsFiniteSet(Calls)
  /\ \A s \in Stages : /\ CallsOf(s) = (Prior(s) + 1)..Upto(s) /\ Prior(s) \in Nat /\ Upto(s) \in Nat
                        /\ Prior(s) <= Upto(s) /\ Upto(s) <= NCalls
  /\ \A s \in DOMAIN StageAfter :
       /\ s \in Stages /\ StageAfter[s] \in Stages /\ Prior(StageAfter[s]) = Upto(s)
       /\ StageAfter[s] # "base"
<1>1. NBase \in Nat \ {0} /\ NSpecialists \in Nat /\ MaxConcurrency \in Nat \ {0}
  BY PipelineAssumption
<1>2. NCalls \in Nat /\ Calls = 1..NCalls /\ Calls \in SUBSET Nat
  BY <1>1 DEF NCalls, Calls
<1>3. IsFiniteSet(Calls)
  BY <1>1, <1>2, FS_Interval
<1>4. \A s \in Stages : /\ CallsOf(s) = (Prior(s) + 1)..Upto(s) /\ Prior(s) \in Nat /\ Upto(s) \in Nat
                        /\ Prior(s) <= Upto(s) /\ Upto(s) <= NCalls
  <2> SUFFICES ASSUME NEW s \in Stages
               PROVE  /\ CallsOf(s) = (Prior(s) + 1)..Upto(s) /\ Prior(s) \in Nat /\ Upto(s) \in Nat
                      /\ Prior(s) <= Upto(s) /\ Upto(s) <= NCalls
    OBVIOUS
  <2>1. \A k \in Nat : {k} = k..k
    OBVIOUS
  <2>2. CASE s = "base"
    BY <1>1, <2>2 DEF CallsOf, Prior, Upto, NCalls
  <2>3. CASE s = "specialists"
    BY <1>1, <2>3 DEF CallsOf, Prior, Upto, NCalls
  <2>4. CASE s = "structural"
    <3>1. Prior(s) = NBase + NSpecialists /\ Upto(s) = NBase + NSpecialists + 1
      BY <2>4 DEF Prior, Upto
    <3>2. CallsOf(s) = {NBase + NSpecialists + 1}
      BY <2>4 DEF CallsOf
    <3> QED BY <1>1, <2>1, <3>1, <3>2 DEF NCalls
  <2>5. CASE s = "scip"
    <3>1. Prior(s) = NBase + NSpecialists + 1 /\ Upto(s) = NBase + NSpecialists + 2
      BY <2>5 DEF Prior, Upto, NCalls
    <3>2. CallsOf(s) = {NBase + NSpecialists + 2}
      BY <2>5 DEF CallsOf
    <3> QED BY <1>1, <2>1, <3>1, <3>2 DEF NCalls
  <2> QED BY <2>2, <2>3, <2>4, <2>5 DEF Stages
<1>5. \A s \in DOMAIN StageAfter :
       /\ s \in Stages /\ StageAfter[s] \in Stages /\ Prior(StageAfter[s]) = Upto(s)
       /\ StageAfter[s] # "base"
  BY DEF StageAfter, Stages, Prior, Upto
<1> QED BY <1>1, <1>2, <1>3, <1>4, <1>5

\* What is listed in order is of the stage it was listed for.
LEMMA BatchOf ==
  ASSUME NEW S \in SUBSET Calls
  PROVE  /\ InOrder(S) \in Seq(Calls) /\ Rising(InOrder(S)) /\ Content(InOrder(S)) = S
<1>1. S \in SUBSET Nat /\ IsFiniteSet(S)
  BY Numbers, FS_Subset
<1>2. InOrder(S) \in Seq(S) /\ Rising(InOrder(S)) /\ Content(InOrder(S)) = S
  BY <1>1, InOrderLists
<1> QED BY <1>2, SeqMonotonic

\* What is scheduled is what the batch lists.
LEMMA ScheduledIsContent ==
  ASSUME batch \in Seq(Calls)
  PROVE  Scheduled = Content(batch) /\ Scheduled \subseteq Calls /\ (batch = <<>> <=> Scheduled = {})
<1>1. DOMAIN batch = 1..Len(batch) /\ Len(batch) \in Nat /\ (batch # <<>> => Len(batch) # 0)
  OBVIOUS
<1>2. batch # <<>> => 1 \in 1..Len(batch)
  BY <1>1
<1>3. \A i \in 1..Len(batch) : batch[i] \in Calls
  OBVIOUS
<1>4. Len(<<>>) = 0
  OBVIOUS
<1> QED BY <1>1, <1>2, <1>3, <1>4 DEF Scheduled, Content

\* The calls of the batch that have items, in its order.
LEMMA DeliveredIs ==
  ASSUME batch \in Seq(Calls), Rising(batch)
  PROVE  /\ Delivered \in Seq(Calls) /\ Rising(Delivered)
         /\ Content(Delivered) = {c \in Scheduled : HasItems(c)}
<1> DEFINE P == {i \in DOMAIN batch : HasItems(batch[i])}
           places == InOrder(P)
<1>1. /\ DOMAIN batch = 1..Len(batch) /\ Len(batch) \in Nat /\ 1 \in Int
      /\ \A i \in 1..Len(batch) : batch[i] \in Calls
  OBVIOUS
<1>2. IsFiniteSet(1..Len(batch))
  BY <1>1, FS_Interval
<1>3. P \in SUBSET (1..Len(batch)) /\ P \in SUBSET Nat
  BY <1>1
<1>4. IsFiniteSet(P)
  BY <1>2, <1>3, FS_Subset
<1>5. Delivered = [k \in DOMAIN places |-> batch[places[k]]]
  BY DEF Delivered
<1> HIDE DEF P
<1>6. places \in Seq(P) /\ Rising(places) /\ Content(places) = P
  BY <1>3, <1>4, InOrderLists
<1> HIDE DEF places
<1>7. /\ DOMAIN places = 1..Len(places) /\ Len(places) \in Nat
      /\ \A k \in 1..Len(places) : places[k] \in P /\ places[k] \in 1..Len(batch)
  BY <1>3, <1>6, ElementOfSeq, LenProperties
<1>8. /\ Delivered \in Seq(Calls) /\ Len(Delivered) = Len(places)
      /\ \A k \in 1..Len(places) : Delivered[k] = batch[places[k]]
  BY <1>1, <1>5, <1>7
<1>9. Rising(Delivered)
  BY <1>6, <1>7, <1>8 DEF Rising
<1>10. Content(Delivered) = {batch[i] : i \in P}
  <2>1. \A k \in 1..Len(places) : places[k] \in P
    BY <1>7
  <2>2. \A i \in P : \E k \in 1..Len(places) : places[k] = i
    BY <1>6 DEF Content
  <2>3. \A k \in 1..Len(places) : Delivered[k] \in {batch[i] : i \in P}
    BY <1>8, <2>1
  <2>4. \A i \in P : batch[i] \in Content(Delivered)
    BY <1>8, <2>2 DEF Content
  <2>5. Content(Delivered) \subseteq {batch[i] : i \in P}
    BY <1>8, <2>3 DEF Content
  <2> QED BY <2>4, <2>5
<1>11. {batch[i] : i \in P} = {c \in Scheduled : HasItems(c)}
  BY DEF P, Scheduled
<1> QED BY <1>8, <1>9, <1>10, <1>11

\* What comes after all of a rising sequence continues it.
LEMMA RisingJoined ==
  ASSUME NEW s \in Seq(Calls), NEW t \in Seq(Calls), Rising(s), Rising(t),
         \A c \in Content(s), d \in Content(t) : c < d
  PROVE  s \o t \in Seq(Calls) /\ Rising(s \o t) /\ Content(s \o t) = Content(s) \cup Content(t)
<1> DEFINE u == s \o t
<1>1. /\ u \in Seq(Calls) /\ Len(u) = Len(s) + Len(t) /\ Len(s) \in Nat /\ Len(t) \in Nat
      /\ \A i \in 1..(Len(s) + Len(t)) : u[i] = IF i <= Len(s) THEN s[i] ELSE t[i - Len(s)]
  BY ConcatProperties
<1> HIDE DEF u
<1>2. \A i \in 1..Len(u) : \/ i \in 1..Len(s) /\ u[i] = s[i]
                           \/ i - Len(s) \in 1..Len(t) /\ u[i] = t[i - Len(s)] /\ ~(i <= Len(s))
  BY <1>1
<1>3. \A i \in 1..Len(s) : i \in 1..Len(u) /\ u[i] = s[i]
  BY <1>1
<1>4. \A i \in 1..Len(t) : i + Len(s) \in 1..Len(u) /\ u[i + Len(s)] = t[i]
  <2> SUFFICES ASSUME NEW i \in 1..Len(t) PROVE i + Len(s) \in 1..Len(u) /\ u[i + Len(s)] = t[i]
    OBVIOUS
  <2>1. i + Len(s) \in 1..(Len(s) + Len(t)) /\ ~(i + Len(s) <= Len(s)) /\ i + Len(s) - Len(s) = i
    BY <1>1
  <2> QED BY <1>1, <2>1
<1>5. Content(u) = Content(s) \cup Content(t)
  <2>1. \A i \in 1..Len(u) : u[i] \in Content(s) \/ u[i] \in Content(t)
    BY <1>2 DEF Content
  <2>2. \A i \in 1..Len(s) : s[i] \in Content(u)
    BY <1>3 DEF Content
  <2>3. \A i \in 1..Len(t) : t[i] \in Content(u)
    BY <1>4 DEF Content
  <2>4. Content(u) \subseteq Content(s) \cup Content(t)
    BY <2>1 DEF Content
  <2>5. Content(s) \subseteq Content(u) /\ Content(t) \subseteq Content(u)
    BY <2>2, <2>3 DEF Content
  <2> QED BY <2>4, <2>5
<1>6. Rising(u)
  <2> SUFFICES ASSUME NEW i \in 1..Len(u), NEW j \in 1..Len(u), i < j PROVE u[i] < u[j]
    BY DEF Rising
  <2>1. CASE i <= Len(s) /\ j <= Len(s)
    BY <1>1, <1>2, <2>1 DEF Rising
  <2>2. CASE i <= Len(s) /\ ~(j <= Len(s))
    <3>1. i \in 1..Len(s) /\ u[i] = s[i] /\ j - Len(s) \in 1..Len(t) /\ u[j] = t[j - Len(s)]
      BY <1>1, <1>2, <2>2
    <3>2. u[i] \in Content(s) /\ u[j] \in Content(t)
      BY <3>1 DEF Content
    <3> QED BY <3>2
  <2>3. CASE ~(i <= Len(s))
    <3>1. /\ i - Len(s) \in 1..Len(t) /\ j - Len(s) \in 1..Len(t) /\ i - Len(s) < j - Len(s)
          /\ u[i] = t[i - Len(s)] /\ u[j] = t[j - Len(s)]
      BY <1>1, <1>2, <2>3
    <3> QED BY <3>1 DEF Rising
  <2> QED BY <2>1, <2>2, <2>3
<1> QED BY <1>1, <1>5, <1>6 DEF u

-----------------------------------------------------------------------------
\* The parts of the invariant in the form the steps need.
LEMMA PipelineParts ==
  ASSUME PipelineInv
  PROVE  /\ batch \in Seq(Calls) /\ Scheduled = Content(batch) /\ Scheduled \subseteq Calls
         /\ (batch = <<>> <=> Scheduled = {}) /\ attempted \subseteq Calls /\ Collected \subseteq Calls
         /\ (stage \in Stages \/ batch = <<>>)
         /\ IsFiniteSet(Running) /\ Running \subseteq Calls /\ Cardinality(Running) \in Nat
<1>1. batch \in Seq(Calls) /\ attempted \subseteq Calls /\ (stage \in Stages \/ batch = <<>>)
  BY DEF PipelineInv, PipelineTypeOK, BatchHolds
<1>2. Running \in SUBSET Calls
  BY DEF Running
<1>3. IsFiniteSet(Running) /\ Cardinality(Running) \in Nat
  BY <1>2, Numbers, FS_Subset, FS_CardinalityType
<1> QED BY <1>1, <1>2, <1>3, ScheduledIsContent DEF Collected

\* A step that neither collects nor goes on changes nothing of what was collected.
LEMMA CollectedStays ==
  ASSUME PipelineInv, UNCHANGED <<stage, batch, merged, errors, attempted>>,
         \A c \in Calls : c \in Scheduled \/ outcome'[c] = outcome[c]
  PROVE  BatchHolds' /\ MergeHolds'
<1>1. Scheduled' = Scheduled /\ Collected' = Collected /\ Collected \subseteq Calls
  BY PipelineParts DEF Scheduled, Collected
<1>2. \A c \in Collected : outcome'[c] = outcome[c]
  BY <1>1 DEF Collected
<1>3. BatchHolds'
  BY <1>1 DEF PipelineInv, BatchHolds, Rising
<1>4. \A c \in Collected : HasItems(c)' <=> HasItems(c)
  BY <1>2 DEF HasItems
<1>5. MergeHolds'
  <2> SUFFICES ASSUME stage' # "cancelled"
               PROVE  (/\ Rising(merged) /\ Content(merged) = {c \in Collected : HasItems(c)}
                       /\ errors = {c \in Collected : outcome[c] # "ok"}
                       /\ \A c \in Collected : outcome[c] # "none")'
    BY DEF MergeHolds
  <2>1. /\ Rising(merged) /\ Content(merged) = {c \in Collected : HasItems(c)}
        /\ errors = {c \in Collected : outcome[c] # "ok"}
        /\ \A c \in Collected : outcome[c] # "none"
    BY DEF PipelineInv, MergeHolds
  <2>2. Rising(merged)' /\ Content(merged)' = Content(merged)
    BY <2>1 DEF Rising, Content
  <2>3. {c \in Collected : HasItems(c)}' = {c \in Collected : HasItems(c)}
    BY <1>1, <1>4
  <2>4. {c \in Collected : outcome[c] # "ok"}' = {c \in Collected : outcome[c] # "ok"}
    BY <1>1, <1>2
  <2> QED BY <1>1, <1>2, <2>1, <2>2, <2>3, <2>4
<1> QED BY <1>3, <1>5

\* A call is submitted, or is late before it began.
LEMMA SubmitKeeps ==
  ASSUME PipelineInv, NEW c \in Calls, Submit(c) PROVE PipelineInv'
<1>1. /\ c \in Scheduled /\ worker[c] = "none" /\ outcome[c] = "none"
      /\ UNCHANGED <<stage, batch, expired, merged, errors, attempted>>
      /\ \/ expired /\ outcome' = [outcome EXCEPT ![c] = "deadline"] /\ worker' = worker
         \/ worker' = [worker EXCEPT ![c] = "queued"] /\ outcome' = outcome
  BY DEF Submit
<1>2. PipelineTypeOK'
  BY <1>1 DEF PipelineInv, PipelineTypeOK
<1>3. BatchHolds' /\ MergeHolds'
  BY <1>1, CollectedStays DEF PipelineInv, PipelineTypeOK
<1>4. Scheduled' = Scheduled /\ Running' = Running
  BY <1>1 DEF Scheduled, Running, PipelineInv, PipelineTypeOK
<1>5. PoolHolds'
  BY <1>1, <1>4 DEF PoolHolds, PipelineInv, PipelineTypeOK
<1> QED BY <1>2, <1>3, <1>5 DEF PipelineInv

\* A thread takes a call: the pool has one for it, as no other call holds one.
LEMMA StartCallKeeps ==
  ASSUME PipelineInv, NEW c \in Calls, StartCall(c) PROVE PipelineInv'
<1>1. /\ worker[c] = "queued" /\ worker' = [worker EXCEPT ![c] = "running"]
      /\ Cardinality(Running \cap Scheduled) < MaxConcurrency
      /\ UNCHANGED <<stage, batch, outcome, expired, merged, errors, attempted>>
  BY DEF StartCall
<1>2. PipelineTypeOK'
  BY <1>1 DEF PipelineInv, PipelineTypeOK
<1>3. BatchHolds' /\ MergeHolds'
  BY <1>1, CollectedStays
<1>4. Scheduled' = Scheduled /\ Running' = Running \cup {c} /\ c \notin Running
  BY <1>1 DEF Scheduled, Running, PipelineInv, PipelineTypeOK
<1>5. c \in Scheduled /\ Running \subseteq Scheduled
  <2>1. c \in Scheduled
    BY <1>1 DEF PipelineInv, PoolHolds
  <2> QED BY <2>1, PipelineParts DEF PipelineInv, PoolHolds
<1>6. Cardinality(Running') <= MaxConcurrency
  <2>1. Running \cap Scheduled = Running
    BY <1>5
  <2>2. Cardinality(Running \cup {c}) = Cardinality(Running) + 1
    BY <1>4, PipelineParts, FS_AddElement
  <2>3. Cardinality(Running) \in Nat /\ MaxConcurrency \in Nat
    BY PipelineParts, Numbers
  <2>4. Cardinality(Running) < MaxConcurrency /\ Cardinality(Running') = Cardinality(Running) + 1
    BY <1>1, <1>4, <2>1, <2>2
  <2> QED BY <2>3, <2>4
<1>7. PoolHolds'
  <2>1. \A d \in Calls : d # c => worker'[d] = worker[d]
    BY <1>1 DEF PipelineInv, PipelineTypeOK
  <2>2. worker'[c] = "running"
    BY <1>1 DEF PipelineInv, PipelineTypeOK
  <2> QED BY <1>1, <1>4, <1>5, <1>6, <2>1, <2>2 DEF PoolHolds, PipelineInv
<1> QED BY <1>2, <1>3, <1>7 DEF PipelineInv

\* A call that ends, or is given up, gives its place back.
LEMMA LeavesPool ==
  ASSUME PipelineInv, NEW c \in Calls, NEW w \in Answers \cup {"cancelled"},
         worker' = [worker EXCEPT ![c] = w],
         UNCHANGED <<stage, batch, outcome, expired, merged, errors, attempted>>
  PROVE  PipelineInv'
<1>1. w \notin {"queued", "running"}
  BY DEF Answers
<1>2. PipelineTypeOK'
  BY DEF PipelineInv, PipelineTypeOK
<1>3. BatchHolds' /\ MergeHolds'
  BY CollectedStays
<1>4. Scheduled' = Scheduled /\ Running' \in SUBSET Running
  BY <1>1 DEF Scheduled, Running, PipelineInv, PipelineTypeOK
<1>5. Cardinality(Running') <= MaxConcurrency
  <2>1. IsFiniteSet(Running') /\ Cardinality(Running') <= Cardinality(Running)
    BY <1>4, PipelineParts, FS_Subset
  <2>2. Cardinality(Running') \in Nat
    BY <2>1, FS_CardinalityType
  <2>3. Cardinality(Running) <= MaxConcurrency
    BY DEF PipelineInv, PoolHolds
  <2> QED BY <2>1, <2>2, <2>3, PipelineParts, Numbers
<1>6. PoolHolds'
  <2>1. \A d \in Calls : worker'[d] \in {"queued", "running"} => worker'[d] = worker[d]
    BY <1>1 DEF PipelineInv, PipelineTypeOK
  <2> QED BY <1>4, <1>5, <2>1 DEF PoolHolds, PipelineInv
<1> QED BY <1>2, <1>3, <1>6 DEF PipelineInv

\* A call's task learns the answer.
LEMMA CompleteKeeps ==
  ASSUME PipelineInv, NEW c \in Calls, Complete(c) PROVE PipelineInv'
<1> DEFINE o == CASE worker[c] = "value"          -> "ok"
                  [] worker[c] = "partial"        -> "partial"
                  [] worker[c] = "raised"         -> "exception"
                  [] worker[c] = "raised_timeout" -> "deadline"
<1>1. /\ c \in Scheduled /\ worker[c] \in Answers /\ outcome' = [outcome EXCEPT ![c] = o]
      /\ UNCHANGED <<stage, batch, worker, expired, merged, errors, attempted>>
  BY DEF Complete
<1>2. o \in {"ok", "partial", "exception", "deadline"}
  BY <1>1 DEF Answers
<1> HIDE DEF o
<1>3. PipelineTypeOK'
  BY <1>1, <1>2 DEF PipelineInv, PipelineTypeOK
<1>4. BatchHolds' /\ MergeHolds'
  BY <1>1, CollectedStays DEF PipelineInv, PipelineTypeOK
<1>5. Scheduled' = Scheduled /\ Running' = Running
  BY <1>1 DEF Scheduled, Running
<1>6. worker[c] \notin {"queued", "running"}
  BY <1>1 DEF Answers
<1>7. PoolHolds'
  BY <1>1, <1>5, <1>6 DEF PoolHolds, PipelineInv, PipelineTypeOK
<1> QED BY <1>3, <1>4, <1>7 DEF PipelineInv

\* wait_for gives a call up.
LEMMA TimeOutKeeps ==
  ASSUME PipelineInv, NEW c \in Calls, TimeOut(c) PROVE PipelineInv'
<1>1. /\ expired /\ c \in Scheduled /\ outcome' = [outcome EXCEPT ![c] = "deadline"]
      /\ UNCHANGED <<stage, batch, worker, expired, merged, errors, attempted>>
  BY DEF TimeOut
<1>2. PipelineTypeOK'
  BY <1>1 DEF PipelineInv, PipelineTypeOK
<1>3. BatchHolds' /\ MergeHolds'
  BY <1>1, CollectedStays DEF PipelineInv, PipelineTypeOK
<1>4. Scheduled' = Scheduled /\ Running' = Running
  BY <1>1 DEF Scheduled, Running
<1>5. PoolHolds'
  BY <1>1, <1>4 DEF PoolHolds, PipelineInv
<1> QED BY <1>2, <1>3, <1>5 DEF PipelineInv

\* The deadline passes.
LEMMA ExpireKeeps ==
  ASSUME PipelineInv, Expire PROVE PipelineInv'
<1>1. expired' = TRUE /\ UNCHANGED <<stage, batch, worker, outcome, merged, errors, attempted>>
  BY DEF Expire
<1>2. PipelineTypeOK'
  BY <1>1 DEF PipelineInv, PipelineTypeOK
<1>3. BatchHolds' /\ MergeHolds'
  BY <1>1, CollectedStays
<1>4. Scheduled' = Scheduled /\ Running' = Running
  BY <1>1 DEF Scheduled, Running
<1>5. PoolHolds'
  BY <1>1, <1>4 DEF PoolHolds, PipelineInv
<1> QED BY <1>2, <1>3, <1>5 DEF PipelineInv

\* The pool is shut down: no call waits any more, and no other begins.
LEMMA ShutDown ==
  ASSUME PipelineInv, worker' = Shutdown
  PROVE  /\ worker' \in [Calls -> Answers \cup {"none", "queued", "running", "cancelled"}]
         /\ Running' = Running /\ \A c \in Calls : worker'[c] # "queued"
         /\ \A c \in Calls : worker'[c] = "running" => worker[c] = "running"
  BY DEF PipelineInv, PipelineTypeOK, Shutdown, Running

\* The outcomes are merged after all that was merged before.
LEMMA CollectKeeps ==
  ASSUME PipelineInv, Collect PROVE PipelineInv'
<1>1. /\ batch # <<>> /\ (\A c \in Scheduled : outcome[c] # "none") /\ worker' = Shutdown
      /\ merged' = merged \o Delivered /\ errors' = errors \cup {c \in Scheduled : outcome[c] # "ok"}
      /\ batch' = <<>> /\ UNCHANGED <<stage, outcome, expired, attempted>>
  BY DEF Collect
<1>2. /\ batch \in Seq(Calls) /\ merged \in Seq(Calls) /\ errors \subseteq Calls /\ attempted \subseteq Calls
      /\ Scheduled \subseteq Calls /\ Rising(batch) /\ Scheduled \subseteq attempted /\ stage \in Stages
      /\ \A c \in Scheduled : Prior(stage) < c
      /\ \A c \in Collected : c <= Prior(stage)
  BY <1>1, PipelineParts DEF PipelineInv, PipelineTypeOK, BatchHolds
<1>3. /\ Rising(merged) /\ Content(merged) = {c \in Collected : HasItems(c)}
      /\ errors = {c \in Collected : outcome[c] # "ok"}
      /\ \A c \in Collected : outcome[c] # "none"
  <2>1. stage # "cancelled"
    BY <1>2 DEF Stages
  <2> QED BY <2>1 DEF PipelineInv, MergeHolds
<1>4. /\ Delivered \in Seq(Calls) /\ Rising(Delivered)
      /\ Content(Delivered) = {c \in Scheduled : HasItems(c)}
  BY <1>2, DeliveredIs
<1>5. \A c \in Content(merged), d \in Content(Delivered) : c < d
  <2> SUFFICES ASSUME NEW c \in Collected, NEW d \in Scheduled PROVE c < d
    BY <1>3, <1>4
  <2>1. c \in Nat /\ d \in Nat /\ Prior(stage) \in Nat
    BY <1>2, Numbers DEF Collected
  <2>2. c <= Prior(stage) /\ Prior(stage) < d
    BY <1>2
  <2> QED BY <2>1, <2>2
<1>6. /\ merged' \in Seq(Calls) /\ Rising(merged \o Delivered)
      /\ Content(merged \o Delivered) = Content(merged) \cup Content(Delivered)
  BY <1>1, <1>2, <1>3, <1>4, <1>5, RisingJoined
<1>7. Scheduled' = {} /\ Collected' = attempted /\ attempted = Collected \cup Scheduled
  <2>1. <<>> \in Seq(Calls) /\ DOMAIN <<>> = {}
    OBVIOUS
  <2>2. Scheduled' = {}
    BY <1>1, <2>1 DEF Scheduled
  <2> QED BY <1>1, <1>2, <2>2 DEF Collected
<1>8. \A c \in Calls : HasItems(c)' <=> HasItems(c)
  BY <1>1 DEF HasItems
<1>9. PipelineTypeOK'
  <2>1. <<>> \in Seq(Calls) /\ errors' \subseteq Calls
    BY <1>1, <1>2
  <2> QED BY <1>1, <1>6, <2>1, ShutDown DEF PipelineInv, PipelineTypeOK
<1>10. BatchHolds'
  <2>1. Len(<<>>) = 0
    OBVIOUS
  <2> QED BY <1>1, <1>7, <2>1 DEF BatchHolds, Rising, PipelineInv
<1>11. MergeHolds'
  <2>1. Rising(merged)'
    BY <1>1, <1>6 DEF Rising
  <2>2. Content(merged)' = {c \in attempted : HasItems(c)}
    <3>1. Content(merged)' = Content(merged \o Delivered)
      BY <1>1 DEF Content
    <3> QED BY <1>3, <1>4, <1>6, <1>7, <3>1
  <2>3. {c \in Collected : HasItems(c)}' = {c \in attempted : HasItems(c)}
    BY <1>2, <1>7, <1>8
  <2>4. errors' = {c \in attempted : outcome[c] # "ok"}
    BY <1>1, <1>3, <1>7
  <2>5. {c \in Collected : outcome[c] # "ok"}' = {c \in attempted : outcome[c] # "ok"}
    BY <1>1, <1>7
  <2>6. \A c \in Collected' : outcome'[c] # "none"
    BY <1>1, <1>3, <1>7
  <2> QED BY <2>1, <2>2, <2>3, <2>4, <2>5, <2>6 DEF MergeHolds
<1>12. PoolHolds'
  <2>1. \A c \in Calls : worker'[c] = "running" => expired
    <3> SUFFICES ASSUME NEW c \in Calls, worker[c] = "running" PROVE expired
      BY <1>1, ShutDown
    <3>1. c \in Running /\ Running \subseteq Scheduled
      BY <1>1 DEF Running, PipelineInv, PoolHolds
    <3> QED BY <1>1, <3>1 DEF PipelineInv, PoolHolds
  <2>2. Running' = Running /\ \A c \in Calls : worker'[c] # "queued"
    BY <1>1, ShutDown
  <2> QED BY <1>1, <1>7, <2>1, <2>2 DEF PoolHolds, PipelineInv
<1> QED BY <1>9, <1>10, <1>11, <1>12 DEF PipelineInv

\* The caller is cancelled.
LEMMA CancelKeeps ==
  ASSUME PipelineInv, Cancel PROVE PipelineInv'
<1>1. /\ stage' = "cancelled" /\ batch' = <<>> /\ worker' = Shutdown
      /\ UNCHANGED <<outcome, expired, merged, errors, attempted>>
  BY DEF Cancel
<1>2. <<>> \in Seq(Calls) /\ Len(<<>>) = 0 /\ DOMAIN <<>> = {}
  OBVIOUS
<1>3. Scheduled' = {}
  BY <1>1, <1>2 DEF Scheduled
<1>4. PipelineTypeOK'
  BY <1>1, <1>2, ShutDown DEF PipelineInv, PipelineTypeOK
<1>5. BatchHolds'
  <2>1. Upto("cancelled") = NCalls
    BY DEF Upto
  <2>2. \A c \in attempted : c <= NCalls
    BY PipelineParts, Numbers
  <2> QED BY <1>1, <1>2, <2>1, <2>2 DEF BatchHolds, Rising
<1>6. PoolHolds'
  <2>1. Running' = Running /\ \A c \in Calls : worker'[c] # "queued"
    BY <1>1, ShutDown
  <2> QED BY <1>1, <1>3, <2>1 DEF PoolHolds, PipelineInv
<1> QED BY <1>1, <1>4, <1>5, <1>6 DEF PipelineInv, MergeHolds

\* The last stage is over.
LEMMA FinishKeeps ==
  ASSUME PipelineInv, Finish PROVE PipelineInv'
<1>1. /\ batch = <<>> /\ stage = "scip" /\ stage' = "done"
      /\ UNCHANGED <<batch, worker, outcome, expired, merged, errors, attempted>>
  BY DEF Finish
<1>2. PipelineTypeOK'
  BY <1>1 DEF PipelineInv, PipelineTypeOK
<1>3. BatchHolds'
  <2>1. Upto("done") = NCalls /\ \A c \in attempted : c <= NCalls
    BY PipelineParts, Numbers DEF Upto
  <2> QED BY <1>1, <2>1 DEF BatchHolds, PipelineInv, Rising
<1>4. Scheduled' = Scheduled /\ Collected' = Collected /\ Running' = Running
  BY <1>1 DEF Scheduled, Collected, Running
<1>5. MergeHolds'
  <2>1. \A c \in Collected : HasItems(c)' <=> HasItems(c)
    BY <1>1 DEF HasItems
  <2>2. /\ Rising(merged) /\ Content(merged) = {c \in Collected : HasItems(c)}
        /\ errors = {c \in Collected : outcome[c] # "ok"}
        /\ \A c \in Collected : outcome[c] # "none"
    BY <1>1 DEF PipelineInv, MergeHolds
  <2>3. Rising(merged)' /\ Content(merged)' = Content(merged)
    BY <1>1, <2>2 DEF Rising, Content
  <2>4. {c \in Collected : HasItems(c)}' = {c \in Collected : HasItems(c)}
    BY <1>4, <2>1
  <2> QED BY <1>1, <1>4, <2>2, <2>3, <2>4 DEF MergeHolds
<1>6. PoolHolds'
  BY <1>1, <1>4 DEF PoolHolds, PipelineInv
<1> QED BY <1>2, <1>3, <1>5, <1>6 DEF PipelineInv

\* The next stage begins, with calls only while there is time.
LEMMA NextStageKeeps ==
  ASSUME PipelineInv, NextStage PROVE PipelineInv'
<1>1. batch = <<>> /\ stage \in DOMAIN StageAfter /\ stage' = StageAfter[stage]
      /\ UNCHANGED <<worker, expired, merged>>
  BY DEF NextStage
<1>2. PICK S \in SUBSET CallsOf(stage') :
        /\ attempted' = attempted \cup S
        /\ IF expired
             THEN /\ outcome' = [c \in Calls |-> IF c \in S THEN "deadline" ELSE outcome[c]]
                  /\ errors' = errors \cup S
                  /\ UNCHANGED batch
             ELSE /\ batch' = InOrder(S)
                  /\ UNCHANGED <<outcome, errors>>
  BY DEF NextStage
<1>3. /\ stage \in Stages /\ stage' \in Stages /\ Prior(stage') = Upto(stage)
      /\ CallsOf(stage') = (Prior(stage') + 1)..Upto(stage')
      /\ Prior(stage') \in Nat /\ Upto(stage') \in Nat /\ Prior(stage') <= Upto(stage') /\ Upto(stage') <= NCalls
      /\ NCalls \in Nat /\ Calls = 1..NCalls
  BY <1>1, Numbers
<1>4. S \subseteq Calls /\ \A c \in S : Prior(stage') < c /\ c <= Upto(stage') /\ c \in Nat
  BY <1>2, <1>3
<1>5. Scheduled = {} /\ Collected = attempted /\ attempted \subseteq Calls
  BY <1>1, PipelineParts DEF Collected
<1>6. \A c \in attempted : c \in Nat /\ c <= Prior(stage')
  BY <1>3, <1>5, Numbers DEF PipelineInv, BatchHolds
<1>7. \A c \in attempted : c \notin S /\ c <= Upto(stage')
  BY <1>3, <1>4, <1>6
<1>8. \A c \in attempted' : c <= Upto(stage')
  BY <1>2, <1>4, <1>7
<1>9. /\ Rising(merged) /\ Content(merged) = {c \in attempted : HasItems(c)}
      /\ errors = {c \in attempted : outcome[c] # "ok"}
      /\ \A c \in attempted : outcome[c] # "none"
  <2>1. stage # "cancelled"
    BY <1>3 DEF Stages
  <2> QED BY <1>5, <2>1 DEF PipelineInv, MergeHolds
<1>10. Rising(merged)' /\ Content(merged)' = Content(merged) /\ Running' = Running
  BY <1>1, <1>9 DEF Rising, Content, Running
<1>11. stage' # "cancelled" /\ stage # "cancelled"
  BY <1>3 DEF Stages
<1>12. /\ \A c \in Calls : worker[c] # "queued" /\ (worker[c] = "running" => expired)
       /\ Cardinality(Running) <= MaxConcurrency
  BY <1>5, <1>11 DEF PipelineInv, PoolHolds
<1>13. CASE expired
  <2>1. /\ batch' = <<>> /\ errors' = errors \cup S
        /\ \A c \in Calls : outcome'[c] = IF c \in S THEN "deadline" ELSE outcome[c]
        /\ outcome' \in [Calls -> {"none", "ok", "partial", "exception", "deadline"}]
    BY <1>1, <1>2, <1>13 DEF PipelineInv, PipelineTypeOK
  <2>2. Scheduled' = {} /\ Collected' = attempted \cup S
    <3>1. Scheduled' = Scheduled
      BY <1>1, <2>1 DEF Scheduled
    <3> QED BY <1>2, <1>5, <3>1 DEF Collected
  <2>3. PipelineTypeOK'
    BY <1>1, <1>2, <1>3, <1>4, <2>1 DEF PipelineInv, PipelineTypeOK, Stages
  <2>4. BatchHolds'
    BY <1>1, <1>8, <2>1 DEF BatchHolds, Rising, PipelineInv
  <2>5. MergeHolds'
    <3>1. \A c \in attempted : outcome'[c] = outcome[c]
      BY <1>5, <1>7, <2>1
    <3>2. \A c \in S : outcome'[c] = "deadline"
      BY <1>4, <2>1
    <3>3. {c \in Collected : HasItems(c)}' = {c \in attempted : HasItems(c)}
      BY <2>2, <3>1, <3>2 DEF HasItems
    <3>4. {c \in Collected : outcome[c] # "ok"}' = errors \cup S
      BY <1>9, <2>2, <3>1, <3>2
    <3>5. \A c \in Collected' : outcome'[c] # "none"
      BY <1>9, <2>2, <3>1, <3>2
    <3> QED BY <1>9, <1>10, <2>1, <3>3, <3>4, <3>5 DEF MergeHolds
  <2>6. PoolHolds'
    BY <1>1, <1>10, <1>12, <1>13, <2>1, <2>2 DEF PoolHolds
  <2> QED BY <2>3, <2>4, <2>5, <2>6 DEF PipelineInv
<1>14. CASE ~expired
  <2>1. batch' = InOrder(S) /\ UNCHANGED <<outcome, errors>>
    BY <1>2, <1>14
  <2>2. batch' \in Seq(Calls) /\ Rising(InOrder(S)) /\ Content(InOrder(S)) = S
    BY <1>4, <2>1, BatchOf
  <2>3. Scheduled' = S
    <3>1. DOMAIN InOrder(S) = 1..Len(InOrder(S))
      BY <2>1, <2>2
    <3> QED BY <2>1, <2>2, <3>1 DEF Scheduled, Content
  <2>4. Collected' = attempted
    BY <1>2, <1>7, <2>3 DEF Collected
  <2>5. PipelineTypeOK'
    BY <1>1, <1>2, <1>3, <1>4, <2>1, <2>2 DEF PipelineInv, PipelineTypeOK, Stages
  <2>6. BatchHolds'
    <3>1. Rising(batch)'
      BY <2>1, <2>2 DEF Rising
    <3> QED BY <1>2, <1>3, <1>4, <1>6, <1>8, <2>3, <2>4, <3>1 DEF BatchHolds
  <2>7. MergeHolds'
    <3>1. {c \in Collected : HasItems(c)}' = {c \in attempted : HasItems(c)}
      BY <2>1, <2>4 DEF HasItems
    <3>2. {c \in Collected : outcome[c] # "ok"}' = {c \in attempted : outcome[c] # "ok"}
      BY <2>1, <2>4
    <3> QED BY <1>9, <1>10, <2>1, <2>4, <3>1, <3>2 DEF MergeHolds
  <2>8. PoolHolds'
    <3>1. Running = {}
      BY <1>12, <1>14 DEF Running
    <3> QED BY <1>1, <1>10, <1>12, <1>14, <3>1 DEF PoolHolds
  <2> QED BY <2>5, <2>6, <2>7, <2>8 DEF PipelineInv
<1> QED BY <1>13, <1>14

-----------------------------------------------------------------------------
\* The invariant of the pipeline holds when the base calls are listed.
LEMMA PipelineInitFits == PipelineInit => PipelineInv
<1> SUFFICES ASSUME PipelineInit PROVE PipelineInv
  OBVIOUS
<1>1. /\ stage = "base" /\ batch = InOrder(CallsOf("base")) /\ worker = [c \in Calls |-> "none"]
      /\ outcome = [c \in Calls |-> "none"] /\ expired = FALSE /\ merged = <<>> /\ errors = {}
      /\ attempted = CallsOf("base")
  BY DEF PipelineInit
<1>2. /\ "base" \in Stages /\ CallsOf("base") = (Prior("base") + 1)..Upto("base") /\ CallsOf("base") \subseteq Calls
      /\ \A c \in CallsOf("base") : Prior("base") < c /\ c <= Upto("base")
  <2>1. "base" \in Stages
    BY DEF Stages
  <2>2. /\ CallsOf("base") = (Prior("base") + 1)..Upto("base") /\ Prior("base") \in Nat /\ Upto("base") \in Nat
        /\ Upto("base") <= NCalls /\ NCalls \in Nat /\ Calls = 1..NCalls
    BY <2>1, Numbers
  <2> QED BY <2>1, <2>2
<1>3. batch \in Seq(Calls) /\ Rising(batch) /\ Content(batch) = attempted
  BY <1>1, <1>2, BatchOf
<1>4. Scheduled = attempted /\ Collected = {}
  BY <1>3, ScheduledIsContent DEF Collected
<1>5. Running = {} /\ Cardinality({}) = 0
  BY <1>1, FS_EmptySet DEF Running
<1>6. <<>> \in Seq(Calls) /\ Len(<<>>) = 0
  OBVIOUS
<1>7. FALSE \in BOOLEAN
  BY Zenon
<1>8. PipelineTypeOK
  BY <1>1, <1>2, <1>3, <1>6, <1>7 DEF PipelineTypeOK
<1>9. BatchHolds
  BY <1>1, <1>2, <1>3, <1>4 DEF BatchHolds
<1>10. MergeHolds
  BY <1>1, <1>4, <1>6 DEF MergeHolds, Rising, Content
<1>11. PoolHolds
  BY <1>1, <1>5, Numbers DEF PoolHolds
<1> QED BY <1>8, <1>9, <1>10, <1>11 DEF PipelineInv

\* Every step of the pipeline preserves it.
LEMMA PipelineNextFits == PipelineInv /\ [PipelineNext]_pipelineVars => PipelineInv'
<1> SUFFICES ASSUME PipelineInv, [PipelineNext]_pipelineVars PROVE PipelineInv'
  OBVIOUS
<1>1. ASSUME NEW c \in Calls, CallEnds(c) PROVE PipelineInv'
  <2>1. PICK a \in AnswersOf(c) : worker' = [worker EXCEPT ![c] = a]
    BY <1>1 DEF CallEnds
  <2>2. a \in Answers \cup {"cancelled"} /\ UNCHANGED <<stage, batch, outcome, expired, merged, errors, attempted>>
    BY <1>1 DEF CallEnds, AnswersOf
  <2> QED BY <2>1, <2>2, LeavesPool
<1>2. ASSUME NEW c \in Calls, CancelFuture(c) PROVE PipelineInv'
  <2>1. /\ worker' = [worker EXCEPT ![c] = "cancelled"]
        /\ UNCHANGED <<stage, batch, outcome, expired, merged, errors, attempted>>
    BY <1>2 DEF CancelFuture
  <2> QED BY <2>1, LeavesPool
<1>3. CASE UNCHANGED pipelineVars
  <2>1. UNCHANGED <<stage, batch, worker, outcome, expired, merged, errors, attempted>>
    BY <1>3 DEF pipelineVars
  <2>2. BatchHolds' /\ MergeHolds'
    BY <2>1, CollectedStays
  <2>3. Scheduled' = Scheduled /\ Running' = Running
    BY <2>1 DEF Scheduled, Running
  <2> QED BY <2>1, <2>2, <2>3 DEF PipelineInv, PipelineTypeOK, PoolHolds
<1> QED BY <1>1, <1>2, <1>3, SubmitKeeps, StartCallKeeps, CompleteKeeps, TimeOutKeeps, ExpireKeeps, CollectKeeps,
           CancelKeeps, FinishKeeps, NextStageKeeps DEF PipelineNext, Loop, Pool

\* It implies the safety of the pipeline.
LEMMA PipelineInvIsSafe == PipelineInv => PipelineSafety
<1> SUFFICES ASSUME PipelineInv PROVE PipelineSafety
  OBVIOUS
<1>1. MergedInInputOrder
  <2> SUFFICES ASSUME stage # "cancelled" PROVE merged = InOrder({c \in Collected : HasItems(c)})
    BY DEF MergedInInputOrder, Collected
  <2> DEFINE S == {c \in Collected : HasItems(c)}
  <2>1. Rising(merged) /\ Content(merged) = S
    BY DEF PipelineInv, MergeHolds
  <2>2. S \in SUBSET Calls
    BY PipelineParts
  <2> HIDE DEF S
  <2>3. InOrder(S) \in Seq(Calls) /\ Rising(InOrder(S)) /\ Content(InOrder(S)) = S
    BY <2>2, BatchOf
  <2>4. merged \in Seq(Calls) /\ Calls \subseteq Nat
    BY Numbers DEF PipelineInv, PipelineTypeOK
  <2>5. merged \in Seq(Nat) /\ InOrder(S) \in Seq(Nat)
    BY <2>3, <2>4, SeqMonotonic
  <2>6. merged = InOrder(S)
    BY <2>1, <2>3, <2>5, RisingIsUnique
  <2> QED BY <2>6 DEF S
<1>2. AttemptsAccountedFor
  <2> SUFFICES ASSUME stage = "done" PROVE attempted = errors \cup {merged[i] : i \in DOMAIN merged}
    BY DEF AttemptsAccountedFor
  <2>1. batch = <<>> /\ stage # "cancelled"
    BY DEF PipelineInv, BatchHolds, Stages
  <2>2. Collected = attempted /\ attempted \subseteq Calls
    BY <2>1, PipelineParts DEF Collected
  <2>3. merged \in Seq(Calls)
    BY DEF PipelineInv, PipelineTypeOK
  <2>4. {merged[i] : i \in DOMAIN merged} = {c \in attempted : HasItems(c)}
    <3>1. DOMAIN merged = 1..Len(merged)
      BY <2>3
    <3> QED BY <2>1, <2>2, <3>1 DEF PipelineInv, MergeHolds, Content
  <2>5. errors = {c \in attempted : outcome[c] # "ok"}
    BY <2>1, <2>2 DEF PipelineInv, MergeHolds
  <2> QED BY <2>4, <2>5 DEF HasItems
<1>3. WorkersBounded
  BY DEF WorkersBounded, PipelineInv, PoolHolds
<1>4. NothingStartsAfterwards
  <2>1. Ended => batch = <<>>
    BY DEF PipelineInv, BatchHolds, Stages, Ended
  <2> QED BY <2>1, PipelineParts DEF NothingStartsAfterwards, PipelineInv, PoolHolds
<1> QED BY <1>1, <1>2, <1>3, <1>4 DEF PipelineSafety, PipelineInv

\* For any number of base calls, specialists and threads, the retrieval stages are
\* safe: results are merged in input order, every attempt is accounted for, the
\* threads at work never exceed the limit, and nothing begins after gather has
\* returned (gather_detailed_async, BoundedRetrievalScheduler.run).
THEOREM PipelineIsSafe == PipelineSpec => []PipelineSafety
  BY PipelineInitFits, PipelineNextFits, PipelineInvIsSafe, PTL DEF PipelineSpec

-----------------------------------------------------------------------------
(* StructuralEvidence: what a call of the graph may return. *)

-----------------------------------------------------------------------------
\* The values of a call, and its inductive invariant.
AllRows == UNION {Related[tree] : tree \in Trees}
Grades == {"unset", "candidate", "corroborated", "verified"}
StepNames == {"search", "locate", "impact", "tests_for", "callers_of", "architecture"}
Items == [pattern : Patterns, rows : SUBSET AllRows, absent : BOOLEAN, structural : BOOLEAN,
          level : Grades, inScip : SUBSET AllRows]
Scripts == Seq(StepNames)
Lists == Seq(Items)
AskRecords == [at : {"ask", "run", "validate", "scip", "returned"}, script : Scripts,
               limit : Nat \ {0}, anchor : BOOLEAN, files : BOOLEAN, nested : BOOLEAN,
               items : Lists, next : Nat \ {0}, hits : SUBSET AllRows]

\* The impact of the changed files is asked for before anything is found.
Tidy(script) ==
  \A i \in 1..Len(script) : script[i] = "impact" =>
    \A j \in 1..Len(script) : j < i => script[j] \in {"search", "locate"}

\* An item tells what a tree of the call says, and names its witnesses.
ItemHolds(item, seen) ==
  /\ item.pattern # "architecture" => \E tree \in seen : item.rows = Related[tree]
  /\ item.structural /\ item.rows # {} /\ item.level # "unset" => \E tree \in seen : item.rows \cap Named[tree] # {}
  /\ item.level = "verified" => \E tree \in seen : item.inScip \subseteq Named[tree]

AllHold(items, seen) == \A i \in 1..Len(items) : ItemHolds(items[i], seen)
Unjudged(items) == \A i \in 1..Len(items) : items[i].level = "unset"

AskingFits(a, seen, graph) ==
  a.at \in {"ask", "run"} =>
    /\ a.script # <<>> /\ Tidy(a.script) /\ Unjudged(a.items) /\ a.next = 1
    /\ a.items # <<>> => \A i \in 1..Len(a.script) : a.script[i] # "impact"
    /\ a.at = "run" => graph \in seen /\ (a.script[1] = "architecture" => Len(a.items) < a.limit)

JudgingFits(a, seen) ==
  a.at \in {"validate", "scip"} =>
    /\ \A i \in 1..Len(a.items) : i < a.next => a.items[i].level # "unset"
    /\ a.at = "scip" => /\ a.next <= Len(a.items)
                        /\ \E tree \in seen : a.hits = a.items[a.next].rows \cap Named[tree]

AskFits(a, seen, graph) ==
  /\ a \in AskRecords /\ Len(a.items) <= a.limit /\ AllHold(a.items, seen)
  /\ AskingFits(a, seen, graph) /\ JudgingFits(a, seen)
  /\ a.at = "returned" => \A i \in 1..Len(a.items) : a.items[i].level = "unset" => Len(a.items) = a.limit

EvidenceInv ==
  /\ treeNow \in Trees /\ graphOf \in Trees /\ scipOf \in Trees
  /\ treesSeen \subseteq Trees /\ treeNow \in treesSeen
  /\ AskFits(ask, treesSeen, graphOf)

-----------------------------------------------------------------------------
\* A later step may join what is asked for.
LEMMA TidyMore ==
  ASSUME NEW s \in Scripts, Tidy(s), NEW step \in StepNames, step # "impact", NEW wanted
  PROVE  /\ s \o Asked(step, wanted) \in Scripts /\ Tidy(s \o Asked(step, wanted))
         /\ Len(s \o Asked(step, wanted)) >= Len(s)
         /\ wanted => Len(s \o Asked(step, wanted)) > Len(s)
<1> DEFINE more == s \o <<step>>
<1>1. s \in Seq(StepNames) /\ <<step>> \in Seq(StepNames) /\ Len(<<step>>) = 1 /\ <<step>>[1] = step /\ Len(s) \in Nat
  BY DEF Scripts
<1>2. /\ more \in Seq(StepNames) /\ Len(more) = Len(s) + 1
      /\ \A i \in 1..(Len(s) + 1) : more[i] = IF i <= Len(s) THEN s[i] ELSE <<step>>[i - Len(s)]
  BY <1>1, ConcatProperties
<1> HIDE DEF more
<1>3. \A i \in 1..Len(more) : more[i] = IF i <= Len(s) THEN s[i] ELSE step
  BY <1>1, <1>2
<1>4. Tidy(more)
  <2> SUFFICES ASSUME NEW i \in 1..Len(more), more[i] = "impact", NEW j \in 1..Len(more), j < i
               PROVE  more[j] \in {"search", "locate"}
    BY DEF Tidy
  <2>1. i <= Len(s) /\ s[i] = "impact"
    BY <1>3
  <2>2. i \in 1..Len(s) /\ j \in 1..Len(s) /\ more[j] = s[j]
    BY <1>1, <1>2, <1>3, <2>1
  <2> QED BY <2>1, <2>2 DEF Tidy
<1>5. CASE wanted
  BY <1>1, <1>2, <1>4, <1>5 DEF Asked, more, Scripts
<1>6. CASE ~wanted
  <2>1. s \o <<>> = s
    BY <1>1, ConcatEmptySeq
  <2> QED BY <1>1, <1>6, <2>1 DEF Asked
<1> QED BY <1>5, <1>6

\* The script of a call asks for something, and for the impact before any relation.
LEMMA ScriptFits ==
  ASSUME NEW req \in SUBSET Patterns, req # {}, NEW files \in BOOLEAN, NEW symbol \in BOOLEAN
  PROVE  Script(req, files, symbol) \in Scripts /\ Tidy(Script(req, files, symbol))
         /\ Script(req, files, symbol) # <<>>
<1> DEFINE look == NeedsAnchor(req, files) /\ ~symbol
           a == Asked("search", look) \o (IF "impact" \in req THEN <<"locate", "impact">> ELSE <<>>)
           b == a \o Asked("tests_for", "tests_for" \in req)
           c == b \o Asked("callers_of", "callers_of" \in req)
           d == c \o Asked("architecture", "architecture" \in req)
<1>0. /\ "search" \in StepNames /\ "tests_for" \in StepNames /\ "callers_of" \in StepNames
      /\ "architecture" \in StepNames /\ "locate" \in StepNames /\ "impact" \in StepNames
      /\ "tests_for" # "impact" /\ "callers_of" # "impact" /\ "architecture" # "impact"
  BY DEF StepNames
<1>1. a \in Scripts /\ Tidy(a) /\ Len(a) \in Nat /\ ("impact" \in req => Len(a) > 0)
  <2> DEFINE p == <<"locate", "impact">>
             q == <<"search">> \o p
  <2>1. p \in Seq(StepNames) /\ Len(p) = 2 /\ p[1] = "locate" /\ p[2] = "impact"
    BY <1>0
  <2>2. /\ <<"search">> \in Seq(StepNames) /\ Len(<<"search">>) = 1 /\ <<"search">>[1] = "search"
        /\ <<>> \in Seq(StepNames) /\ Len(<<>>) = 0
    BY <1>0
  <2>3. q \in Seq(StepNames) /\ Len(q) = 3 /\ q[1] = "search" /\ q[2] = "locate" /\ q[3] = "impact"
    <3>1. \A i \in 1..(Len(<<"search">>) + Len(p)) :
            q[i] = IF i <= Len(<<"search">>) THEN <<"search">>[i] ELSE p[i - Len(<<"search">>)]
      BY <2>1, <2>2, ConcatProperties
    <3>2. q \in Seq(StepNames) /\ Len(q) = Len(<<"search">>) + Len(p)
      BY <2>1, <2>2, ConcatProperties
    <3> HIDE DEF q, p
    <3> QED BY <2>1, <2>2, <3>1, <3>2
  <2>4. <<>> \o p = p /\ <<"search">> \o <<>> = <<"search">> /\ <<>> \o <<>> = <<>>
    BY <2>1, <2>2, ConcatEmptySeq
  <2> HIDE DEF p, q
  <2>5. Tidy(p) /\ Tidy(q) /\ Tidy(<<"search">>) /\ Tidy(<<>>)
    BY <2>1, <2>2, <2>3 DEF Tidy
  <2>6. a \in {q, p, <<"search">>, <<>>} /\ ("impact" \in req => a \in {q, p})
    BY <2>4 DEF Asked, q, p
  <2> HIDE DEF a
  <2>7. Tidy(a)
    BY <2>5, <2>6, Zenon
  <2>10. a \in Seq(StepNames)
    BY <2>1, <2>2, <2>3, <2>6, Zenon
  <2>8. a \in Scripts /\ Len(a) \in Nat
    BY <2>10 DEF Scripts
  <2>9. "impact" \in req => Len(a) > 0
    BY <2>1, <2>3, <2>6
  <2> QED BY <2>7, <2>8, <2>9
<1> HIDE DEF a
<1>2. b \in Scripts /\ Tidy(b) /\ Len(b) >= Len(a) /\ ("tests_for" \in req => Len(b) > Len(a))
  BY <1>0, <1>1, TidyMore, Zenon
<1>3. Len(b) \in Nat
  BY <1>2 DEF Scripts
<1> HIDE DEF b
<1>4. c \in Scripts /\ Tidy(c) /\ Len(c) >= Len(b) /\ ("callers_of" \in req => Len(c) > Len(b))
  BY <1>0, <1>2, TidyMore, Zenon
<1>5. Len(c) \in Nat
  BY <1>4 DEF Scripts
<1> HIDE DEF c
<1>6. d \in Scripts /\ Tidy(d) /\ Len(d) >= Len(c) /\ ("architecture" \in req => Len(d) > Len(c))
  BY <1>0, <1>4, TidyMore, Zenon
<1>7. Len(d) \in Nat /\ Len(<<>>) = 0
  BY <1>6 DEF Scripts
<1>8. d = Script(req, files, symbol)
  BY DEF a, b, c, Script
<1> HIDE DEF d
<1>9. \E p \in Patterns : p \in req
  OBVIOUS
<1>10. Len(d) > 0
  BY <1>1, <1>2, <1>3, <1>4, <1>5, <1>6, <1>7, <1>9 DEF Patterns
<1> QED BY <1>6, <1>7, <1>8, <1>10

-----------------------------------------------------------------------------
AskHolds == AskFits(ask, treesSeen, graphOf)

\* What is left to ask for after the step at hand.
LEMMA TailFits ==
  ASSUME NEW s \in Scripts, s # <<>>, Tidy(s)
  PROVE  /\ Head(s) = s[1] /\ Head(s) \in StepNames /\ Tail(s) \in Scripts /\ Tidy(Tail(s))
         /\ Len(s) # 1 => Tail(s) # <<>>
         /\ (\A i \in 1..Len(s) : s[i] # "impact") => \A i \in 1..Len(Tail(s)) : Tail(s)[i] # "impact"
         /\ Head(s) \in Patterns => \A i \in 1..Len(Tail(s)) : Tail(s)[i] # "impact"
<1> DEFINE t == Tail(s)
<1>1. s \in Seq(StepNames) /\ Len(s) \in Nat /\ Len(s) # 0
  BY DEF Scripts
<1>2. /\ t \in Seq(StepNames) /\ Len(t) = Len(s) - 1 /\ \A i \in 1..Len(t) : t[i] = s[i + 1]
      /\ Head(s) \in StepNames
  BY <1>1, HeadTailProperties
<1>3. Head(s) = s[1]
  BY <1>1
<1> HIDE DEF t
<1>4. \A i \in 1..Len(t) : i + 1 \in 1..Len(s) /\ 1 \in 1..Len(s) /\ 1 < i + 1
  BY <1>1, <1>2
<1>5. Tidy(t)
  BY <1>2, <1>4 DEF Tidy
<1>6. Len(s) # 1 => t # <<>>
  BY <1>1, <1>2
<1>7. ASSUME Head(s) \in Patterns PROVE \A i \in 1..Len(t) : t[i] # "impact"
  BY <1>2, <1>3, <1>4, <1>7 DEF Tidy, Patterns
<1>8. (\A i \in 1..Len(s) : s[i] # "impact") => \A i \in 1..Len(t) : t[i] # "impact"
  BY <1>2, <1>4
<1> QED BY <1>2, <1>3, <1>5, <1>6, <1>7, <1>8 DEF t, Scripts

\* The call goes on after its step, with the items kept.
LEMMA MovesOn ==
  ASSUME AskHolds, ask.at \in {"ask", "run"}, NEW kept \in Lists, AllHold(kept, treesSeen), Unjudged(kept),
         Len(kept) <= ask.limit, NEW anchor \in BOOLEAN, NEW files \in BOOLEAN,
         NEW now \in {"ask", "returned", "validate"},
         ask' = [ask EXCEPT !.script = Tail(ask.script), !.items = kept, !.anchor = anchor,
                            !.files = files, !.at = now],
         now = "ask" => Len(ask.script) # 1, now = "returned" => Len(kept) = ask.limit,
         now = "ask" /\ kept # <<>> => ask.items # <<>> \/ Step \in Patterns
  PROVE  AskFits(ask', treesSeen, graphOf)
<1> DEFINE s == ask.script
<1>1. /\ ask \in AskRecords /\ s \in Scripts /\ s # <<>> /\ Tidy(s) /\ ask.next = 1
      /\ ask.items # <<>> => \A i \in 1..Len(s) : s[i] # "impact"
  BY DEF AskHolds, AskFits, AskingFits, AskRecords
<1>2. /\ Tail(s) \in Scripts /\ Tidy(Tail(s)) /\ (Len(s) # 1 => Tail(s) # <<>>)
      /\ (ask.items # <<>> \/ Step \in Patterns) => \A i \in 1..Len(Tail(s)) : Tail(s)[i] # "impact"
  BY <1>1, TailFits DEF Step
<1>3. Len(kept) \in Nat
  BY DEF Lists
<1>4. /\ ask' \in AskRecords /\ ask'.script = Tail(s) /\ ask'.items = kept /\ ask'.at = now
      /\ ask'.limit = ask.limit /\ ask'.next = 1
  BY <1>1, <1>2 DEF AskRecords
<1>5. AskingFits(ask', treesSeen, graphOf)
  <2> SUFFICES ASSUME ask'.at \in {"ask", "run"}
               PROVE  /\ ask'.script # <<>> /\ Tidy(ask'.script) /\ Unjudged(ask'.items) /\ ask'.next = 1
                      /\ ask'.items # <<>> => \A i \in 1..Len(ask'.script) : ask'.script[i] # "impact"
                      /\ ask'.at # "run"
    BY DEF AskingFits
  <2>1. now = "ask"
    BY <1>4
  <2>2. ask'.script # <<>> /\ ask'.next = 1 /\ ask'.at # "run"
    BY <1>2, <1>4, <2>1
  <2>3. Tidy(ask'.script) /\ Unjudged(ask'.items)
    BY <1>2, <1>4, Zenon
  <2>4. ask'.items # <<>> => \A i \in 1..Len(ask'.script) : ask'.script[i] # "impact"
    BY <1>2, <1>4, <2>1
  <2> QED BY <2>2, <2>3, <2>4
<1>6. JudgingFits(ask', treesSeen)
  BY <1>3, <1>4 DEF JudgingFits
<1>7. AllHold(ask'.items, treesSeen)
  BY <1>4, Zenon
<1> QED BY <1>4, <1>5, <1>6, <1>7 DEF AskFits

\* The call goes on with items that may be cut to the limit.
LEMMA ContinueFits ==
  ASSUME AskHolds, ask.at \in {"ask", "run"}, NEW items \in Lists, AllHold(items, treesSeen), Unjudged(items),
         NEW anchor \in BOOLEAN, NEW files \in BOOLEAN, Continue(items, anchor, files),
         Len(items) <= ask.limit \/ Step \in RelationPatterns,
         items = ask.items \/ Step \in Patterns
  PROVE  AskFits(ask', treesSeen, graphOf)
<1> DEFINE kept == IF Full(items) THEN SubSeq(items, 1, ask.limit) ELSE items
           now == IF Full(items) THEN "returned" ELSE IF Len(ask.script) = 1 THEN "validate" ELSE "ask"
<1>1. ask.limit \in Nat \ {0} /\ Len(items) \in Nat /\ items \in Seq(Items)
  BY DEF AskHolds, AskFits, AskRecords, Lists
<1>2. kept \in Lists /\ Len(kept) <= ask.limit /\ (Full(items) => Len(kept) = ask.limit)
      /\ \A i \in 1..Len(kept) : i \in 1..Len(items) /\ kept[i] = items[i]
  <2>1. CASE Full(items)
    <3>1. \A i \in 1..ask.limit : items[i] \in Items /\ i \in 1..Len(items)
      BY <1>1, <2>1 DEF Full
    <3>2. /\ SubSeq(items, 1, ask.limit) \in Seq(Items) /\ Len(SubSeq(items, 1, ask.limit)) = ask.limit
          /\ \A i \in 1..ask.limit : SubSeq(items, 1, ask.limit)[i] = items[1 + i - 1]
      BY <1>1, <3>1, SubSeqProperties
    <3> QED BY <1>1, <2>1, <3>1, <3>2 DEF Lists
  <2>2. CASE ~Full(items)
    BY <1>1, <2>2 DEF Full, Lists
  <2> QED BY <2>1, <2>2
<1>3. ask' = [ask EXCEPT !.script = Tail(ask.script), !.items = kept, !.anchor = anchor, !.files = files, !.at = now]
  BY DEF Continue
<1>4. /\ now \in {"ask", "returned", "validate"} /\ (now = "ask" => Len(ask.script) # 1)
      /\ (now = "returned" => Full(items)) /\ (now = "ask" => kept = items)
  OBVIOUS
<1>5. AllHold(kept, treesSeen) /\ Unjudged(kept)
  BY <1>2 DEF AllHold, Unjudged
<1> HIDE DEF kept, now
<1> QED BY <1>2, <1>3, <1>4, <1>5, MovesOn

-----------------------------------------------------------------------------
\* The invariant holds of a call that begins.
LEMMA AskStarts ==
  ASSUME NEW call \in GraphCalls, NEW seen, NEW graph PROVE AskFits(call, seen, graph)
<1>1. PICK w \in SUBSET Patterns, f \in BOOLEAN, s \in BOOLEAN, l \in Limits, n \in BOOLEAN :
        call = [at |-> "ask", script |-> Script(Requested(w, f, s), f, s), limit |-> l,
                anchor |-> s, files |-> f, nested |-> n, items |-> <<>>, next |-> 1, hits |-> {}]
  BY DEF GraphCalls
<1>2. Requested(w, f, s) \in SUBSET Patterns /\ Requested(w, f, s) # {}
  BY DEF Requested, Patterns
<1> DEFINE script == Script(Requested(w, f, s), f, s)
<1>3. script \in Scripts /\ Tidy(script) /\ script # <<>>
  BY <1>2, ScriptFits
<1> HIDE DEF script
<1>4. l \in Nat \ {0} /\ <<>> \in Lists /\ Len(<<>>) = 0
  BY EvidenceAssumption DEF Lists
<1>5. /\ call.at = "ask" /\ call.script = script /\ call.limit = l /\ call.items = <<>> /\ call.next = 1
      /\ call \in AskRecords
  BY <1>1, <1>3, <1>4 DEF AskRecords, script
<1>6. AskingFits(call, seen, graph)
  <2>1. Tidy(call.script)
    BY <1>3, <1>5, Zenon
  <2> QED BY <1>3, <1>4, <1>5, <2>1 DEF AskingFits, Unjudged
<1> QED BY <1>4, <1>5, <1>6 DEF AskFits, AllHold, JudgingFits

\* What a tree of the call showed, it has shown when there are more of them.
LEMMA MoreTrees ==
  ASSUME NEW a, NEW seen, NEW more, seen \subseteq more, NEW graph, NEW other,
         AskFits(a, seen, graph), graph \in seen => other \in more
  PROVE  AskFits(a, more, other)
<1>1. \A item : ItemHolds(item, seen) => ItemHolds(item, more)
  BY DEF ItemHolds
<1>2. AllHold(a.items, more)
  BY <1>1 DEF AskFits, AllHold
<1>3. AskingFits(a, more, other)
  BY DEF AskFits, AskingFits
<1>4. JudgingFits(a, more)
  BY DEF AskFits, JudgingFits
<1> QED BY <1>2, <1>3, <1>4 DEF AskFits

-----------------------------------------------------------------------------
(* What each step keeps.                                                   *)
AskKept == AskFits(ask', treesSeen, graphOf)

\* The parts of the call in the form the steps need.
LEMMA AskParts ==
  ASSUME AskHolds
  PROVE  /\ ask \in AskRecords /\ ask.items \in Lists /\ ask.limit \in Nat \ {0} /\ Len(ask.items) \in Nat
         /\ Len(ask.items) <= ask.limit /\ AllHold(ask.items, treesSeen)
         /\ ask.anchor \in BOOLEAN /\ ask.files \in BOOLEAN /\ ask.next \in Nat \ {0}
         /\ \A i \in 1..Len(ask.items) : ask.items[i] \in Items
  BY DEF AskHolds, AskFits, AskRecords, Lists

\* What is known of a call that still asks.
LEMMA Asking ==
  ASSUME AskHolds, ask.at \in {"ask", "run"}
  PROVE  /\ ask.script \in Scripts /\ ask.script # <<>> /\ Unjudged(ask.items) /\ Step = ask.script[1]
         /\ Step = "impact" => ask.items = <<>>
         /\ ask.at = "run" => graphOf \in treesSeen /\ (Step = "architecture" => Len(ask.items) < ask.limit)
<1>1. /\ ask.script \in Scripts /\ ask.script # <<>> /\ Tidy(ask.script) /\ Unjudged(ask.items)
      /\ ask.items # <<>> => \A i \in 1..Len(ask.script) : ask.script[i] # "impact"
      /\ ask.at = "run" => graphOf \in treesSeen /\ (ask.script[1] = "architecture" => Len(ask.items) < ask.limit)
  BY DEF AskHolds, AskFits, AskRecords, AskingFits
<1>2. Step = ask.script[1]
  BY <1>1, TailFits DEF Step
<1>3. 1 \in 1..Len(ask.script)
  BY <1>1 DEF Scripts
<1> QED BY <1>1, <1>2, <1>3

\* A step is not worthwhile.
LEMMA SkipStepKeeps ==
  ASSUME AskHolds, SkipStep PROVE AskKept
<1>1. ask.at = "ask"
  BY DEF SkipStep
<1>2. CASE Step \in RelationPatterns
  <2> DEFINE now == IF Len(ask.script) = 1 THEN "validate" ELSE "ask"
  <2>1. ask' = [ask EXCEPT !.script = Tail(ask.script), !.at = now]
    BY <1>2 DEF SkipStep
  <2>2. now \in {"ask", "returned", "validate"} /\ (now = "ask" => Len(ask.script) # 1) /\ now # "returned"
    OBVIOUS
  <2> HIDE DEF now
  <2>3. ask' = [ask EXCEPT !.script = Tail(ask.script), !.items = ask.items, !.anchor = ask.anchor,
                           !.files = ask.files, !.at = now]
    BY <2>1, AskParts DEF AskRecords
  <2>4. Unjudged(ask.items)
    BY <1>1, Asking
  <2> QED BY <1>1, <2>2, <2>3, <2>4, AskParts, MovesOn DEF AskKept
<1>3. CASE Step \notin RelationPatterns
  <2>1. Continue(ask.items, ask.anchor, ask.files)
    BY <1>3 DEF SkipStep
  <2>2. Unjudged(ask.items)
    BY <1>1, Asking
  <2> QED BY <1>1, <2>1, <2>2, AskParts, ContinueFits DEF AskKept
<1> QED BY <1>2, <1>3

\* The graph is found fresh, or stale.
LEMMA CheckGraphKeeps ==
  ASSUME AskHolds, treeNow \in treesSeen, CheckGraph PROVE AskKept
<1>1. ask.at = "ask" /\ Worthwhile
  BY DEF CheckGraph
<1>2. CASE GraphFreshNow
  <2>1. ask' = [ask EXCEPT !.at = "run"]
    BY <1>2 DEF CheckGraph
  <2>2. /\ ask' \in AskRecords /\ ask'.at = "run" /\ ask'.script = ask.script /\ ask'.items = ask.items
        /\ ask'.limit = ask.limit /\ ask'.next = ask.next
    BY <2>1, AskParts DEF AskRecords
  <2>3. graphOf \in treesSeen
    BY <1>2 DEF GraphFreshNow
  <2>4. ask.script[1] = "architecture" => Len(ask.items) < ask.limit
    BY <1>1, Asking DEF Worthwhile
  <2>5. AskingFits(ask', treesSeen, graphOf)
    <3>1. AskingFits(ask, treesSeen, graphOf)
      BY DEF AskHolds, AskFits
    <3> QED BY <1>1, <2>2, <2>3, <2>4, <3>1 DEF AskingFits
  <2>6. JudgingFits(ask', treesSeen)
    BY <2>2 DEF JudgingFits
  <2>7. AllHold(ask'.items, treesSeen)
    BY <2>2, AskParts, Zenon
  <2> QED BY <2>2, <2>5, <2>6, <2>7, AskParts DEF AskFits, AskKept
<1>3. CASE ~GraphFreshNow
  <2>1. Continue(ask.items, ask.anchor, ask.files)
    BY <1>3 DEF CheckGraph
  <2>2. Unjudged(ask.items)
    BY <1>1, Asking
  <2> QED BY <1>1, <2>1, <2>2, AskParts, ContinueFits DEF AskKept
<1> QED BY <1>2, <1>3

\* The graph's answer joins what was found.
LEMMA AnswerJoins ==
  ASSUME AskHolds, graphOf \in Trees, ask.at = "run", Step \in Patterns
  PROVE  LET more == Append(ask.items, CrgItem(Step, graphOf)) IN
         /\ more \in Lists /\ AllHold(more, treesSeen) /\ Unjudged(more)
         /\ Len(more) <= ask.limit \/ Step \in RelationPatterns
<1> DEFINE item == CrgItem(Step, graphOf)
           more == Append(ask.items, item)
<1>1. /\ Unjudged(ask.items) /\ (Step = "impact" => ask.items = <<>>) /\ graphOf \in treesSeen
      /\ Step = "architecture" => Len(ask.items) < ask.limit
  BY Asking
<1>2. item \in Items /\ item.level = "unset" /\ ItemHolds(item, treesSeen)
  <2> DEFINE rows == IF Step = "architecture" THEN {} ELSE Related[graphOf]
             absent == rows = {} /\ Step # "architecture"
  <2>1. rows \in SUBSET AllRows /\ {} \in SUBSET AllRows
    BY DEF AllRows
  <2>2. absent \in BOOLEAN /\ TRUE \in BOOLEAN
    BY Zenon
  <2>3. "unset" \in Grades
    BY DEF Grades
  <2>4. Step # "architecture" => \E tree \in treesSeen : rows = Related[tree]
    BY <1>1
  <2>5. item = [pattern |-> Step, rows |-> rows, absent |-> absent, structural |-> TRUE, level |-> "unset",
                inScip |-> {}]
    BY DEF CrgItem, Item
  <2> HIDE DEF rows, absent, item
  <2>6. item \in Items /\ item.pattern = Step /\ item.rows = rows /\ item.level = "unset"
    BY <2>1, <2>2, <2>3, <2>5 DEF Items
  <2> QED BY <2>4, <2>6 DEF ItemHolds
<1>3. /\ ask.items \in Seq(Items) /\ Len(ask.items) \in Nat /\ Len(ask.items) <= ask.limit
      /\ ask.limit \in Nat \ {0} /\ AllHold(ask.items, treesSeen)
  BY AskParts DEF Lists
<1> HIDE DEF item
<1>4. /\ more \in Seq(Items) /\ Len(more) = Len(ask.items) + 1 /\ more[Len(ask.items) + 1] = item
      /\ \A i \in 1..Len(ask.items) : more[i] = ask.items[i]
  BY <1>2, <1>3, AppendProperties
<1> HIDE DEF more
<1>5. \A i \in 1..Len(more) : i \in 1..Len(ask.items) \/ more[i] = item
  BY <1>3, <1>4
<1>6. AllHold(more, treesSeen)
  BY <1>2, <1>3, <1>4, <1>5 DEF AllHold
<1>7. Unjudged(more)
  BY <1>1, <1>2, <1>4, <1>5 DEF Unjudged
<1>8. ASSUME Step \notin RelationPatterns PROVE Len(more) <= ask.limit
  <2>1. Step \in {"impact", "architecture"}
    BY <1>8 DEF Patterns, RelationPatterns
  <2>2. Len(<<>>) = 0
    OBVIOUS
  <2> QED BY <1>1, <1>3, <1>4, <2>1, <2>2
<1> QED BY <1>4, <1>6, <1>7, <1>8 DEF more, item, Lists

\* The graph's command ends.
LEMMA RunGraphKeeps ==
  ASSUME AskHolds, graphOf \in Trees, RunGraph PROVE AskKept
<1>1. ask.at = "run" /\ Unjudged(ask.items)
  BY Asking DEF RunGraph
<1>2. CASE Continue(ask.items, ask.anchor, ask.files)
  BY <1>1, <1>2, AskParts, ContinueFits DEF AskKept
<1>3. ASSUME NEW path \in BOOLEAN,
             Continue(ask.items, Related[graphOf] # {}, ask.files \/ (Related[graphOf] # {} /\ path))
      PROVE  AskKept
  <2>1. /\ (Related[graphOf] # {}) \in BOOLEAN
        /\ (ask.files \/ (Related[graphOf] # {} /\ path)) \in BOOLEAN
    BY Zenon
  <2> QED BY <1>1, <1>3, <2>1, AskParts, ContinueFits DEF AskKept
<1>4. CASE Continue(ask.items, ask.anchor, Related[graphOf] # {})
  <2>1. (Related[graphOf] # {}) \in BOOLEAN
    BY Zenon
  <2> QED BY <1>1, <1>4, <2>1, AskParts, ContinueFits DEF AskKept
<1>5. CASE Step \in Patterns /\ Continue(Append(ask.items, CrgItem(Step, graphOf)), ask.anchor, ask.files)
  BY <1>1, <1>5, AskParts, AnswerJoins, ContinueFits DEF AskKept
<1> QED BY <1>2, <1>3, <1>4, <1>5 DEF RunGraph

\* One item is judged.
LEMMA JudgeKeeps ==
  ASSUME AskHolds, ask.at \in {"validate", "scip"}, ask.next <= Len(ask.items),
         NEW item \in Items, ItemHolds(item, treesSeen), item.level # "unset", Judge(item)
  PROVE  AskKept
<1> DEFINE n == ask.next
           judged == [ask.items EXCEPT ![n] = item]
<1>1. /\ ask \in AskRecords /\ ask.items \in Seq(Items) /\ Len(ask.items) \in Nat /\ n \in 1..Len(ask.items)
      /\ n \in Nat /\ Len(ask.items) <= ask.limit /\ AllHold(ask.items, treesSeen)
      /\ \A i \in 1..Len(ask.items) : i < n => ask.items[i].level # "unset"
  BY AskParts DEF Lists, AskHolds, AskFits, JudgingFits
<1>2. /\ judged \in Seq(Items) /\ Len(judged) = Len(ask.items)
      /\ \A i \in 1..Len(ask.items) : judged[i] = IF i = n THEN item ELSE ask.items[i]
  BY <1>1, ExceptSeq
<1>3. ask' = [ask EXCEPT !.items = judged, !.next = n + 1, !.hits = {}, !.at = "validate"]
  BY DEF Judge
<1> HIDE DEF judged
<1>4. {} \in SUBSET AllRows /\ n + 1 \in Nat \ {0} /\ judged \in Lists
  BY <1>1, <1>2 DEF Lists
<1>5. /\ ask' \in AskRecords /\ ask'.at = "validate" /\ ask'.items = judged /\ ask'.next = n + 1
      /\ ask'.limit = ask.limit
  BY <1>1, <1>3, <1>4 DEF AskRecords
<1> HIDE DEF n
<1>6. AllHold(judged, treesSeen)
  BY <1>1, <1>2 DEF AllHold
<1>7. AllHold(ask'.items, treesSeen)
  BY <1>5, <1>6, Zenon
<1>8. JudgingFits(ask', treesSeen)
  BY <1>1, <1>2, <1>5 DEF JudgingFits
<1>9. AskingFits(ask', treesSeen, graphOf)
  BY <1>5 DEF AskingFits
<1> QED BY <1>1, <1>2, <1>5, <1>7, <1>8, <1>9 DEF AskFits, AskKept

\* An answer without rows is judged.
LEMMA ValidateEmptyKeeps ==
  ASSUME AskHolds, ValidateEmpty PROVE AskKept
<1> DEFINE old == Current
           item == [old EXCEPT !.structural = old.absent,
                               !.level = IF old.absent THEN "corroborated" ELSE "candidate"]
<1>1. /\ ask.at = "validate" /\ ask.next <= Len(ask.items) /\ old.rows = {} /\ Judge(item)
  BY DEF ValidateEmpty
<1>2. old \in Items /\ ItemHolds(old, treesSeen)
  BY <1>1, AskParts DEF Current, AllHold
<1>3. "corroborated" \in Grades /\ "candidate" \in Grades
  BY DEF Grades
<1> HIDE DEF old
<1>4. /\ item \in Items /\ item.level \in {"corroborated", "candidate"}
      /\ item.rows = {} /\ item.pattern = old.pattern /\ old.rows = {}
  BY <1>1, <1>2, <1>3 DEF Items
<1> HIDE DEF item
<1>5. ItemHolds(item, treesSeen)
  BY <1>2, <1>4 DEF ItemHolds
<1> QED BY <1>1, <1>4, <1>5, JudgeKeeps

\* The source files are asked for a witness.
LEMMA SourceOracleKeeps ==
  ASSUME AskHolds, treeNow \in treesSeen, SourceOracle PROVE AskKept
<1> DEFINE hits == Current.rows \cap Named[treeNow]
<1>1. /\ ask.at = "validate" /\ ask.next <= Len(ask.items)
      /\ ask' = [ask EXCEPT !.at = "scip", !.hits = hits]
  BY DEF SourceOracle
<1>2. Current \in Items /\ Current = ask.items[ask.next]
  BY <1>1, AskParts DEF Current
<1>3. hits \in SUBSET AllRows
  BY <1>2 DEF Items
<1>4. /\ hits = ask.items[ask.next].rows \cap Named[treeNow]
  BY <1>2
<1> HIDE DEF hits
<1>5. /\ ask' \in AskRecords /\ ask'.at = "scip" /\ ask'.hits = hits /\ ask'.items = ask.items
      /\ ask'.next = ask.next /\ ask'.limit = ask.limit
  BY <1>1, <1>3, AskParts DEF AskRecords
<1>6. AllHold(ask'.items, treesSeen)
  BY <1>5, AskParts, Zenon
<1>7. JudgingFits(ask', treesSeen)
  BY <1>1, <1>4, <1>5 DEF JudgingFits, AskHolds, AskFits
<1>8. AskingFits(ask', treesSeen, graphOf)
  BY <1>5 DEF AskingFits
<1> QED BY <1>5, <1>6, <1>7, <1>8, AskParts DEF AskFits, AskKept

\* The SCIP index is asked, and the item is judged.
LEMMA ScipOracleKeeps ==
  ASSUME AskHolds, treeNow \in treesSeen, ScipOracle PROVE AskKept
<1> DEFINE old == Current
           inScip == old.rows \cap ScipNames
           level == Level(ask.hits # {}, inScip)
           item == [old EXCEPT !.level = level, !.structural = level # "candidate", !.inScip = inScip]
<1>1. ask.at = "scip" /\ Judge(item)
  BY DEF ScipOracle
<1>2. /\ ask.next <= Len(ask.items)
      /\ \E tree \in treesSeen : ask.hits = ask.items[ask.next].rows \cap Named[tree]
  BY <1>1 DEF AskHolds, AskFits, JudgingFits
<1>3. old \in Items /\ ItemHolds(old, treesSeen) /\ old = ask.items[ask.next]
  BY <1>2, AskParts DEF Current, AllHold
<1> HIDE DEF old
<1>4. inScip \in SUBSET AllRows
  BY <1>3 DEF Items
<1>5. inScip # {} => inScip = old.rows \cap Named[treeNow]
  BY DEF ScipNames
<1> HIDE DEF inScip
<1>6. /\ level \in {"verified", "corroborated", "candidate"}
      /\ level # "candidate" => ask.hits # {} \/ inScip # {}
      /\ level = "verified" => inScip # {}
  BY DEF Level
<1> HIDE DEF level
<1>7. (level # "candidate") \in BOOLEAN
  BY Zenon
<1>8. level \in Grades
  BY <1>6 DEF Grades
<1>9. /\ item \in Items /\ item.level = level /\ item.inScip = inScip /\ item.rows = old.rows
      /\ item.pattern = old.pattern /\ (item.structural <=> level # "candidate")
  BY <1>3, <1>4, <1>7, <1>8 DEF Items
<1> HIDE DEF item
<1>10. level # "candidate" => \E tree \in treesSeen : old.rows \cap Named[tree] # {}
  BY <1>2, <1>3, <1>5, <1>6
<1>11. level = "verified" => \E tree \in treesSeen : inScip \subseteq Named[tree]
  BY <1>5, <1>6
<1>12. ItemHolds(item, treesSeen)
  BY <1>3, <1>9, <1>10, <1>11 DEF ItemHolds
<1>13. item.level # "unset"
  BY <1>6, <1>9
<1> QED BY <1>1, <1>2, <1>9, <1>12, <1>13, JudgeKeeps

\* The call returns what was judged.
LEMMA ReturnKeeps ==
  ASSUME AskHolds, ReturnValidated PROVE AskKept
<1>1. /\ ask.at = "validate" /\ ask.next > Len(ask.items) /\ ask' = [ask EXCEPT !.at = "returned"]
  BY DEF ReturnValidated
<1>2. /\ ask' \in AskRecords /\ ask'.at = "returned" /\ ask'.items = ask.items /\ ask'.limit = ask.limit
  BY <1>1, AskParts DEF AskRecords
<1>3. \A i \in 1..Len(ask.items) : ask.items[i].level # "unset"
  BY <1>1, AskParts DEF AskHolds, AskFits, JudgingFits
<1>4. AllHold(ask'.items, treesSeen)
  BY <1>2, AskParts, Zenon
<1> QED BY <1>2, <1>3, <1>4, AskParts DEF AskFits, AskingFits, JudgingFits, AskKept

-----------------------------------------------------------------------------
\* Every step, of the call and of the world, preserves the invariant.
LEMMA EvidenceNextFits == EvidenceInv /\ [EvidenceNext]_evidenceVars => EvidenceInv'
<1> SUFFICES ASSUME EvidenceInv, [EvidenceNext]_evidenceVars PROVE EvidenceInv'
  OBVIOUS
<1>1. /\ AskHolds /\ treeNow \in Trees /\ graphOf \in Trees /\ scipOf \in Trees
      /\ treesSeen \subseteq Trees /\ treeNow \in treesSeen
  BY DEF EvidenceInv, AskHolds
<1>2. ASSUME CrgContext PROVE EvidenceInv'
  <2>1. UNCHANGED <<treeNow, treesSeen, graphOf, scipOf>>
    BY <1>2 DEF CrgContext, SkipStep, CheckGraph, RunGraph, ValidateEmpty, SourceOracle, ScipOracle, ReturnValidated
  <2>2. AskKept
    BY <1>1, <1>2, SkipStepKeeps, CheckGraphKeeps, RunGraphKeeps, ValidateEmptyKeeps, SourceOracleKeeps,
       ScipOracleKeeps, ReturnKeeps DEF CrgContext
  <2>3. AskFits(ask, treesSeen, graphOf)'
    BY <2>1, <2>2 DEF AskKept
  <2> QED BY <1>1, <2>1, <2>3 DEF EvidenceInv
<1>3. ASSUME EditTree PROVE EvidenceInv'
  <2>1. PICK tree \in Trees \ treesSeen : treeNow' = tree /\ treesSeen' = treesSeen \cup {tree}
    BY <1>3 DEF EditTree
  <2>2. UNCHANGED <<graphOf, scipOf, ask>>
    BY <1>3 DEF EditTree
  <2>3. AskFits(ask, treesSeen', graphOf)
    BY <1>1, <2>1, MoreTrees DEF AskHolds
  <2>4. AskFits(ask', treesSeen', graphOf')
    BY <2>2, <2>3
  <2> QED BY <1>1, <2>1, <2>2, <2>4 DEF EvidenceInv
<1>4. ASSUME SyncGraph PROVE EvidenceInv'
  <2>1. graphOf' = treeNow /\ UNCHANGED <<treeNow, treesSeen, scipOf, ask>>
    BY <1>4 DEF SyncGraph
  <2>2. AskFits(ask, treesSeen, treeNow)
    BY <1>1, MoreTrees DEF AskHolds
  <2>3. AskFits(ask', treesSeen', graphOf')
    BY <2>1, <2>2
  <2> QED BY <1>1, <2>1, <2>3 DEF EvidenceInv
<1>5. ASSUME SyncScip PROVE EvidenceInv'
  <2>1. scipOf' = treeNow /\ UNCHANGED <<treeNow, treesSeen, graphOf, ask>>
    BY <1>5 DEF SyncScip
  <2>2. AskFits(ask', treesSeen', graphOf')
    BY <1>1, <2>1 DEF AskHolds
  <2> QED BY <1>1, <2>1, <2>2 DEF EvidenceInv
<1>6. CASE UNCHANGED evidenceVars
  <2>1. UNCHANGED <<treeNow, treesSeen, graphOf, scipOf, ask>>
    BY <1>6 DEF evidenceVars
  <2>2. AskFits(ask', treesSeen', graphOf')
    BY <1>1, <2>1 DEF AskHolds
  <2> QED BY <1>1, <2>1, <2>2 DEF EvidenceInv
<1> QED BY <1>2, <1>3, <1>4, <1>5, <1>6 DEF EvidenceNext

\* The invariant of the call holds when it begins.
LEMMA EvidenceInitFits == EvidenceInit => EvidenceInv
<1> SUFFICES ASSUME EvidenceInit PROVE EvidenceInv
  OBVIOUS
<1>1. PICK now \in Trees, graphed \in Trees, indexed \in Trees, call \in GraphCalls :
        EvidenceStart(now, graphed, indexed, call)
  BY DEF EvidenceInit
<1>2. /\ treeNow = now /\ graphOf = graphed /\ scipOf = indexed /\ treesSeen = {now} /\ ask = call
  BY <1>1 DEF EvidenceStart
<1>3. AskFits(call, {now}, graphed)
  BY AskStarts
<1> QED BY <1>2, <1>3 DEF EvidenceInv

\* It implies the safety of the call.
LEMMA EvidenceInvIsSafe == EvidenceInv => EvidenceSafety
<1> SUFFICES ASSUME EvidenceInv PROVE EvidenceSafety
  OBVIOUS
<1>1. AskHolds
  BY DEF EvidenceInv, AskHolds
<1>2. DOMAIN ask.items = 1..Len(ask.items)
  BY <1>1, AskParts DEF Lists
<1>3. ask.at \in {"ask", "run", "validate", "scip", "returned"}
  BY <1>1, AskParts DEF AskRecords
<1>4. \A i \in 1..Len(ask.items) : ask.items[i].level \in Grades /\ ItemHolds(ask.items[i], treesSeen)
  BY <1>1, AskParts DEF Items, AllHold
<1>5. EvidenceTypeOK
  BY <1>1, <1>2, <1>3, <1>4, AskParts DEF EvidenceTypeOK, EvidenceInv, Grades, AskHolds, AskFits
<1>6. \A item \in Returned : ItemHolds(item, treesSeen)
  BY <1>2, <1>4 DEF Returned
<1>7. RowsAreOfTheCall
  BY <1>6 DEF RowsAreOfTheCall, ItemHolds
<1>8. ValidatedHadWitness
  BY <1>6 DEF ValidatedHadWitness, NamedInCall, ItemHolds
<1>9. VerifiedIsOfTheCall
  BY <1>6 DEF VerifiedIsOfTheCall, ItemHolds
<1> QED BY <1>5, <1>7, <1>8, <1>9 DEF EvidenceSafety

\* For any trees, limit and edits, a crg_context call is safe: its rows are those of
\* a tree of the call, what was validated has a witness, and what is verified rests
\* on entries of one tree (crg_context, validate_crg_items).
THEOREM EvidenceIsSafe == EvidenceSpec => []EvidenceSafety
  BY EvidenceInitFits, EvidenceNextFits, EvidenceInvIsSafe, PTL DEF EvidenceSpec

-----------------------------------------------------------------------------
\* What holds of zero and goes on from each number holds of all up to a bound.
LEMMA UpTo ==
  ASSUME NEW N \in Nat, NEW S, 0 \in S, \A n \in 0..(N - 1) : n \in S => n + 1 \in S
  PROVE  \A n \in 0..N : n \in S
<1> DEFINE Bad == {n \in 0..N : n \notin S}
<1> SUFFICES ASSUME Bad # {} PROVE FALSE
  OBVIOUS
<1>0. Bad \in SUBSET Nat
  OBVIOUS
<1> HIDE DEF Bad
<1>1. PICK n \in Bad : \A m \in Bad : n <= m
  BY <1>0, LeastOf
<1> USE DEF Bad
<1>2. n \in 1..N
  BY <1>1
<1>3. n - 1 \in 0..(N - 1) /\ n - 1 \notin Bad
  BY <1>1, <1>2
<1>4. n - 1 \in S
  BY <1>2, <1>3
<1> QED BY <1>1, <1>2, <1>3, <1>4

\* A function that starts with a value and goes on by a step.
Iterates(f, N, first, step) == f[0] = first /\ \A n \in 1..N : f[n] = step[n][f[n - 1]]

\* There is one.
LEMMA Recursively ==
  ASSUME NEW N \in Nat, NEW V, NEW first \in V, NEW step \in [1..N -> [V -> V]]
  PROVE  \E f \in [0..N -> V] : Iterates(f, N, first, step)
<1> DEFINE Follows(f, n) == /\ f \in [0..n -> V] /\ f[0] = first
                         /\ \A i \in 1..n : f[i] = step[i][f[i - 1]]
           S == {n \in 0..N : \E f : Follows(f, n)}
<1>1. 0 \in S
  <2> DEFINE g == [i \in 0..0 |-> first]
  <2>1. Follows(g, 0)
    OBVIOUS
  <2> HIDE DEF g
  <2>2. 0 \in 0..N
    OBVIOUS
  <2> HIDE DEF Follows
  <2> QED BY <2>1, <2>2
<1>2. ASSUME NEW n \in 0..(N - 1), n \in S PROVE n + 1 \in S
  <2>1. PICK f : Follows(f, n)
    BY <1>2
  <2> DEFINE g == [i \in 0..(n + 1) |-> IF i = n + 1 THEN step[n + 1][f[n]] ELSE f[i]]
  <2>2. step[n + 1][f[n]] \in V
    BY <2>1
  <2>3. g \in [0..(n + 1) -> V]
    BY <2>1, <2>2
  <2>4. g[0] = first
    BY <2>1
  <2>5. \A i \in 1..(n + 1) : g[i] = step[i][g[i - 1]]
    <3> TAKE i \in 1..(n + 1)
    <3>1. CASE i = n + 1
      <4>1. g[n + 1] = step[n + 1][f[n]] /\ g[n] = f[n] /\ i - 1 = n
        BY <3>1
      <4> QED BY <3>1, <4>1
    <3>2. CASE i # n + 1
      <4>1. i \in 1..n /\ i - 1 # n + 1 /\ i - 1 \in 0..(n + 1)
        BY <3>2
      <4>2. g[i] = f[i] /\ g[i - 1] = f[i - 1]
        BY <4>1
      <4>3. f[i] = step[i][f[i - 1]]
        BY <2>1, <4>1
      <4> QED BY <4>2, <4>3
    <3> QED BY <3>1, <3>2
  <2>6. Follows(g, n + 1)
    BY <2>3, <2>4, <2>5
  <2>7. n + 1 \in 0..N
    OBVIOUS
  <2> QED BY <2>6, <2>7
<1> HIDE DEF S
<1>3. N \in S
  <2>1. \A n \in 0..N : n \in S
    BY <1>1, <1>2, UpTo
  <2> QED BY <2>1
<1>4. PICK f : Follows(f, N)
  BY <1>3 DEF S
<1> QED BY <1>4 DEF Iterates

-----------------------------------------------------------------------------
\* What a gather works with.
GatheredItems == [id : DOMAIN Evidence, kept : Nat]
ItemSeqs == Seq(GatheredItems)
IdsOf(items) == {items[i].id : i \in DOMAIN items}
Distinct(items) == \A i, k \in DOMAIN items : items[i].id = items[k].id => i = k

\* What the assumption says of the constants.
LEMMA EvidenceIs ==
  /\ IsFiniteSet(DOMAIN Evidence) /\ Budgets \subseteq Nat /\ MinSearch \in Nat
  /\ \A e \in DOMAIN Evidence : Evidence[e].chars \in Nat
  /\ \A part \in {"tests", "hot", "light", "crg"} : Shares[part] \in Nat
  BY GatheringAssumption

\* The smaller and the larger of two numbers.
LEMMA MinOfTwo ==
  ASSUME NEW a \in Int, NEW b \in Int
  PROVE  Min({a, b}) = IF a <= b THEN a ELSE b
<1> DEFINE m == IF a <= b THEN a ELSE b
<1>1. m \in {a, b} /\ \A x \in {a, b} : m <= x
  OBVIOUS
<1>2. \A x \in {a, b} : (\A y \in {a, b} : x <= y) => x = m
  OBVIOUS
<1> QED BY <1>1, <1>2 DEF Min

LEMMA MaxOfTwo ==
  ASSUME NEW a \in Int, NEW b \in Int
  PROVE  Max({a, b}) = IF a >= b THEN a ELSE b
<1> DEFINE m == IF a >= b THEN a ELSE b
<1>1. m \in {a, b} /\ \A x \in {a, b} : m >= x
  OBVIOUS
<1>2. \A x \in {a, b} : (\A y \in {a, b} : x >= y) => x = m
  OBVIOUS
<1> QED BY <1>1, <1>2 DEF Max

\* The characters of the first items, as a function that is there.
LEMMA UsedIs ==
  ASSUME NEW items \in ItemSeqs, NEW ids
  PROVE  /\ UsedTo(items, ids) \in [0..Len(items) -> Nat]
         /\ UsedTo(items, ids)[0] = 0
         /\ \A n \in 1..Len(items) :
              UsedTo(items, ids)[n] =
                UsedTo(items, ids)[n - 1] + (IF items[n].id \in ids THEN items[n].kept ELSE 0)
<1> DEFINE N == Len(items)
           more(n) == IF items[n].id \in ids THEN items[n].kept ELSE 0
           step == [n \in 1..N |-> [x \in Nat |-> x + more(n)]]
           Eq(f) == f = [n \in 0..N |-> IF n = 0 THEN 0 ELSE f[n - 1] + more(n)]
<1>0. N \in Nat /\ \A n \in 1..N : items[n] \in GatheredItems
  BY DEF ItemSeqs
<1>1. \A n \in 1..N : more(n) \in Nat
  BY <1>0 DEF GatheredItems
<1>2. step \in [1..N -> [Nat -> Nat]]
  BY <1>1
<1>3. PICK f \in [0..N -> Nat] : f[0] = 0 /\ \A n \in 1..N : f[n] = step[n][f[n - 1]]
  <2> DEFINE V == Nat
             first == 0
  <2>1. first \in V /\ step \in [1..N -> [V -> V]] /\ N \in Nat
    BY <1>0, <1>2
  <2> HIDE DEF step, N, V, first
  <2>2. \E f \in [0..N -> V] : Iterates(f, N, first, step)
    BY <2>1, Recursively, Zenon
  <2> QED BY <2>2 DEF V, first, Iterates
<1>4. \A n \in 1..N : step[n][f[n - 1]] = f[n - 1] + more(n)
  <2> TAKE n \in 1..N
  <2>1. f[n - 1] \in Nat
    BY <1>0
  <2>2. <<n, f[n - 1]>> \in (1..N) \X Nat
    BY <2>1
  <2> QED BY <2>2
<1>5. Eq(f)
  <2> HIDE DEF step, more
  <2>1. \A n \in 1..N : f[n] = f[n - 1] + more(n)
    BY <1>3, <1>4
  <2>2. f[0] = 0 /\ f \in [0..N -> Nat]
    BY <1>3
  <2> QED BY <2>1, <2>2
<1> DEFINE g == CHOOSE h : Eq(h)
<1>6. Eq(g)
  BY <1>5
<1>7. UsedTo(items, ids) = g
  BY DEF UsedTo
<1> HIDE DEF g
<1>8. g[0] = 0 /\ \A n \in 1..N : g[n] = g[n - 1] + more(n)
  BY <1>6, <1>0
<1> DEFINE S == {n \in 0..N : g[n] \in Nat}
<1>9. 0 \in S /\ \A n \in 0..(N - 1) : n \in S => n + 1 \in S
  <2>1. 0 \in S
    BY <1>8, <1>0
  <2>2. ASSUME NEW n \in 0..(N - 1), n \in S PROVE n + 1 \in S
    <3>1. n + 1 \in 1..N /\ (n + 1) - 1 = n
      BY <1>0
    <3>2. g[n + 1] = g[n] + more(n + 1) /\ more(n + 1) \in Nat
      BY <1>8, <1>1, <3>1
    <3> QED BY <3>1, <3>2, <2>2
  <2> QED BY <2>1, <2>2
<1> HIDE DEF S
<1>10. \A n \in 0..N : n \in S
  BY <1>0, <1>9, UpTo
<1>11. \A n \in 0..N : g[n] \in Nat
  BY <1>10 DEF S
<1>12. DOMAIN g = 0..N /\ g = [n \in 0..N |-> g[n]]
  BY <1>6
<1>13. g \in [0..N -> Nat]
  BY <1>11, <1>12
<1> QED BY <1>7, <1>8, <1>13

\* Sequences that begin alike take as much at first, of sets of ids that do not
\* tell their items apart.
LEMMA UsedAlike ==
  ASSUME NEW a \in ItemSeqs, NEW b \in ItemSeqs, NEW ids, NEW others,
         Len(a) <= Len(b), \A i \in 1..Len(a) : b[i] = a[i],
         \A i \in 1..Len(a) : a[i].id \in others <=> a[i].id \in ids
  PROVE  \A n \in 0..Len(a) : UsedTo(b, ids)[n] = UsedTo(a, others)[n]
<1> DEFINE ua == UsedTo(a, others)
           ub == UsedTo(b, ids)
           S == {n \in 0..Len(a) : ub[n] = ua[n]}
<1>0. Len(a) \in Nat /\ Len(b) \in Nat
  BY DEF ItemSeqs
<1>1. ua[0] = 0 /\ ub[0] = 0
  BY UsedIs
<1>2. \A n \in 1..Len(a) : ua[n] = ua[n - 1] + (IF a[n].id \in others THEN a[n].kept ELSE 0)
  BY UsedIs
<1>3. \A n \in 1..Len(b) : ub[n] = ub[n - 1] + (IF b[n].id \in ids THEN b[n].kept ELSE 0)
  BY UsedIs
<1> HIDE DEF ua, ub
<1>4. 0 \in S
  BY <1>0, <1>1
<1>5. ASSUME NEW n \in 0..(Len(a) - 1), n \in S PROVE n + 1 \in S
  <2>1. n + 1 \in 1..Len(a) /\ n + 1 \in 1..Len(b) /\ (n + 1) - 1 = n
    BY <1>0
  <2>2. ua[n + 1] = ua[n] + (IF a[n + 1].id \in others THEN a[n + 1].kept ELSE 0)
    BY <1>2, <2>1
  <2>6. a[n + 1].id \in others <=> a[n + 1].id \in ids
    BY <2>1
  <2>3. ub[n + 1] = ub[n] + (IF b[n + 1].id \in ids THEN b[n + 1].kept ELSE 0)
    BY <1>3, <2>1
  <2>4. b[n + 1] = a[n + 1] /\ ub[n] = ua[n]
    BY <2>1, <1>5
  <2>5. ub[n + 1] = ua[n + 1]
    BY <2>2, <2>3, <2>4, <2>6
  <2> QED BY <2>1, <2>5, <1>0
<1> HIDE DEF S
<1>6. \A n \in 0..Len(a) : n \in S
  BY <1>0, <1>4, <1>5, UpTo
<1> QED BY <1>6 DEF S, ua, ub

\* Joined sequences take what both take.
LEMMA UsedJoined ==
  ASSUME NEW a \in ItemSeqs, NEW b \in ItemSeqs, NEW ids
  PROVE  /\ a \o b \in ItemSeqs
         /\ UsedTo(a \o b, ids)[Len(a \o b)] = UsedTo(a, ids)[Len(a)] + UsedTo(b, ids)[Len(b)]
<1> DEFINE c == a \o b
           u == UsedTo(c, ids)
           ua == UsedTo(a, ids)
           ub == UsedTo(b, ids)
           S == {n \in 0..Len(b) : u[Len(a) + n] = ua[Len(a)] + ub[n]}
<1>0. Len(a) \in Nat /\ Len(b) \in Nat
  BY DEF ItemSeqs
<1>1. /\ c \in ItemSeqs /\ Len(c) = Len(a) + Len(b)
      /\ \A i \in 1..Len(a) : c[i] = a[i]
      /\ \A i \in 1..Len(b) : c[Len(a) + i] = b[i]
  BY <1>0, ConcatProperties DEF ItemSeqs
<1> HIDE DEF c
<1>2. \A n \in 0..Len(a) : u[n] = ua[n]
  BY <1>0, <1>1, UsedAlike
<1>3. ub[0] = 0 /\ ub \in [0..Len(b) -> Nat] /\ ua \in [0..Len(a) -> Nat]
  BY UsedIs
<1>4. \A n \in 1..Len(b) : ub[n] = ub[n - 1] + (IF b[n].id \in ids THEN b[n].kept ELSE 0)
  BY UsedIs
<1>5. \A n \in 1..Len(c) : u[n] = u[n - 1] + (IF c[n].id \in ids THEN c[n].kept ELSE 0)
  BY <1>1, UsedIs
<1> HIDE DEF u, ua, ub
<1>6. 0 \in S
  <2>1. Len(a) \in 0..Len(a) /\ Len(a) + 0 = Len(a) /\ ua[Len(a)] \in Nat
    BY <1>0, <1>3
  <2>2. u[Len(a)] = ua[Len(a)] /\ ua[Len(a)] + 0 = ua[Len(a)]
    BY <1>2, <2>1
  <2> QED BY <2>1, <2>2, <1>0, <1>3
<1>7. ASSUME NEW n \in 0..(Len(b) - 1), n \in S PROVE n + 1 \in S
  <2>1. /\ n + 1 \in 1..Len(b) /\ (n + 1) - 1 = n /\ Len(a) + (n + 1) \in 1..Len(c)
        /\ (Len(a) + (n + 1)) - 1 = Len(a) + n
    BY <1>0, <1>1
  <2>2. ub[n + 1] = ub[n] + (IF b[n + 1].id \in ids THEN b[n + 1].kept ELSE 0)
    BY <1>4, <2>1
  <2>3. u[Len(a) + (n + 1)] = u[Len(a) + n] + (IF c[Len(a) + (n + 1)].id \in ids THEN c[Len(a) + (n + 1)].kept ELSE 0)
    BY <1>5, <2>1
  <2>4. c[Len(a) + (n + 1)] = b[n + 1] /\ u[Len(a) + n] = ua[Len(a)] + ub[n]
    BY <1>1, <2>1, <1>7
  <2>5. b[n + 1] \in GatheredItems
    BY <2>1 DEF ItemSeqs
  <2>6. ub[n] \in Nat /\ ua[Len(a)] \in Nat /\ b[n + 1].kept \in Nat
    BY <1>0, <1>3, <2>5 DEF GatheredItems
  <2>7. u[Len(a) + (n + 1)] = ua[Len(a)] + ub[n + 1]
    BY <2>2, <2>3, <2>4, <2>6
  <2> QED BY <2>1, <2>7, <1>0
<1> HIDE DEF S
<1>8. \A n \in 0..Len(b) : n \in S
  BY <1>0, <1>6, <1>7, UpTo
<1>9. u[Len(a) + Len(b)] = ua[Len(a)] + ub[Len(b)]
  BY <1>0, <1>8 DEF S
<1> QED BY <1>1, <1>9 DEF c, u, ua, ub

\* What is used of a sequence, and of one with one item more.
LEMMA UsedNat ==
  ASSUME NEW items \in ItemSeqs, NEW ids
  PROVE  UsedTo(items, ids)[Len(items)] \in Nat
BY UsedIs DEF ItemSeqs

\* One item more takes what is kept of it.
LEMMA UsedMore ==
  ASSUME NEW items \in ItemSeqs, NEW x \in GatheredItems
  PROVE  Append(items, x) \in ItemSeqs /\ Used(Append(items, x)) = Used(items) + x.kept
<1> DEFINE more == Append(items, x)
<1>0. Len(items) \in Nat
  BY DEF ItemSeqs
<1>1. /\ more \in ItemSeqs /\ Len(more) = Len(items) + 1
      /\ \A i \in 1..Len(items) : more[i] = items[i]
      /\ more[Len(items) + 1] = x
  BY <1>0 DEF ItemSeqs
<1> HIDE DEF more
<1>2. UsedTo(more, DOMAIN Evidence)[Len(items)] = Used(items)
  BY <1>0, <1>1, UsedAlike DEF Used
<1>3. Len(more) \in 1..Len(more) /\ Len(more) - 1 = Len(items) /\ x.id \in DOMAIN Evidence
  BY <1>0, <1>1 DEF GatheredItems
<1>4. Used(more) = UsedTo(more, DOMAIN Evidence)[Len(items)] + x.kept
  BY <1>1, <1>3, UsedIs DEF Used
<1> QED BY <1>1, <1>2, <1>4 DEF more

\* No items take nothing.
LEMMA UsedNothing == <<>> \in ItemSeqs /\ Used(<<>>) = 0
<1>1. <<>> \in ItemSeqs /\ Len(<<>>) = 0
  BY DEF ItemSeqs
<1> QED BY <1>1, UsedIs DEF Used

-----------------------------------------------------------------------------
\* What a capped order has kept after some of its ids.
CapStates == [used : Nat, seen : SUBSET DOMAIN Evidence, items : ItemSeqs]
CapFits(acc, cap, seen, ids) ==
  /\ acc \in CapStates
  /\ Distinct(acc.items)
  /\ acc.seen = seen \cup IdsOf(acc.items) /\ seen \cap IdsOf(acc.items) = {}
  /\ IdsOf(acc.items) \subseteq ids
  /\ ids \subseteq acc.seen \/ acc.used >= cap
  /\ acc.used = Used(acc.items)

\* The ids of a sequence with one item more.
LEMMA IdsMore ==
  ASSUME NEW items \in ItemSeqs, NEW x \in GatheredItems
  PROVE  /\ IdsOf(Append(items, x)) = IdsOf(items) \cup {x.id}
         /\ Distinct(items) /\ x.id \notin IdsOf(items) => Distinct(Append(items, x))
<1> DEFINE more == Append(items, x)
<1>0. Len(items) \in Nat
  BY DEF ItemSeqs
<1>1. /\ DOMAIN more = 1..(Len(items) + 1) /\ DOMAIN items = 1..Len(items)
      /\ \A i \in 1..Len(items) : more[i] = items[i]
      /\ more[Len(items) + 1] = x
  BY <1>0 DEF ItemSeqs
<1> HIDE DEF more
<1>2. IdsOf(more) = IdsOf(items) \cup {x.id}
  <2>1. \A i \in DOMAIN more : more[i].id \in IdsOf(items) \cup {x.id}
    BY <1>0, <1>1 DEF IdsOf
  <2>2. \A i \in DOMAIN items : items[i].id \in IdsOf(more)
    BY <1>0, <1>1 DEF IdsOf
  <2>3. x.id \in IdsOf(more)
    BY <1>0, <1>1 DEF IdsOf
  <2> QED BY <2>1, <2>2, <2>3 DEF IdsOf
<1>3. ASSUME Distinct(items), x.id \notin IdsOf(items) PROVE Distinct(more)
  <2>1. ASSUME NEW i \in DOMAIN more, NEW k \in DOMAIN more, more[i].id = more[k].id PROVE i = k
    <3>1. CASE i \in DOMAIN items /\ k \in DOMAIN items
      BY <2>1, <3>1, <1>1, <1>3 DEF Distinct
    <3>2. CASE i \notin DOMAIN items /\ k \notin DOMAIN items
      BY <3>2, <1>0, <1>1
    <3>3. CASE i \in DOMAIN items /\ k \notin DOMAIN items
      <4>1. k = Len(items) + 1 /\ more[i].id \in IdsOf(items)
        BY <3>3, <1>0, <1>1 DEF IdsOf
      <4> QED BY <4>1, <2>1, <1>1, <1>3
    <3>4. CASE i \notin DOMAIN items /\ k \in DOMAIN items
      <4>1. i = Len(items) + 1 /\ more[k].id \in IdsOf(items)
        BY <3>4, <1>0, <1>1 DEF IdsOf
      <4> QED BY <4>1, <2>1, <1>1, <1>3
    <3> QED BY <3>1, <3>2, <3>3, <3>4
  <2> QED BY <2>1 DEF Distinct
<1> QED BY <1>2, <1>3 DEF more

\* One id more is looked at.
LEMMA KeepFits ==
  ASSUME NEW acc, NEW cap \in Nat, NEW seen \in SUBSET DOMAIN Evidence, NEW ids,
         CapFits(acc, cap, seen, ids), NEW e \in DOMAIN Evidence
  PROVE  CapFits(Keep(acc, e, cap), cap, seen, ids \cup {e})
<1>0. /\ acc \in CapStates /\ acc.used \in Nat /\ acc.items \in ItemSeqs
      /\ acc.seen \subseteq DOMAIN Evidence
  BY DEF CapFits, CapStates
<1>1. CASE acc.used >= cap \/ e \in acc.seen
  <2>1. Keep(acc, e, cap) = acc
    BY <1>1 DEF Keep
  <2>2. IdsOf(acc.items) \subseteq ids \cup {e}
    BY DEF CapFits
  <2>3. ids \cup {e} \subseteq acc.seen \/ acc.used >= cap
    BY <1>1 DEF CapFits
  <2> QED BY <2>1, <2>2, <2>3 DEF CapFits
<1>2. CASE ~(acc.used >= cap \/ e \in acc.seen)
  <2> DEFINE kept == Min({Evidence[e].chars, cap - acc.used})
             x == [id |-> e, kept |-> kept]
             new == [used |-> acc.used + kept, seen |-> acc.seen \cup {e}, items |-> Append(acc.items, x)]
  <2>1. Keep(acc, e, cap) = new
    BY <1>2 DEF Keep
  <2>2. kept \in Nat
    <3>1. Evidence[e].chars \in Nat /\ cap - acc.used \in Nat
      BY <1>0, <1>2, EvidenceIs
    <3> QED BY <3>1, MinOfTwo
  <2> HIDE DEF kept
  <2>3. x \in GatheredItems
    BY <2>2 DEF GatheredItems
  <2>4. x.id = e /\ x.kept = kept
    OBVIOUS
  <2> HIDE DEF x
  <2>5. /\ Append(acc.items, x) \in ItemSeqs
        /\ Used(Append(acc.items, x)) = Used(acc.items) + kept
    BY <1>0, <2>3, <2>4, UsedMore
  <2>6. /\ IdsOf(Append(acc.items, x)) = IdsOf(acc.items) \cup {e}
        /\ e \notin IdsOf(acc.items) => Distinct(Append(acc.items, x))
    BY <1>0, <2>3, <2>4, IdsMore DEF CapFits
  <2>7. e \notin seen /\ e \notin IdsOf(acc.items)
    BY <1>2 DEF CapFits
  <2>8. /\ new.used = acc.used + kept /\ new.seen = acc.seen \cup {e}
        /\ new.items = Append(acc.items, x) /\ new \in CapStates
    <3>1. acc.used + kept \in Nat /\ acc.seen \cup {e} \in SUBSET DOMAIN Evidence
      BY <1>0, <2>2
    <3> QED BY <3>1, <2>5 DEF CapStates
  <2> HIDE DEF new
  <2>9. Distinct(new.items) /\ new.seen = seen \cup IdsOf(new.items) /\ seen \cap IdsOf(new.items) = {}
    BY <2>6, <2>7, <2>8 DEF CapFits
  <2>10. IdsOf(new.items) \subseteq ids \cup {e}
    BY <2>6, <2>8 DEF CapFits
  <2>11. ids \subseteq acc.seen
    BY <1>2 DEF CapFits
  <2>12. new.used = Used(new.items)
    BY <2>5, <2>8 DEF CapFits
  <2> QED BY <2>1, <2>8, <2>9, <2>10, <2>11, <2>12 DEF CapFits
<1> QED BY <1>1, <1>2

\* What is kept of an order: each id once that was not seen before, all that
\* are not yet seen unless the cap is reached.
LEMMA CappedFits ==
  ASSUME NEW order \in Seq(DOMAIN Evidence), NEW cap \in Nat, NEW seen \in SUBSET DOMAIN Evidence
  PROVE  CapFits(Capped(order, cap, seen), cap, seen, {order[i] : i \in DOMAIN order})
<1> DEFINE N == Len(order)
           none == [used |-> 0, seen |-> seen, items |-> <<>>]
           Eq(f) == f = [n \in 0..N |-> IF n = 0 THEN none ELSE Keep(f[n - 1], order[n], cap)]
           step == [n \in 1..N |-> [acc \in CapStates |-> Keep(acc, order[n], cap)]]
           To(n) == {order[i] : i \in 1..n}
<1>0. N \in Nat /\ DOMAIN order = 1..N /\ \A n \in 1..N : order[n] \in DOMAIN Evidence
  OBVIOUS
<1>1. none \in CapStates /\ CapFits(none, cap, seen, {})
  <2>1. none.used = 0 /\ none.seen = seen /\ none.items = <<>>
    OBVIOUS
  <2>2. none \in CapStates
    BY UsedNothing DEF CapStates
  <2>3. IdsOf(<<>>) = {} /\ Distinct(<<>>)
    BY DEF IdsOf, Distinct
  <2> HIDE DEF none
  <2> QED BY <2>1, <2>2, <2>3, UsedNothing DEF CapFits
<1>2. step \in [1..N -> [CapStates -> CapStates]]
  <2> SUFFICES ASSUME NEW n \in 1..N, NEW acc \in CapStates PROVE Keep(acc, order[n], cap) \in CapStates
    OBVIOUS
  <2>1. acc.used \in Nat /\ acc.items \in ItemSeqs /\ acc.seen \subseteq DOMAIN Evidence
    BY DEF CapStates
  <2>2. CASE acc.used >= cap \/ order[n] \in acc.seen
    BY <2>2 DEF Keep
  <2>3. CASE ~(acc.used >= cap \/ order[n] \in acc.seen)
    <3> DEFINE kept == Min({Evidence[order[n]].chars, cap - acc.used})
               x == [id |-> order[n], kept |-> kept]
    <3>1. kept \in Nat
      <4> DEFINE a == Evidence[order[n]].chars
                 b == cap - acc.used
      <4>1. a \in Nat
        BY <1>0, EvidenceIs
      <4>2. b \in Nat
        BY <2>1, <2>3
      <4> HIDE DEF a, b
      <4>3. Min({a, b}) = IF a <= b THEN a ELSE b
        BY <4>1, <4>2, MinOfTwo
      <4>4. Min({a, b}) \in Nat
        BY <4>1, <4>2, <4>3
      <4> QED BY <4>4 DEF a, b
    <3>2. Keep(acc, order[n], cap) =
            [used |-> acc.used + kept, seen |-> acc.seen \cup {order[n]}, items |-> Append(acc.items, x)]
      BY <2>3 DEF Keep
    <3> HIDE DEF kept
    <3>3. x \in GatheredItems
      BY <3>1, <1>0 DEF GatheredItems
    <3> HIDE DEF x
    <3>4. Append(acc.items, x) \in ItemSeqs
      BY <2>1, <3>3, UsedMore
    <3>5. acc.used + kept \in Nat /\ acc.seen \cup {order[n]} \in SUBSET DOMAIN Evidence
      BY <2>1, <3>1, <1>0
    <3> QED BY <3>2, <3>4, <3>5 DEF CapStates
  <2> QED BY <2>2, <2>3
<1>3. PICK f \in [0..N -> CapStates] : f[0] = none /\ \A n \in 1..N : f[n] = step[n][f[n - 1]]
  <2> HIDE DEF step, none, N
  <2>1. \E f \in [0..N -> CapStates] : Iterates(f, N, none, step)
    BY <1>0, <1>1, <1>2, Recursively, Zenon
  <2> QED BY <2>1 DEF Iterates
<1>4. Eq(f)
  <2>1. \A n \in 1..N : f[n] = Keep(f[n - 1], order[n], cap)
    <3> TAKE n \in 1..N
    <3>1. f[n - 1] \in CapStates
      BY <1>0
    <3> QED BY <1>3, <3>1
  <2>2. f[0] = none /\ f \in [0..N -> CapStates]
    BY <1>3
  <2> HIDE DEF step, none
  <2> QED BY <2>1, <2>2
<1> HIDE DEF step
<1> DEFINE g == CHOOSE h : Eq(h)
<1>5. Eq(g)
  BY <1>4
<1>6. CappedTo(order, cap, seen) = g
  BY DEF CappedTo
<1> HIDE DEF g, none
<1>7. g[0] = none /\ \A n \in 1..N : g[n] = Keep(g[n - 1], order[n], cap)
  BY <1>5, <1>0
<1> DEFINE S == {n \in 0..N : CapFits(g[n], cap, seen, To(n))}
<1>8. 0 \in S
  <2>1. To(0) = {} /\ 0 \in 0..N
    BY <1>0
  <2> HIDE DEF To
  <2>2. CapFits(g[0], cap, seen, To(0))
    BY <1>1, <1>7, <2>1
  <2> QED BY <2>1, <2>2
<1>9. ASSUME NEW n \in 0..(N - 1), n \in S PROVE n + 1 \in S
  <2>1. n + 1 \in 1..N /\ (n + 1) - 1 = n /\ n + 1 \in 0..N
    BY <1>0
  <2>2. CapFits(g[n], cap, seen, To(n)) /\ order[n + 1] \in DOMAIN Evidence
    BY <1>9, <1>0, <2>1
  <2>3. g[n + 1] = Keep(g[n], order[n + 1], cap)
    BY <1>7, <2>1
  <2>4. To(n + 1) = To(n) \cup {order[n + 1]}
    BY <2>1
  <2> HIDE DEF To
  <2>5. CapFits(Keep(g[n], order[n + 1], cap), cap, seen, To(n) \cup {order[n + 1]})
    BY <2>2, KeepFits
  <2> QED BY <2>1, <2>3, <2>4, <2>5
<1> HIDE DEF S
<1>10. \A n \in 0..N : n \in S
  BY <1>0, <1>8, <1>9, UpTo
<1>11. N \in S
  BY <1>0, <1>10
<1>12. CapFits(g[N], cap, seen, To(N))
  BY <1>11 DEF S
<1> QED BY <1>0, <1>6, <1>12 DEF Capped

-----------------------------------------------------------------------------
\* What may be in the threads of a gather.
ThreadStates == [state : {"running", "ended"}, found : SUBSET DOMAIN Evidence]
Generated == From({"hot_cache"} \cup Knowledge)
LightFinds == From({"lightweight_index"} \cup IF job.isolation THEN {} ELSE Knowledge)

ThreadsHold ==
  /\ job \in Jobs
  /\ gatherStage \in {"tests", "hot", "light", "crg", "search", "cap", "done", "failed"}
  /\ threads \in [light : ThreadStates, crg : ThreadStates, search : ThreadStates]
  /\ threads.light.found \subseteq LightFinds
  /\ threads.crg.found \subseteq From({"code_review_graph"})

\* What is joined, each item once; the ids that are seen are those joined until
\* the last pass.
ItemsHold ==
  /\ joined \in ItemSeqs /\ Distinct(joined)
  /\ keys \subseteq DOMAIN Evidence
  /\ IdsOf(joined) \subseteq keys
  /\ gatherStage # "done" => keys = IdsOf(joined)
  /\ gatherStage = "done" => Used(joined) <= job.budget
  /\ job.isolation => keys \cap Generated = {}

\* Valid structure that the graph found is kept, or there was no room for it.
StructureKept ==
  HasStructure =>
    \/ \E e \in Kept : Evidence[e].valid
    \/ BudgetLeft(joined) <= MinSearch
    \/ GraphShareSpent

StructureHolds ==
  /\ gatherStage = "search" => StructureKept
  /\ StructureOrSource

GatherInv == ThreadsHold /\ ItemsHold /\ StructureHolds

\* What is from some sources is evidence, and not from others.
LEMMA Apart ==
  /\ \A sources : From(sources) \subseteq DOMAIN Evidence
  /\ From({"test_resolver"}) \cap Generated = {}
  /\ From({"code_review_graph"}) \cap Generated = {}
  /\ From({"targeted_source"}) \cap Generated = {}
  /\ From({"lightweight_index"}) \cap Generated = {}
BY DEF From, Generated, Knowledge

\* Every order of a finite set lists it.
LEMMA OrdersList ==
  ASSUME NEW S, IsFiniteSet(S), NEW order \in SetToSeqs(S)
  PROVE  order \in Seq(S) /\ {order[i] : i \in DOMAIN order} = S
<1> DEFINE n == Cardinality(S)
           image == {order[i] : i \in 1..n}
<1>1. n \in Nat
  BY FS_CardinalityType
<1>2. order \in [1..n -> S] /\ \A i, j \in 1..n : i # j => order[i] # order[j]
  BY DEF SetToSeqs
<1>3. order \in Seq(S) /\ DOMAIN order = 1..n
  BY <1>1, <1>2
<1>4. IsFiniteSet(1..n) /\ Cardinality(1..n) = n
  BY <1>1, FS_Interval
<1>5. order \in Injection(1..n, S)
  BY <1>2 DEF Injection, IsInjective
<1>6. order \in Surjection(1..n, S)
  BY <1>4, <1>5, FS_Injection
<1>7. image = S
  BY <1>2, <1>6 DEF Surjection
<1> QED BY <1>3, <1>7

\* Distinct items are as many as their ids.
LEMMA DistinctCount ==
  ASSUME NEW items \in ItemSeqs, Distinct(items)
  PROVE  Cardinality(IdsOf(items)) = Len(items)
<1> DEFINE n == Len(items)
           f == [i \in 1..n |-> items[i].id]
<1>1. n \in Nat /\ DOMAIN items = 1..n
  BY DEF ItemSeqs
<1>2. IsFiniteSet(1..n) /\ Cardinality(1..n) = n
  <2> HIDE DEF n
  <2>1. 1 \in Int /\ n \in Int /\ (IF 1 > n THEN 0 ELSE n - 1 + 1) = n
    BY <1>1
  <2> QED BY <2>1, FS_Interval
<1>3. f \in Bijection(1..n, IdsOf(items))
  <2>1. f \in [1..n -> IdsOf(items)] /\ \A i, k \in 1..n : f[i] = f[k] => i = k
    BY <1>1 DEF IdsOf, Distinct
  <2>2. \A e \in IdsOf(items) : \E i \in 1..n : f[i] = e
    BY <1>1 DEF IdsOf
  <2> HIDE DEF f
  <2> QED BY <2>1, <2>2 DEF Bijection, Injection, Surjection, IsInjective
<1> HIDE DEF f
<1>4. ExistsBijection(1..n, IdsOf(items))
  BY <1>3 DEF ExistsBijection
<1> QED BY <1>2, <1>4, FS_Bijection

\* A stage joins what is new of what it found, within its cap.
LEMMA JoinFits ==
  ASSUME ItemsHold, gatherStage # "done", NEW found \in SUBSET DOMAIN Evidence, NEW cap \in Nat, NEW next,
         Join(found, cap, next)
  PROVE  /\ job' = job /\ gatherStage' = next
         /\ joined' \in ItemSeqs /\ Distinct(joined')
         /\ keys' = IdsOf(joined') /\ keys' \subseteq keys \cup found
         /\ \E items \in ItemSeqs : /\ joined' = joined \o items /\ IdsOf(items) \subseteq found
                                    /\ found \subseteq keys' \/ Used(items) >= cap
<1>1. IsFiniteSet(found)
  BY FS_Subset, EvidenceIs
<1>2. PICK order \in SetToSeqs(found) :
        /\ joined' = joined \o Capped(order, cap, keys).items /\ keys' = Capped(order, cap, keys).seen
        /\ gatherStage' = next /\ job' = job
  BY DEF Join
<1> DEFINE capped == Capped(order, cap, keys)
<1>3. order \in Seq(found) /\ {order[i] : i \in DOMAIN order} = found
  BY <1>1, OrdersList
<1>4. order \in Seq(DOMAIN Evidence)
  BY <1>3
<1>5. CapFits(capped, cap, keys, found)
  BY <1>3, <1>4, CappedFits DEF ItemsHold
<1> HIDE DEF capped
<1>6. joined' = joined \o capped.items /\ keys' = capped.seen
  BY <1>2 DEF capped
<1> DEFINE items == capped.items
<1>7. /\ items \in ItemSeqs /\ Distinct(items) /\ keys' = keys \cup IdsOf(items)
      /\ keys \cap IdsOf(items) = {} /\ IdsOf(items) \subseteq found
      /\ found \subseteq keys' \/ Used(items) >= cap
  BY <1>5, <1>6 DEF CapFits, CapStates
<1> HIDE DEF items
<1>8. joined \in ItemSeqs /\ Distinct(joined) /\ keys = IdsOf(joined)
  BY DEF ItemsHold
<1>9. joined' = joined \o items
  BY <1>6 DEF items
<1>10. /\ Len(joined) \in Nat /\ Len(items) \in Nat
       /\ joined' \in ItemSeqs /\ DOMAIN (joined') = 1..(Len(joined) + Len(items))
       /\ DOMAIN joined = 1..Len(joined) /\ DOMAIN items = 1..Len(items)
       /\ \A i \in 1..Len(joined) : joined'[i] = joined[i]
       /\ \A i \in 1..Len(items) : joined'[Len(joined) + i] = items[i]
  BY <1>7, <1>8, <1>9, ConcatProperties DEF ItemSeqs
<1>11. \A i \in DOMAIN (joined') :
         \/ i \in DOMAIN joined /\ joined'[i] = joined[i]
         \/ i - Len(joined) \in DOMAIN items /\ joined'[i] = items[i - Len(joined)]
  <2> TAKE i \in DOMAIN (joined')
  <2>1. CASE i <= Len(joined)
    BY <2>1, <1>10
  <2>2. CASE i > Len(joined)
    <3>1. i - Len(joined) \in 1..Len(items) /\ i = Len(joined) + (i - Len(joined))
      BY <2>2, <1>10
    <3> QED BY <3>1, <1>10
  <2> QED BY <2>1, <2>2, <1>10
<1>12. IdsOf(joined') = IdsOf(joined) \cup IdsOf(items)
  <2>1. IdsOf(joined') \subseteq IdsOf(joined) \cup IdsOf(items)
    BY <1>11 DEF IdsOf
  <2>2. ASSUME NEW i \in DOMAIN joined PROVE joined[i].id \in IdsOf(joined')
    <3>1. i \in DOMAIN (joined') /\ joined'[i] = joined[i]
      BY <1>10
    <3> QED BY <3>1 DEF IdsOf
  <2>3. ASSUME NEW i \in DOMAIN items PROVE items[i].id \in IdsOf(joined')
    <3>1. Len(joined) + i \in DOMAIN (joined') /\ joined'[Len(joined) + i] = items[i]
      BY <1>10
    <3> QED BY <3>1 DEF IdsOf
  <2> QED BY <2>1, <2>2, <2>3 DEF IdsOf
<1>13. Distinct(joined')
  <2> SUFFICES ASSUME NEW i \in DOMAIN (joined'), NEW k \in DOMAIN (joined'), joined'[i].id = joined'[k].id
               PROVE  i = k
    BY DEF Distinct
  <2> DEFINE old(m) == m \in DOMAIN joined /\ joined'[m] = joined[m]
             new(m) == m - Len(joined) \in DOMAIN items /\ joined'[m] = items[m - Len(joined)]
  <2>1. (old(i) \/ new(i)) /\ (old(k) \/ new(k))
    BY <1>11
  <2>2. CASE old(i) /\ old(k)
    BY <2>2, <1>8 DEF Distinct
  <2>3. CASE new(i) /\ new(k)
    <3>1. i - Len(joined) = k - Len(joined)
      BY <2>3, <1>7 DEF Distinct
    <3> QED BY <3>1, <1>10
  <2>4. CASE (old(i) /\ new(k)) \/ (new(i) /\ old(k))
    <3>1. joined'[i].id \in IdsOf(joined) /\ joined'[i].id \in IdsOf(items)
      BY <2>4 DEF IdsOf
    <3> QED BY <3>1, <1>7, <1>8
  <2> QED BY <2>1, <2>2, <2>3, <2>4
<1> QED BY <1>2, <1>7, <1>8, <1>9, <1>10, <1>12, <1>13

\* Of items that are all among some ids everything is taken.
LEMMA UsedAll ==
  ASSUME NEW items \in ItemSeqs, NEW ids, IdsOf(items) \subseteq ids
  PROVE  UsedTo(items, ids)[Len(items)] = Used(items)
<1>1. Len(items) \in Nat /\ DOMAIN items = 1..Len(items)
  BY DEF ItemSeqs
<1>2. \A i \in 1..Len(items) : items[i].id \in ids /\ items[i].id \in DOMAIN Evidence
  <2> TAKE i \in 1..Len(items)
  <2>1. items[i].id \in IdsOf(items)
    BY <1>1 DEF IdsOf
  <2>2. items[i] \in GatheredItems
    BY <1>1 DEF ItemSeqs
  <2> QED BY <2>1, <2>2 DEF GatheredItems
<1> QED BY <1>1, <1>2, UsedAlike DEF Used

\* A stage keeps the invariant but for what it says of structure.
LEMMA JoinKeeps ==
  ASSUME ThreadsHold, ItemsHold, gatherStage \notin {"done", "failed"},
         NEW found \in SUBSET DOMAIN Evidence, NEW cap \in Nat,
         NEW next \in {"hot", "light", "crg", "search", "cap"}, Join(found, cap, next),
         job.isolation => found \cap Generated = {},
         threads' \in [light : ThreadStates, crg : ThreadStates, search : ThreadStates],
         threads'.light = threads.light, threads'.crg = threads.crg
  PROVE  ThreadsHold' /\ ItemsHold'
<1>1. /\ job' = job /\ gatherStage' = next
      /\ joined' \in ItemSeqs /\ Distinct(joined')
      /\ keys' = IdsOf(joined') /\ keys' \subseteq keys \cup found
  BY JoinFits
<1>2. ThreadsHold'
  BY <1>1 DEF ThreadsHold, LightFinds
<1>3. /\ keys' \subseteq DOMAIN Evidence
      /\ job'.isolation => keys' \cap Generated = {}
  BY <1>1 DEF ItemsHold
<1> QED BY <1>1, <1>2, <1>3 DEF ItemsHold

\* What is left of the budget, and every cap of a stage, is a number.
LEMMA CapsAreNat ==
  ASSUME ThreadsHold, ItemsHold
  PROVE  /\ job.budget \in Nat /\ Used(joined) \in Nat
         /\ BudgetLeft(joined) = IF job.budget >= Used(joined) THEN job.budget - Used(joined) ELSE 0
         /\ BudgetLeft(joined) \in Nat
         /\ \A part \in {"tests", "hot", "light", "crg"} :
              Min({BudgetLeft(joined), Shares[part]}) \in Nat
<1>1. job.budget \in Nat /\ Used(joined) \in Nat
  BY EvidenceIs, UsedNat DEF ThreadsHold, ItemsHold, Jobs, Used
<1>2. BudgetLeft(joined) = IF job.budget >= Used(joined) THEN job.budget - Used(joined) ELSE 0
  <2>1. job.budget - Used(joined) \in Int
    BY <1>1
  <2>2. BudgetLeft(joined) = IF 0 >= job.budget - Used(joined) THEN 0 ELSE job.budget - Used(joined)
    BY <2>1, MaxOfTwo DEF BudgetLeft
  <2> QED BY <1>1, <2>2
<1>3. BudgetLeft(joined) \in Nat
  BY <1>1, <1>2
<1>4. ASSUME NEW part \in {"tests", "hot", "light", "crg"}
      PROVE  Min({BudgetLeft(joined), Shares[part]}) \in Nat
  <2>1. Shares[part] \in Nat
    BY EvidenceIs
  <2> QED BY <1>3, <2>1, MinOfTwo
<1> QED BY <1>1, <1>2, <1>3, <1>4

-----------------------------------------------------------------------------
\* Each action keeps the invariant.
LEMMA JoinTestsKeeps == ASSUME GatherInv, JoinTests PROVE GatherInv'
<1>1. PICK found \in SUBSET (IF job.changed THEN From({"test_resolver"}) ELSE {}) :
        Join(found, Shares["tests"], "hot")
  BY DEF JoinTests
<1>2. found \in SUBSET DOMAIN Evidence /\ found \cap Generated = {} /\ Shares["tests"] \in Nat
  BY Apart, EvidenceIs
<1>3. threads' = threads /\ gatherStage = "tests" /\ ThreadsHold /\ ItemsHold
  BY DEF JoinTests, GatherInv
<1>4. ThreadsHold' /\ ItemsHold' /\ gatherStage' = "hot"
  BY <1>1, <1>2, <1>3, JoinKeeps, JoinFits DEF ThreadsHold
<1> QED BY <1>4 DEF GatherInv, StructureHolds, StructureOrSource

LEMMA JoinHotKeeps == ASSUME GatherInv, JoinHot PROVE GatherInv'
<1>1. PICK found \in HotCache : Join(found, Shares["hot"], "light")
  BY DEF JoinHot
<1>2. /\ found \in SUBSET DOMAIN Evidence /\ Shares["hot"] \in Nat
      /\ job.isolation => found \cap Generated = {}
  <2>1. CASE job.isolation
    BY <2>1, EvidenceIs DEF HotCache
  <2>2. CASE ~job.isolation
    BY <2>2, Apart, EvidenceIs DEF HotCache
  <2> QED BY <2>1, <2>2
<1>3. threads' = threads /\ gatherStage = "hot" /\ ThreadsHold /\ ItemsHold
  BY DEF JoinHot, GatherInv
<1>4. ThreadsHold' /\ ItemsHold' /\ gatherStage' = "light"
  BY <1>1, <1>2, <1>3, JoinKeeps, JoinFits DEF ThreadsHold
<1> QED BY <1>4 DEF GatherInv, StructureHolds, StructureOrSource

LEMMA JoinLightKeeps == ASSUME GatherInv, JoinLight PROVE GatherInv'
<1> DEFINE found == threads.light.found
           cap == Min({BudgetLeft(joined), Shares["light"]})
<1>1. /\ Join(found, cap, "crg") /\ threads' = threads
      /\ gatherStage = "light" /\ ThreadsHold /\ ItemsHold
  BY DEF JoinLight, GatherInv
<1>2. found \in SUBSET DOMAIN Evidence /\ cap \in Nat
  BY <1>1, CapsAreNat DEF ThreadsHold, ThreadStates
<1>3. job.isolation => found \cap Generated = {}
  <2>1. found \subseteq LightFinds
    BY <1>1 DEF ThreadsHold
  <2>2. job.isolation => LightFinds = From({"lightweight_index"})
    BY DEF LightFinds
  <2> QED BY <2>1, <2>2, Apart
<1> HIDE DEF found, cap
<1>4. ThreadsHold' /\ ItemsHold' /\ gatherStage' = "crg"
  BY <1>1, <1>2, <1>3, JoinKeeps, JoinFits DEF ThreadsHold
<1> QED BY <1>4 DEF GatherInv, StructureHolds, StructureOrSource

LEMMA JoinGraphKeeps == ASSUME GatherInv, JoinGraph PROVE GatherInv'
<1> DEFINE found == threads.crg.found
           cap == Min({BudgetLeft(joined), Shares["crg"]})
           graph == From({"code_review_graph"})
<1>1. /\ Join(found, cap, "search") /\ threads' = threads
      /\ gatherStage = "crg" /\ ThreadsHold /\ ItemsHold
  BY DEF JoinGraph, GatherInv
<1>2. /\ found \in SUBSET DOMAIN Evidence /\ found \subseteq graph /\ cap \in Nat
      /\ found \cap Generated = {}
  BY <1>1, CapsAreNat, Apart DEF ThreadsHold, ThreadStates
<1>3. /\ BudgetLeft(joined) \in Nat /\ Shares["crg"] \in Nat /\ Used(joined) \in Nat /\ job.budget \in Nat
      /\ BudgetLeft(joined) = IF job.budget >= Used(joined) THEN job.budget - Used(joined) ELSE 0
      /\ cap = IF BudgetLeft(joined) <= Shares["crg"] THEN BudgetLeft(joined) ELSE Shares["crg"]
  BY <1>1, CapsAreNat, EvidenceIs, MinOfTwo
<1> HIDE DEF found, cap, graph
<1>4. ThreadsHold' /\ ItemsHold' /\ gatherStage' = "search"
  BY <1>1, <1>2, JoinKeeps, JoinFits DEF ThreadsHold
<1>5. PICK items \in ItemSeqs : /\ joined' = joined \o items /\ IdsOf(items) \subseteq found
                                /\ found \subseteq keys' \/ Used(items) >= cap
  BY <1>1, <1>2, JoinFits
<1>6. job' = job /\ keys' = IdsOf(joined') /\ joined \in ItemSeqs /\ joined' \in ItemSeqs
  BY <1>1, <1>2, JoinFits DEF ItemsHold
<1>7. Used(items) \in Nat /\ Used(joined') = Used(joined) + Used(items)
  BY <1>5, <1>6, UsedJoined, UsedNat DEF Used
<1>8. UsedTo(joined', graph)[Len(joined')] >= Used(items)
  <2>1. UsedTo(items, graph)[Len(items)] = Used(items)
    BY <1>2, <1>5, UsedAll
  <2>2. UsedTo(joined', graph)[Len(joined')] = UsedTo(joined, graph)[Len(joined)] + Used(items)
    <3>1. UsedTo(joined \o items, graph)[Len(joined \o items)] =
            UsedTo(joined, graph)[Len(joined)] + UsedTo(items, graph)[Len(items)]
      BY <1>5, <1>6, UsedJoined
    <3> QED BY <3>1, <2>1, <1>5
  <2>3. UsedTo(joined, graph)[Len(joined)] \in Nat
    BY <1>6, UsedNat
  <2> QED BY <2>2, <2>3, <1>7
<1>9. ASSUME HasStructure' PROVE StructureKept'
  <2>1. PICK e \in found : Evidence[e].valid
    BY <1>9, <1>1 DEF HasStructure, found
  <2>2. CASE found \subseteq keys'
    <3>1. e \in Kept'
      BY <2>1, <2>2, <1>6 DEF Kept, IdsOf
    <3> QED BY <2>1, <3>1 DEF StructureKept
  <2>3. CASE Used(items) >= BudgetLeft(joined)
    <3>1. Used(joined') >= job.budget
      BY <2>3, <1>3, <1>7
    <3>2. BudgetLeft(joined)' = 0
      <4>1. BudgetLeft(joined)' = Max({0, job.budget - Used(joined')})
        BY <1>6 DEF BudgetLeft
      <4>2. Used(joined') \in Nat /\ job.budget - Used(joined') \in Int /\ 0 >= job.budget - Used(joined')
        BY <3>1, <1>3, <1>7
      <4> QED BY <4>1, <4>2, MaxOfTwo
    <3>3. BudgetLeft(joined)' <= MinSearch
      BY <3>2, EvidenceIs
    <3> QED BY <3>3 DEF StructureKept
  <2>4. CASE Used(items) >= Shares["crg"]
    <3>1. UsedTo(joined', graph)[Len(joined')] \in Nat
      BY <1>6, UsedNat
    <3>2. UsedTo(joined', graph)[Len(joined')] >= Shares["crg"]
      BY <2>4, <3>1, <1>3, <1>7, <1>8
    <3>3. GraphShareSpent'
      BY <3>2 DEF GraphShareSpent, graph
    <3> QED BY <3>3 DEF StructureKept
  <2> QED BY <2>2, <2>3, <2>4, <1>5, <1>3
<1>10. StructureHolds'
  BY <1>4, <1>9 DEF StructureHolds, StructureOrSource, StructureKept
<1> QED BY <1>4, <1>10 DEF GatherInv

LEMMA SearchSourceKeeps == ASSUME GatherInv, SearchSource PROVE GatherInv'
<1>0. gatherStage = "search" /\ ThreadsHold /\ ItemsHold /\ StructureKept
  BY DEF SearchSource, GatherInv, StructureHolds
<1>1. CASE WantsSearch /\ BudgetLeft(joined) > MinSearch
  <2>1. PICK found \in SUBSET From({"targeted_source"}) :
          /\ threads' = [threads EXCEPT !.search = [state |-> "ended", found |-> found]]
          /\ Join(found, BudgetLeft(joined), "cap")
    BY <1>1 DEF SearchSource
  <2>2. found \in SUBSET DOMAIN Evidence /\ found \cap Generated = {} /\ BudgetLeft(joined) \in Nat
    BY <1>0, Apart, CapsAreNat
  <2>3. /\ threads' \in [light : ThreadStates, crg : ThreadStates, search : ThreadStates]
        /\ threads'.light = threads.light /\ threads'.crg = threads.crg
        /\ threads'.search.state = "ended"
    <3>1. [state |-> "ended", found |-> found] \in ThreadStates
      BY <2>2 DEF ThreadStates
    <3> QED BY <2>1, <3>1, <1>0 DEF ThreadsHold
  <2>4. ThreadsHold' /\ ItemsHold' /\ gatherStage' = "cap"
    BY <2>1, <2>2, <2>3, <1>0, JoinKeeps, JoinFits
  <2> QED BY <2>3, <2>4 DEF GatherInv, StructureHolds, StructureOrSource
<1>2. CASE ~(WantsSearch /\ BudgetLeft(joined) > MinSearch)
  <2>1. gatherStage' = "cap" /\ UNCHANGED <<job, threads, joined, keys>>
    BY <1>2 DEF SearchSource
  <2>2. ThreadsHold' /\ ItemsHold'
    BY <2>1, <1>0 DEF ThreadsHold, ItemsHold, LightFinds, Used
  <2>3. BudgetLeft(joined) \in Nat /\ MinSearch \in Nat
    BY <1>0, CapsAreNat, EvidenceIs
  <2>4. /\ BudgetLeft(joined)' = BudgetLeft(joined) /\ (HasStructure <=> HasStructure')
        /\ (GraphShareSpent <=> GraphShareSpent') /\ Kept' = Kept /\ threads' = threads
    BY <2>1 DEF BudgetLeft, Used, HasStructure, GraphShareSpent, Kept
  <2>5. CASE BudgetLeft(joined) <= MinSearch
    BY <2>1, <2>2, <2>4, <2>5 DEF GatherInv, StructureHolds, StructureOrSource
  <2>6. CASE ~WantsSearch
    <3>1. job.structural => HasStructure
      BY <2>6 DEF WantsSearch
    <3>2. StructureOrSource'
      BY <3>1, <1>0, <2>1, <2>4 DEF StructureOrSource, StructureKept
    <3> QED BY <2>1, <2>2, <3>2 DEF GatherInv, StructureHolds
  <2> QED BY <2>3, <2>5, <2>6, <1>2
<1> QED BY <1>1, <1>2

LEMMA ThreadsKeep == ASSUME GatherInv, LightEnds \/ GraphEnds \/ ThreadFails PROVE GatherInv'
<1>0. ThreadsHold /\ ItemsHold /\ UNCHANGED <<job, joined, keys>> /\ gatherStage \in {"light", "crg"}
  BY DEF LightEnds, GraphEnds, ThreadFails, GatherInv
<1>1. gatherStage' \in {"light", "crg", "failed"}
  BY DEF LightEnds, GraphEnds, ThreadFails
<1>2. ItemsHold'
  BY <1>0, <1>1 DEF ItemsHold, Used
<1>3. StructureHolds'
  BY <1>1 DEF StructureHolds, StructureOrSource
<1>4. CASE LightEnds
  <2>1. PICK found \in SUBSET LightFinds : threads' = [threads EXCEPT !.light = [state |-> "ended", found |-> found]]
    BY <1>4 DEF LightEnds, LightFinds
  <2>2. [state |-> "ended", found |-> found] \in ThreadStates
    BY Apart DEF ThreadStates, LightFinds
  <2>3. /\ threads' \in [light : ThreadStates, crg : ThreadStates, search : ThreadStates]
        /\ threads'.light.found = found /\ threads'.crg = threads.crg
    BY <2>1, <2>2, <1>0 DEF ThreadsHold
  <2>4. ThreadsHold'
    BY <2>3, <1>0, <1>1 DEF ThreadsHold, LightFinds
  <2> QED BY <2>4, <1>2, <1>3 DEF GatherInv
<1>5. CASE GraphEnds
  <2>1. PICK found \in SUBSET From({"code_review_graph"}) : threads' = [threads EXCEPT !.crg = [state |-> "ended", found |-> found]]
    BY <1>5 DEF GraphEnds
  <2>2. [state |-> "ended", found |-> found] \in ThreadStates
    BY Apart DEF ThreadStates
  <2>3. /\ threads' \in [light : ThreadStates, crg : ThreadStates, search : ThreadStates]
        /\ threads'.light = threads.light /\ threads'.crg.found = found
    BY <2>1, <2>2, <1>0 DEF ThreadsHold
  <2>4. ThreadsHold'
    BY <2>3, <1>0, <1>1 DEF ThreadsHold, LightFinds
  <2> QED BY <2>4, <1>2, <1>3 DEF GatherInv
<1>6. CASE ThreadFails
  <2>1. threads' = threads
    BY <1>6 DEF ThreadFails
  <2>2. ThreadsHold'
    BY <2>1, <1>0, <1>1 DEF ThreadsHold, LightFinds
  <2> QED BY <2>2, <1>2, <1>3 DEF GatherInv
<1> QED BY <1>4, <1>5, <1>6

\* The last pass: the items in their order, within the budget.
WithinFits(acc, ids) ==
  /\ acc \in ItemSeqs /\ Distinct(acc) /\ IdsOf(acc) \subseteq ids /\ Used(acc) <= job.budget

\* One item more in the last pass.
LEMMA KeepWithinFits ==
  ASSUME job.budget \in Nat, NEW acc \in ItemSeqs, NEW x \in GatheredItems
  PROVE  /\ KeepWithin(acc, x) \in ItemSeqs
         /\ \A ids : WithinFits(acc, ids) /\ x.id \notin ids => WithinFits(KeepWithin(acc, x), ids \cup {x.id})
<1> DEFINE kept == Min({x.kept, job.budget - Used(acc)})
           y == [x EXCEPT !.kept = kept]
<1>1. x.kept \in Nat /\ x.id \in DOMAIN Evidence /\ Used(acc) \in Nat
  BY UsedNat DEF GatheredItems, Used
<1>2. kept = IF x.kept <= job.budget - Used(acc) THEN x.kept ELSE job.budget - Used(acc)
  BY <1>1, MinOfTwo
<1>3. KeepWithin(acc, x) = IF kept <= 0 THEN acc ELSE Append(acc, y)
  BY DEF KeepWithin
<1> HIDE DEF kept
<1>4. CASE kept <= 0
  BY <1>3, <1>4 DEF WithinFits
<1>5. CASE ~(kept <= 0)
  <2>1. kept \in Nat /\ Used(acc) + kept <= job.budget
    BY <1>1, <1>2, <1>5
  <2>2. y \in GatheredItems /\ y.id = x.id /\ y.kept = kept
    BY <2>1 DEF GatheredItems
  <2> HIDE DEF y
  <2>3. Append(acc, y) \in ItemSeqs /\ Used(Append(acc, y)) = Used(acc) + kept
    BY <2>2, UsedMore
  <2>4. /\ IdsOf(Append(acc, y)) = IdsOf(acc) \cup {x.id}
        /\ Distinct(acc) /\ x.id \notin IdsOf(acc) => Distinct(Append(acc, y))
    BY <2>2, IdsMore
  <2>5. KeepWithin(acc, x) = Append(acc, y)
    BY <1>3, <1>5
  <2> QED BY <2>1, <2>3, <2>4, <2>5 DEF WithinFits
<1> QED BY <1>1, <1>2, <1>4, <1>5

\* What the last pass leaves is among the items, each once, within the budget.
LEMMA WithinIs ==
  ASSUME job.budget \in Nat, NEW items \in ItemSeqs, Distinct(items)
  PROVE  WithinFits(WithinTo(items)[Len(items)], IdsOf(items))
<1> DEFINE N == Len(items)
           Eq(f) == f = [n \in 0..N |-> IF n = 0 THEN <<>> ELSE KeepWithin(f[n - 1], items[n])]
           step == [n \in 1..N |-> [acc \in ItemSeqs |-> KeepWithin(acc, items[n])]]
           To(n) == {items[i].id : i \in 1..n}
<1>0. N \in Nat /\ DOMAIN items = 1..N /\ \A n \in 1..N : items[n] \in GatheredItems
  BY DEF ItemSeqs
<1>1. step \in [1..N -> [ItemSeqs -> ItemSeqs]]
  BY <1>0, KeepWithinFits
<1>2. PICK f \in [0..N -> ItemSeqs] : f[0] = <<>> /\ \A n \in 1..N : f[n] = step[n][f[n - 1]]
  <2> DEFINE none == <<>>
  <2>1. none \in ItemSeqs
    BY UsedNothing
  <2> HIDE DEF step, N, none
  <2>2. \E f \in [0..N -> ItemSeqs] : Iterates(f, N, none, step)
    BY <1>0, <1>1, <2>1, Recursively, Zenon
  <2> QED BY <2>2 DEF Iterates, none
<1>3. Eq(f)
  <2>1. \A n \in 1..N : f[n] = KeepWithin(f[n - 1], items[n])
    <3> TAKE n \in 1..N
    <3>1. f[n - 1] \in ItemSeqs
      BY <1>0
    <3> QED BY <1>2, <3>1
  <2>2. f[0] = <<>> /\ f \in [0..N -> ItemSeqs]
    BY <1>2
  <2> HIDE DEF step
  <2> QED BY <2>1, <2>2
<1> HIDE DEF step
<1> DEFINE g == CHOOSE h : Eq(h)
<1>4. Eq(g)
  BY <1>3
<1>5. WithinTo(items) = g
  BY DEF WithinTo
<1> HIDE DEF g
<1>6. g[0] = <<>> /\ \A n \in 1..N : g[n] = KeepWithin(g[n - 1], items[n])
  BY <1>4, <1>0
<1> DEFINE S == {n \in 0..N : WithinFits(g[n], To(n))}
<1>7. 0 \in S
  <2>1. WithinFits(<<>>, To(0))
    BY UsedNothing DEF WithinFits, IdsOf, Distinct
  <2>2. 0 \in 0..N
    BY <1>0
  <2> HIDE DEF To
  <2> QED BY <2>1, <2>2, <1>6
<1>8. ASSUME NEW n \in 0..(N - 1), n \in S PROVE n + 1 \in S
  <2>1. n + 1 \in 1..N /\ (n + 1) - 1 = n /\ n + 1 \in 0..N
    BY <1>0
  <2>2. WithinFits(g[n], To(n)) /\ items[n + 1] \in GatheredItems /\ g[n] \in ItemSeqs
    BY <1>8, <1>0, <2>1 DEF WithinFits
  <2>3. g[n + 1] = KeepWithin(g[n], items[n + 1])
    BY <1>6, <2>1
  <2>4. To(n + 1) = To(n) \cup {items[n + 1].id}
    BY <2>1
  <2>5. items[n + 1].id \notin To(n)
    BY <2>1, <1>0 DEF Distinct
  <2> HIDE DEF To
  <2>6. WithinFits(KeepWithin(g[n], items[n + 1]), To(n) \cup {items[n + 1].id})
    BY <2>2, <2>5, KeepWithinFits
  <2> QED BY <2>1, <2>3, <2>4, <2>6
<1> HIDE DEF S
<1>9. \A n \in 0..N : n \in S
  BY <1>0, <1>7, <1>8, UpTo
<1>10. N \in S
  BY <1>0, <1>9
<1>11. WithinFits(g[N], To(N))
  BY <1>10 DEF S
<1>12. To(N) = IdsOf(items)
  BY <1>0 DEF IdsOf
<1> QED BY <1>5, <1>11, <1>12

\* The last pass keeps the invariant.
LEMMA FinalCapKeeps == ASSUME GatherInv, FinalCap PROVE GatherInv'
<1>1. /\ joined' = WithinTo(joined)[Len(joined)] /\ gatherStage' = "done"
      /\ UNCHANGED <<job, threads, keys>> /\ ThreadsHold /\ ItemsHold
  BY DEF FinalCap, GatherInv
<1>2. job.budget \in Nat
  BY <1>1, CapsAreNat
<1>3. WithinFits(joined', IdsOf(joined))
  BY <1>1, <1>2, WithinIs DEF ItemsHold
<1>4. ItemsHold'
  BY <1>1, <1>3 DEF ItemsHold, WithinFits
<1>5. ThreadsHold'
  BY <1>1 DEF ThreadsHold, LightFinds
<1> QED BY <1>1, <1>4, <1>5 DEF GatherInv, StructureHolds, StructureOrSource

\* The invariant is inductive.
LEMMA GatherInitFits == GatherInit => GatherInv
<1> SUFFICES ASSUME GatherInit PROVE GatherInv
  OBVIOUS
<1>1. PICK asked \in Jobs : GatherStart(asked)
  BY DEF GatherInit
<1>2. Pending \in ThreadStates /\ Pending.found = {}
  BY DEF Pending, ThreadStates
<1>3. ThreadsHold
  BY <1>1, <1>2 DEF GatherStart, ThreadsHold
<1>4. IdsOf(<<>>) = {} /\ Distinct(<<>>)
  BY DEF IdsOf, Distinct
<1>5. ItemsHold
  BY <1>1, <1>4, UsedNothing DEF GatherStart, ItemsHold
<1> QED BY <1>1, <1>3, <1>5 DEF GatherStart, GatherInv, StructureHolds, StructureOrSource

LEMMA GatherNextFits == GatherInv /\ [GatherNext]_gatherVars => GatherInv'
<1> SUFFICES ASSUME GatherInv, [GatherNext]_gatherVars PROVE GatherInv'
  OBVIOUS
<1>1. CASE GatherNext
  BY <1>1, JoinTestsKeeps, JoinHotKeeps, JoinLightKeeps, JoinGraphKeeps, SearchSourceKeeps,
     ThreadsKeep, FinalCapKeeps DEF GatherNext
<1>2. CASE UNCHANGED gatherVars
  BY <1>2 DEF gatherVars, GatherInv, ThreadsHold, ItemsHold, StructureHolds, StructureOrSource,
     StructureKept, LightFinds, Used, BudgetLeft, HasStructure, GraphShareSpent, Kept
<1> QED BY <1>1, <1>2

\* The invariant implies the safety properties.
LEMMA GatherInvIsSafe == GatherInv => GatheringSafety
<1> SUFFICES ASSUME GatherInv PROVE GatheringSafety
  OBVIOUS
<1>1. Kept = IdsOf(joined)
  BY DEF Kept, IdsOf
<1>2. ThreadsHold /\ ItemsHold /\ StructureOrSource
  BY DEF GatherInv, StructureHolds
<1>3. Cardinality(Kept) = Len(joined)
  BY <1>1, <1>2, DistinctCount DEF ItemsHold
<1>4. GatherTypeOK
  BY <1>1, <1>2, <1>3 DEF GatherTypeOK, ThreadsHold, ItemsHold
<1>5. BenchmarkIsolated
  BY <1>1, <1>2 DEF BenchmarkIsolated, ItemsHold, Generated
<1> QED BY <1>2, <1>4, <1>5 DEF GatheringSafety

\* The base evidence of one repository stays within the lane's budget, each item
\* once, sees nothing generated in a benchmark, and answers a structural question
\* with valid structure or a search (gather).
THEOREM GatheringIsSafe == GatherSpec => []GatheringSafety
<1>1. GatherSpec => []GatherInv
  BY GatherInitFits, GatherNextFits, PTL DEF GatherSpec
<1> QED BY <1>1, GatherInvIsSafe, PTL

-----------------------------------------------------------------------------
(* ContextSelection: sums *)

Costs == [Ids -> Nat]
Size == Len(EvidencePool)

\* A division of natural numbers.
LEMMA DivNat ==
  ASSUME NEW a \in Nat, NEW b \in Nat \ {0}
  PROVE  a \div b \in Nat /\ (b <= a => 1 <= a \div b)
OBVIOUS

\* What the assumption says of the evidence.
LEMMA PoolIs ==
  /\ Size \in Nat /\ Ids = 1..Size /\ IsFiniteSet(Ids)
  /\ CharsPerToken \in Nat \ {0} /\ MinimumChars \in Nat /\ ContextChars \subseteq Nat
  /\ CandidateLimits \subseteq Nat \ {0}
  /\ CharCost \in Costs /\ TokenCost \in Costs
  /\ \A i \in Ids : CharCost[i] = Chars(i) /\ TokenCost[i] = Tokens(Chars(i))
                    /\ Chars(i) >= 1 /\ Tokens(Chars(i)) >= 1
<1>1. /\ Size \in Nat /\ Ids = 1..Size
      /\ CharsPerToken \in Nat \ {0} /\ MinimumChars \in Nat /\ ContextChars \subseteq Nat
      /\ CandidateLimits \subseteq Nat \ {0}
      /\ \A i \in Ids : Chars(i) \in Nat \ {0}
  BY SelectionAssumption DEF Size, Chars
<1>2. IsFiniteSet(Ids)
  BY <1>1, FS_Interval
<1>3. \A i \in Ids : Tokens(Chars(i)) \in Nat /\ Tokens(Chars(i)) >= 1
  <2> TAKE i \in Ids
  <2> DEFINE a == Chars(i) + CharsPerToken - 1
  <2>1. a \in Nat /\ CharsPerToken <= a
    BY <1>1
  <2>2. a \div CharsPerToken \in Nat /\ 1 <= a \div CharsPerToken
    BY <1>1, <2>1, DivNat
  <2> QED BY <2>2 DEF Tokens
<1> QED BY <1>1, <1>2, <1>3 DEF CharCost, TokenCost, Costs

LEMMA CostNat ==
  \A i \in Ids : i \in Nat /\ Chars(i) \in Nat \ {0} /\ Tokens(Chars(i)) \in Nat \ {0}
<1> SUFFICES ASSUME NEW i \in Ids
             PROVE  i \in Nat /\ Chars(i) \in Nat \ {0} /\ Tokens(Chars(i)) \in Nat \ {0}
  OBVIOUS
<1>1. CharCost[i] \in Nat /\ TokenCost[i] \in Nat /\ i \in Nat
  BY PoolIs DEF Costs
<1>2. CharCost[i] = Chars(i) /\ TokenCost[i] = Tokens(Chars(i)) /\ Chars(i) >= 1 /\ Tokens(Chars(i)) >= 1
  BY PoolIs
<1> QED BY <1>1, <1>2

\* The sum of the first costs, as a function that is there.
LEMMA SumIs ==
  ASSUME NEW S, NEW cost \in Costs
  PROVE  /\ SumTo(S, cost) \in [0..Size -> Nat]
         /\ SumTo(S, cost)[0] = 0
         /\ \A n \in 1..Size :
              SumTo(S, cost)[n] = SumTo(S, cost)[n - 1] + (IF n \in S THEN cost[n] ELSE 0)
<1> DEFINE more(n) == IF n \in S THEN cost[n] ELSE 0
           step == [n \in 1..Size |-> [x \in Nat |-> x + more(n)]]
           Eq(f) == f = [n \in 0..Size |-> IF n = 0 THEN 0 ELSE f[n - 1] + more(n)]
<1>0. Size \in Nat /\ \A n \in 1..Size : more(n) \in Nat
  BY PoolIs DEF Costs
<1>1. step \in [1..Size -> [Nat -> Nat]]
  BY <1>0
<1>2. PICK f \in [0..Size -> Nat] : f[0] = 0 /\ \A n \in 1..Size : f[n] = step[n][f[n - 1]]
  <2> DEFINE V == Nat
             first == 0
  <2>1. first \in V /\ step \in [1..Size -> [V -> V]] /\ Size \in Nat
    BY <1>0, <1>1
  <2> HIDE DEF step, V, first
  <2>2. \E f \in [0..Size -> V] : Iterates(f, Size, first, step)
    BY <2>1, Recursively, Zenon
  <2> QED BY <2>2 DEF V, first, Iterates
<1>3. \A n \in 1..Size : step[n][f[n - 1]] = f[n - 1] + more(n)
  <2> TAKE n \in 1..Size
  <2>1. f[n - 1] \in Nat
    BY <1>0
  <2>2. <<n, f[n - 1]>> \in (1..Size) \X Nat
    BY <2>1
  <2> QED BY <2>2
<1>4. Eq(f)
  <2> HIDE DEF step, more
  <2>1. \A n \in 1..Size : f[n] = f[n - 1] + more(n)
    BY <1>2, <1>3
  <2>2. f[0] = 0 /\ f \in [0..Size -> Nat]
    BY <1>2
  <2> QED BY <2>1, <2>2
<1> DEFINE g == CHOOSE h : Eq(h)
<1>5. Eq(g)
  BY <1>4
<1>6. SumTo(S, cost) = g
  BY DEF SumTo, Size
<1> HIDE DEF g
<1>7. g[0] = 0 /\ \A n \in 1..Size : g[n] = g[n - 1] + more(n)
  BY <1>5, <1>0
<1> DEFINE T == {n \in 0..Size : g[n] \in Nat}
<1>8. 0 \in T /\ \A n \in 0..(Size - 1) : n \in T => n + 1 \in T
  <2>1. 0 \in T
    BY <1>7, <1>0
  <2>2. ASSUME NEW n \in 0..(Size - 1), n \in T PROVE n + 1 \in T
    <3>1. n + 1 \in 1..Size /\ (n + 1) - 1 = n
      BY <1>0
    <3>2. g[n + 1] = g[n] + more(n + 1) /\ more(n + 1) \in Nat
      BY <1>7, <1>0, <3>1
    <3> QED BY <3>1, <3>2, <2>2
  <2> QED BY <2>1, <2>2
<1> HIDE DEF T
<1>9. \A n \in 0..Size : n \in T
  BY <1>0, <1>8, UpTo
<1>10. \A n \in 0..Size : g[n] \in Nat
  BY <1>9 DEF T
<1>11. DOMAIN g = 0..Size /\ g = [n \in 0..Size |-> g[n]]
  BY <1>5
<1>12. g \in [0..Size -> Nat]
  BY <1>10, <1>11
<1> QED BY <1>6, <1>7, <1>12

\* A sum is a number.
LEMMA TotalNat ==
  ASSUME NEW S, NEW cost \in Costs PROVE Total(S, cost) \in Nat
<1>1. Size \in 0..Size
  BY PoolIs
<1>2. SumTo(S, cost)[Size] \in Nat
  BY <1>1, SumIs
<1> QED BY <1>2 DEF Total, Size

\* More evidence at no lower costs costs no less.
LEMMA TotalMonotone ==
  ASSUME NEW S, NEW T, NEW c \in Costs, NEW d \in Costs,
         \A i \in Ids : i \in S => i \in T /\ c[i] <= d[i]
  PROVE  Total(S, c) <= Total(T, d)
<1> DEFINE a == SumTo(S, c)
           b == SumTo(T, d)
           U == {n \in 0..Size : a[n] <= b[n]}
<1>0. Size \in Nat /\ Ids = 1..Size /\ \A i \in Ids : c[i] \in Nat /\ d[i] \in Nat
  BY PoolIs DEF Costs
<1>1. a \in [0..Size -> Nat] /\ a[0] = 0 /\ \A n \in 1..Size : a[n] = a[n - 1] + (IF n \in S THEN c[n] ELSE 0)
  BY SumIs
<1>2. b \in [0..Size -> Nat] /\ b[0] = 0 /\ \A n \in 1..Size : b[n] = b[n - 1] + (IF n \in T THEN d[n] ELSE 0)
  BY SumIs
<1>3. Total(S, c) = a[Size] /\ Total(T, d) = b[Size]
  BY DEF Total, Size
<1> HIDE DEF a, b
<1>4. 0 \in U
  BY <1>0, <1>1, <1>2
<1>5. ASSUME NEW n \in 0..(Size - 1), n \in U PROVE n + 1 \in U
  <2>1. n + 1 \in 1..Size /\ (n + 1) - 1 = n
    BY <1>0
  <2>2. a[n + 1] = a[n] + (IF n + 1 \in S THEN c[n + 1] ELSE 0)
    BY <1>1, <2>1
  <2>3. b[n + 1] = b[n] + (IF n + 1 \in T THEN d[n + 1] ELSE 0)
    BY <1>2, <2>1
  <2>4. c[n + 1] \in Nat /\ d[n + 1] \in Nat /\ (n + 1 \in S => n + 1 \in T /\ c[n + 1] <= d[n + 1])
    BY <1>0, <2>1
  <2>5. a[n] \in Nat /\ b[n] \in Nat /\ a[n] <= b[n]
    BY <1>0, <1>1, <1>2, <1>5
  <2> QED BY <1>0, <2>1, <2>2, <2>3, <2>4, <2>5
<1> HIDE DEF U
<1>6. \A n \in 0..Size : n \in U
  BY <1>0, <1>4, <1>5, UpTo
<1> QED BY <1>0, <1>3, <1>6 DEF U

\* One more piece of evidence costs what it costs.
LEMMA TotalInsert ==
  ASSUME NEW S, NEW x \in Ids, x \notin S, NEW c \in Costs
  PROVE  Total(S \cup {x}, c) = Total(S, c) + c[x]
<1> DEFINE T == S \cup {x}
           a == SumTo(S, c)
           b == SumTo(T, c)
           U == {n \in 0..Size : b[n] = a[n] + (IF x <= n THEN c[x] ELSE 0)}
<1>0. Size \in Nat /\ Ids = 1..Size /\ \A i \in Ids : c[i] \in Nat
  BY PoolIs DEF Costs
<1>1. a \in [0..Size -> Nat] /\ a[0] = 0 /\ \A n \in 1..Size : a[n] = a[n - 1] + (IF n \in S THEN c[n] ELSE 0)
  BY SumIs
<1>2. b \in [0..Size -> Nat] /\ b[0] = 0 /\ \A n \in 1..Size : b[n] = b[n - 1] + (IF n \in T THEN c[n] ELSE 0)
  BY SumIs
<1>3. Total(S, c) = a[Size] /\ Total(T, c) = b[Size]
  BY DEF Total, Size
<1> HIDE DEF a, b
<1>4. 0 \in U
  BY <1>0, <1>1, <1>2
<1>5. ASSUME NEW n \in 0..(Size - 1), n \in U PROVE n + 1 \in U
  <2>1. n + 1 \in 1..Size /\ (n + 1) - 1 = n
    BY <1>0
  <2>2. a[n + 1] = a[n] + (IF n + 1 \in S THEN c[n + 1] ELSE 0)
    BY <1>1, <2>1
  <2>3. b[n + 1] = b[n] + (IF n + 1 \in T THEN c[n + 1] ELSE 0)
    BY <1>2, <2>1
  <2>4. c[n + 1] \in Nat /\ c[x] \in Nat /\ x \in Int
    BY <1>0, <2>1
  <2>5. a[n] \in Nat /\ b[n] \in Nat /\ b[n] = a[n] + (IF x <= n THEN c[x] ELSE 0)
    BY <1>0, <1>1, <1>2, <1>5
  <2>6. n + 1 \in T <=> (n + 1 \in S \/ n + 1 = x)
    OBVIOUS
  <2>7. b[n + 1] = a[n + 1] + (IF x <= n + 1 THEN c[x] ELSE 0)
    BY <2>2, <2>3, <2>4, <2>5, <2>6
  <2> QED BY <1>0, <2>1, <2>7
<1> HIDE DEF U
<1>6. \A n \in 0..Size : n \in U
  BY <1>0, <1>4, <1>5, UpTo
<1>7. b[Size] = a[Size] + (IF x <= Size THEN c[x] ELSE 0)
  BY <1>0, <1>6 DEF U
<1> QED BY <1>0, <1>3, <1>7

\* Nothing costs nothing.
LEMMA TotalNothing ==
  ASSUME NEW c \in Costs PROVE Total({}, c) = 0
<1> DEFINE S == {}
           a == SumTo(S, c)
           U == {n \in 0..Size : a[n] = 0}
<1>0. Size \in Nat
  BY PoolIs
<1>1. a \in [0..Size -> Nat] /\ a[0] = 0 /\ \A n \in 1..Size : a[n] = a[n - 1] + (IF n \in S THEN c[n] ELSE 0)
  BY SumIs
<1>2. Total(S, c) = a[Size]
  BY DEF Total, Size
<1> HIDE DEF a
<1>3. 0 \in U
  BY <1>0, <1>1
<1>4. ASSUME NEW n \in 0..(Size - 1), n \in U PROVE n + 1 \in U
  <2>1. n + 1 \in 1..Size /\ (n + 1) - 1 = n /\ n + 1 \notin S
    BY <1>0
  <2>2. a[n + 1] = a[n] + 0
    BY <1>1, <2>1
  <2> QED BY <1>0, <1>4, <2>1, <2>2
<1> HIDE DEF U
<1>5. \A n \in 0..Size : n \in U
  BY <1>0, <1>3, <1>4, UpTo
<1> QED BY <1>0, <1>2, <1>5 DEF U

-----------------------------------------------------------------------------
(* ContextSelection: gains and the queue *)

Covers == [Ids -> Nat]
Cost(i) == Tokens(Chars(i))
Queued == [id : Ids, gain : Nat, epoch : Nat]

\* How much an item represents another is a number.
LEMMA RepresentsNat ==
  ASSUME NEW t \in Ids, NEW i \in Ids PROVE Represents(t, i) \in Nat
<1> DEFINE a == EvidencePool[t].terms
           b == EvidencePool[i].terms
           r == EvidencePool[t].relevance
<1>1. IsFiniteSet(a) /\ IsFiniteSet(b) /\ r \in Nat
  BY SelectionAssumption
<1>2. CASE a = {} \/ b = {}
  BY <1>2 DEF Represents
<1>3. CASE a # {} /\ b # {}
  <2> HIDE DEF a, b, r
  <2>1. IsFiniteSet(a \cup b) /\ a \cup b # {} /\ a \cap b \in SUBSET a
    BY <1>1, <1>3, FS_Union
  <2>2. IsFiniteSet(a \cap b)
    BY <1>1, <2>1, FS_Subset
  <2>3. Cardinality(a \cup b) \in Nat /\ Cardinality(a \cap b) \in Nat /\ Cardinality(a \cup b) # 0
    BY <2>1, <2>2, FS_CardinalityType, FS_EmptySet
  <2>4. 6 * r * Cardinality(a \cap b) \in Nat
    <3>1. 6 * r \in Nat
      BY <1>1
    <3>2. \A p, q \in Nat : p * q \in Nat
      OBVIOUS
    <3> QED BY <2>3, <3>1, <3>2
  <2>5. (6 * r * Cardinality(a \cap b)) \div Cardinality(a \cup b) \in Nat
    BY <2>3, <2>4, DivNat
  <2> QED BY <1>3, <2>5 DEF Represents, a, b, r
<1> QED BY <1>2, <1>3

\* What an item adds to what is covered.
Adds(i, cover) == [t \in Ids |-> Max({0, Represents(t, i) - cover[t]})]

LEMMA AddsIs ==
  ASSUME NEW i \in Ids, NEW cover \in Covers
  PROVE  /\ Adds(i, cover) \in Costs
         /\ \A t \in Ids : Adds(i, cover)[t] =
                             IF cover[t] <= Represents(t, i) THEN Represents(t, i) - cover[t] ELSE 0
<1> SUFFICES ASSUME NEW t \in Ids
             PROVE  /\ Adds(i, cover)[t] \in Nat
                    /\ Adds(i, cover)[t] =
                         IF cover[t] <= Represents(t, i) THEN Represents(t, i) - cover[t] ELSE 0
  BY DEF Costs, Adds
<1>1. Represents(t, i) \in Nat /\ cover[t] \in Nat
  BY RepresentsNat DEF Covers
<1>2. Max({0, Represents(t, i) - cover[t]}) =
        IF 0 >= Represents(t, i) - cover[t] THEN 0 ELSE Represents(t, i) - cover[t]
  BY <1>1, MaxOfTwo
<1> QED BY <1>1, <1>2 DEF Adds

\* A gain is a number, and falls as more is covered.
LEMMA GainNat ==
  ASSUME NEW i \in Ids, NEW cover \in Covers PROVE Gain(i, cover) \in Nat
BY AddsIs, TotalNat DEF Gain, Adds

LEMMA GainFalls ==
  ASSUME NEW i \in Ids, NEW cover \in Covers, NEW more \in Covers, \A t \in Ids : cover[t] <= more[t]
  PROVE  Gain(i, more) <= Gain(i, cover)
<1>1. \A t \in Ids : Adds(i, more)[t] <= Adds(i, cover)[t]
  <2> TAKE t \in Ids
  <2>1. Represents(t, i) \in Nat /\ cover[t] \in Nat /\ more[t] \in Nat /\ cover[t] <= more[t]
    BY RepresentsNat DEF Covers
  <2> QED BY <2>1, AddsIs
<1>2. Adds(i, more) \in Costs /\ Adds(i, cover) \in Costs
  BY AddsIs
<1>3. Total(ToSet(pick.rows), Adds(i, more)) <= Total(ToSet(pick.rows), Adds(i, cover))
  BY <1>1, <1>2, TotalMonotone
<1> QED BY <1>3 DEF Gain, Adds

\* The gain, for any rows.
GainOf(rows, i, cover) == Total(ToSet(rows), Adds(i, cover))

LEMMA GainIs == ASSUME NEW i, NEW cover PROVE Gain(i, cover) = GainOf(pick.rows, i, cover)
BY DEF Gain, GainOf, Adds

\* What is covered grows.
LEMMA CoveredGrows ==
  ASSUME NEW i \in Ids, NEW cover \in Covers
  PROVE  Covered(cover, i) \in Covers /\ \A t \in Ids : cover[t] <= Covered(cover, i)[t]
<1> SUFFICES ASSUME NEW t \in Ids
             PROVE  Covered(cover, i)[t] \in Nat /\ cover[t] <= Covered(cover, i)[t]
  BY DEF Covers, Covered
<1>1. Represents(t, i) \in Nat /\ cover[t] \in Nat
  BY RepresentsNat DEF Covers
<1>2. Max({cover[t], Represents(t, i)}) = IF cover[t] >= Represents(t, i) THEN cover[t] ELSE Represents(t, i)
  BY <1>1, MaxOfTwo
<1> QED BY <1>1, <1>2 DEF Covered

\* What the chosen cover is a cover.
LEMMA CoverIs ==
  ASSUME NEW chosen \in Seq(Ids) PROVE CoverTo(chosen)[Len(chosen)] \in Covers
<1> DEFINE N == Len(chosen)
           zero == [i \in Ids |-> 0]
           step == [n \in 1..N |-> [c \in Covers |-> Covered(c, chosen[n])]]
           Eq(f) == f = [n \in 0..N |-> IF n = 0 THEN zero ELSE Covered(f[n - 1], chosen[n])]
<1>0. N \in Nat /\ zero \in Covers /\ \A n \in 1..N : chosen[n] \in Ids
  BY DEF Covers
<1>1. step \in [1..N -> [Covers -> Covers]]
  BY <1>0, CoveredGrows
<1>2. PICK f \in [0..N -> Covers] : f[0] = zero /\ \A n \in 1..N : f[n] = step[n][f[n - 1]]
  <2> DEFINE V == Covers
             first == zero
  <2>1. first \in V /\ step \in [1..N -> [V -> V]] /\ N \in Nat
    BY <1>0, <1>1
  <2> HIDE DEF step, V, first, N
  <2>2. \E f \in [0..N -> V] : Iterates(f, N, first, step)
    BY <2>1, Recursively, Zenon
  <2> QED BY <2>2 DEF V, first, Iterates
<1>3. \A n \in 1..N : step[n][f[n - 1]] = Covered(f[n - 1], chosen[n])
  <2> TAKE n \in 1..N
  <2>1. f[n - 1] \in Covers
    BY <1>0
  <2> QED BY <2>1
<1>4. Eq(f)
  <2> HIDE DEF step, zero
  <2>1. \A n \in 1..N : f[n] = Covered(f[n - 1], chosen[n])
    BY <1>2, <1>3
  <2>2. f[0] = zero /\ f \in [0..N -> Covers]
    BY <1>2
  <2> QED BY <2>1, <2>2
<1> DEFINE g == CHOOSE h : Eq(h)
<1>5. Eq(g)
  BY <1>4
<1>6. CoverTo(chosen) = g
  BY DEF CoverTo
<1> HIDE DEF g
<1>7. g[0] = zero /\ \A n \in 1..N : g[n] = Covered(g[n - 1], chosen[n])
  <2> HIDE DEF zero
  <2>1. 0 \in 0..N /\ \A n \in 1..N : n \in 0..N /\ n # 0
    BY <1>0
  <2> HIDE DEF N
  <2>2. g[0] = zero
    BY <1>5, <2>1
  <2>3. \A n \in 1..N : g[n] = Covered(g[n - 1], chosen[n])
    BY <1>5, <2>1
  <2> QED BY <2>2, <2>3
<1> DEFINE T == {n \in 0..N : g[n] \in Covers}
<1>8. 0 \in T /\ \A n \in 0..(N - 1) : n \in T => n + 1 \in T
  <2> HIDE DEF zero
  <2>1. 0 \in T
    BY <1>7, <1>0
  <2>2. ASSUME NEW n \in 0..(N - 1), n \in T PROVE n + 1 \in T
    <3>1. n + 1 \in 1..N /\ (n + 1) - 1 = n
      BY <1>0
    <3>2. g[n + 1] = Covered(g[n], chosen[n + 1]) /\ chosen[n + 1] \in Ids /\ g[n] \in Covers
      BY <1>7, <1>0, <2>2, <3>1
    <3> QED BY <3>1, <3>2, CoveredGrows
  <2> QED BY <2>1, <2>2
<1> HIDE DEF T
<1>9. \A n \in 0..N : n \in T
  BY <1>0, <1>8, UpTo
<1> QED BY <1>0, <1>6, <1>9 DEF T

\* More gain per token is an order.
LEMMA DenserIsTransitive ==
  ASSUME NEW a \in Nat, NEW b \in Nat, NEW c \in Nat,
         NEW x \in Nat \ {0}, NEW y \in Nat \ {0}, NEW z \in Nat \ {0},
         a * y >= b * x, b * z >= c * y
  PROVE  a * z >= c * x /\ (a * y > b * x \/ b * z > c * y => a * z > c * x)
<1> SUFFICES ASSUME c * x > a * z \/ ((a * y > b * x \/ b * z > c * y) /\ c * x >= a * z)
             PROVE  FALSE
  <2>1. a * z \in Nat /\ c * x \in Nat /\ a * y \in Nat /\ b * x \in Nat /\ b * z \in Nat /\ c * y \in Nat
    OBVIOUS
  <2> QED BY <2>1
<1>1. \A p, q \in Nat, r \in Nat \ {0} : (p >= q => p * r >= q * r) /\ (p > q => p * r > q * r)
  OBVIOUS
<1>2. (a * y) * z >= (b * x) * z /\ (b * z) * x >= (c * y) * x
  BY <1>1
<1> QED OBVIOUS

-----------------------------------------------------------------------------
(* ContextSelection: lists *)

IdLists == Seq(Ids)
NoRepeats(s) == \A k, l \in 1..Len(s) : k # l => s[k] # s[l]

\* A list that takes one more item.
LEMMA ListTakes ==
  ASSUME NEW s \in IdLists, NEW x \in Ids, NoRepeats(s), x \notin ToSet(s)
  PROVE  /\ Append(s, x) \in IdLists /\ NoRepeats(Append(s, x))
         /\ ToSet(Append(s, x)) = ToSet(s) \cup {x}
         /\ Len(Append(s, x)) = Len(s) + 1 /\ Append(s, x)[Len(s) + 1] = x
<1> DEFINE n == Len(s)
           t == Append(s, x)
<1>1. n \in Nat /\ DOMAIN s = 1..n /\ \A k \in 1..n : s[k] \in Ids
  BY DEF IdLists
<1>2. t \in IdLists /\ Len(t) = n + 1 /\ DOMAIN t = 1..(n + 1) /\ t[n + 1] = x
      /\ \A k \in 1..n : t[k] = s[k]
  BY DEF IdLists
<1>3. \A k \in 1..n : s[k] # x
  BY <1>1 DEF ToSet
<1> HIDE DEF n, t
<1>4. ToSet(t) = ToSet(s) \cup {x}
  <2>1. \A k \in 1..(n + 1) : k = n + 1 \/ k \in 1..n
    BY <1>1
  <2>2. 1..n \subseteq 1..(n + 1) /\ n + 1 \in 1..(n + 1)
    BY <1>1
  <2> QED BY <1>1, <1>2, <2>1, <2>2 DEF ToSet
<1>5. NoRepeats(t)
  <2> SUFFICES ASSUME NEW k \in 1..(n + 1), NEW l \in 1..(n + 1), k # l PROVE t[k] # t[l]
    BY <1>2 DEF NoRepeats
  <2>1. (k \in 1..n \/ k = n + 1) /\ (l \in 1..n \/ l = n + 1)
    BY <1>1
  <2>2. \A p, q \in 1..n : p # q => s[p] # s[q]
    BY DEF NoRepeats, n
  <2> QED BY <1>2, <1>3, <2>1, <2>2
<1> QED BY <1>2, <1>4, <1>5 DEF t, n

\* It holds as many as it is long.
LEMMA ListCount ==
  ASSUME NEW s \in IdLists, NoRepeats(s)
  PROVE  IsFiniteSet(ToSet(s)) /\ Cardinality(ToSet(s)) = Len(s) /\ ToSet(s) \subseteq Ids
<1>1. Len(s) \in Nat /\ DOMAIN s = 1..Len(s) /\ \A k \in 1..Len(s) : s[k] \in Ids
  BY DEF IdLists
<1> DEFINE n == Len(s)
           D == 1..n
           T == ToSet(s)
<1>2. s \in [D -> T] /\ \A k, l \in D : k # l => s[k] # s[l]
  <2>1. s \in [D -> Ids]
    BY <1>1 DEF IdLists
  <2>2. \A k \in D : s[k] \in T
    BY <1>1 DEF ToSet
  <2> QED BY <2>1, <2>2 DEF NoRepeats
<1>3. \A x \in T : \E k \in D : s[k] = x
  BY <1>1 DEF ToSet
<1> HIDE DEF T
<1>4. s \in Bijection(D, T)
  BY <1>2, <1>3 DEF Bijection, Injection, Surjection, IsInjective
<1>5. ExistsBijection(D, T)
  BY <1>4, Zenon DEF ExistsBijection
<1>6. IsFiniteSet(D) /\ Cardinality(D) = n
  <2> HIDE DEF n
  <2>1. 1 \in Int /\ n \in Int /\ n \in Nat
    BY <1>1 DEF n
  <2> QED BY <2>1, FS_Interval
<1>7. IsFiniteSet(T) /\ Cardinality(T) = n
  <2> HIDE DEF D, n
  <2> QED BY <1>5, <1>6, FS_Bijection
<1> QED BY <1>1, <1>7 DEF T, ToSet

\* A function that takes each number up to their count to another item of a
\* set lists them all.
LEMMA ListsAll ==
  ASSUME NEW S \in SUBSET Ids, NEW s \in [1..Cardinality(S) -> S],
         \A k, l \in 1..Cardinality(S) : k # l => s[k] # s[l]
  PROVE  s \in IdLists /\ Len(s) = Cardinality(S) /\ NoRepeats(s) /\ ToSet(s) = S
<1> DEFINE n == Cardinality(S)
           D == 1..n
<1>1. IsFiniteSet(S) /\ n \in Nat
  <2>1. IsFiniteSet(S)
    BY PoolIs, FS_Subset
  <2> QED BY <2>1, FS_CardinalityType
<1>2. IsFiniteSet(D) /\ Cardinality(D) = n
  <2> HIDE DEF n
  <2>1. 1 \in Int /\ n \in Int
    BY <1>1
  <2> QED BY <1>1, <2>1, FS_Interval
<1>3. s \in Injection(D, S)
  BY DEF Injection, IsInjective
<1>4. s \in Surjection(D, S)
  <2> HIDE DEF D
  <2> QED BY <1>1, <1>2, <1>3, FS_Injection
<1>5. s \in IdLists /\ Len(s) = n /\ DOMAIN s = D
  <2>1. s \in Seq(S)
    BY <1>1
  <2> HIDE DEF n
  <2>2. s \in [1..n -> S]
    BY DEF n
  <2> QED BY <1>1, <2>1, <2>2 DEF IdLists
<1>6. ToSet(s) = S
  BY <1>4, <1>5 DEF ToSet, Surjection
<1>7. NoRepeats(s)
  BY <1>5 DEF NoRepeats
<1> QED BY <1>5, <1>6, <1>7

\* So does an arrangement.
LEMMA ArrangedLists ==
  ASSUME NEW S \in SUBSET Ids, NEW before, \A i \in S : <<i, i>> \notin before,
         NEW s \in Arranged(S, before)
  PROVE  s \in IdLists /\ Len(s) = Cardinality(S) /\ NoRepeats(s) /\ ToSet(s) = S
<1> DEFINE n == Cardinality(S)
<1>1. n \in Nat
  <2>1. IsFiniteSet(S)
    BY PoolIs, FS_Subset
  <2> QED BY <2>1, FS_CardinalityType
<1>2. s \in [1..n -> S] /\ \A k, l \in 1..n : k < l => <<s[k], s[l]>> \in before
  BY DEF Arranged
<1> HIDE DEF n
<1>3. \A k, l \in 1..n : k < l => s[k] # s[l]
  BY <1>2
<1>4. \A k, l \in 1..n : k # l => s[k] # s[l]
  BY <1>1, <1>3
<1> QED BY <1>2, <1>4, ListsAll DEF n

LEMMA ByRelevanceLists ==
  ASSUME NEW S \in SUBSET Ids, NEW s \in ByRelevance(S)
  PROVE  s \in IdLists /\ NoRepeats(s) /\ ToSet(s) = S /\ Len(s) = Cardinality(S)
<1> DEFINE before == {p \in S \X S : Before(p[1], p[2])}
<1>1. ASSUME NEW i \in S PROVE <<i, i>> \notin before
  <2>1. ~Before(i, i)
    <3>1. EvidencePool[i].relevance \in Nat /\ Tokens(Chars(i)) \in Nat /\ i \in Nat
      BY SelectionAssumption, PoolIs DEF Costs
    <3> QED BY <3>1 DEF Before
  <2> QED BY <2>1
<1>2. s \in Arranged(S, before)
  BY DEF ByRelevance
<1> HIDE DEF before
<1> QED BY <1>1, <1>2, ArrangedLists

LEMMA AsInLists ==
  ASSUME NEW rows \in IdLists, NoRepeats(rows), NEW S \in SUBSET Ids, NEW s \in AsIn(rows, S)
  PROVE  s \in IdLists /\ NoRepeats(s) /\ ToSet(s) = S /\ Len(s) = Cardinality(S)
<1> DEFINE before == {p \in S \X S : \E k, l \in DOMAIN rows : k < l /\ p = <<rows[k], rows[l]>>}
<1>0. Len(rows) \in Nat /\ DOMAIN rows = 1..Len(rows)
  BY DEF IdLists
<1>1. ASSUME NEW i \in S PROVE <<i, i>> \notin before
  <2> SUFFICES ASSUME NEW k \in DOMAIN rows, NEW l \in DOMAIN rows, k < l, <<i, i>> = <<rows[k], rows[l]>>
               PROVE  FALSE
    OBVIOUS
  <2>1. k # l /\ rows[k] = rows[l]
    BY <1>0
  <2> QED BY <1>0, <2>1 DEF NoRepeats
<1>2. s \in Arranged(S, before)
  BY DEF AsIn
<1> HIDE DEF before
<1> QED BY <1>1, <1>2, ArrangedLists

\* The first of a list, and two lists that have nothing in common.
LEMMA FirstOnesLists ==
  ASSUME NEW rows \in IdLists, NoRepeats(rows), NEW n \in Nat
  PROVE  /\ FirstOnes(rows, n) \in IdLists /\ NoRepeats(FirstOnes(rows, n))
         /\ ToSet(FirstOnes(rows, n)) \subseteq ToSet(rows)
<1> DEFINE m == Min({Len(rows), n})
           t == FirstOnes(rows, n)
<1>1. Len(rows) \in Nat /\ DOMAIN rows = 1..Len(rows) /\ \A k \in 1..Len(rows) : rows[k] \in Ids
  BY DEF IdLists
<1>2. m \in Nat /\ m <= Len(rows)
  <2>1. m = IF Len(rows) <= n THEN Len(rows) ELSE n
    BY <1>1, MinOfTwo
  <2> QED BY <1>1, <2>1
<1>3. t = SubSeq(rows, 1, m)
  BY DEF FirstOnes
<1> HIDE DEF m, t
<1>4. t \in IdLists /\ Len(t) = m /\ DOMAIN t = 1..m /\ \A k \in 1..m : t[k] = rows[k]
  BY <1>1, <1>2, <1>3 DEF IdLists
<1>5. \A k \in 1..m : k \in 1..Len(rows)
  BY <1>1, <1>2
<1>6. NoRepeats(t)
  BY <1>4, <1>5 DEF NoRepeats
<1>7. ToSet(t) \subseteq ToSet(rows)
  BY <1>1, <1>4, <1>5 DEF ToSet
<1> QED BY <1>4, <1>6, <1>7 DEF t

LEMMA ListsJoined ==
  ASSUME NEW s \in IdLists, NoRepeats(s), NEW t \in IdLists, NoRepeats(t), ToSet(s) \cap ToSet(t) = {}
  PROVE  s \o t \in IdLists /\ NoRepeats(s \o t) /\ ToSet(s \o t) = ToSet(s) \cup ToSet(t)
<1> DEFINE n == Len(s)
           m == Len(t)
           u == s \o t
<1>1. n \in Nat /\ m \in Nat /\ DOMAIN s = 1..n /\ DOMAIN t = 1..m
  BY DEF IdLists
<1>2. /\ u \in IdLists /\ Len(u) = n + m /\ DOMAIN u = 1..(n + m)
      /\ \A k \in 1..(n + m) : u[k] = IF k <= n THEN s[k] ELSE t[k - n]
  BY DEF IdLists
<1>3. \A k \in 1..n, l \in 1..m : s[k] # t[l]
  BY <1>1 DEF ToSet
<1>4. /\ \A k, l \in 1..n : k # l => s[k] # s[l]
      /\ \A k, l \in 1..m : k # l => t[k] # t[l]
  BY DEF NoRepeats
<1> HIDE DEF n, m, u
<1>5. \A k \in 1..(n + m) : (k <= n => k \in 1..n) /\ (~(k <= n) => k - n \in 1..m)
  BY <1>1
<1>6. NoRepeats(u)
  <2> SUFFICES ASSUME NEW k \in 1..(n + m), NEW l \in 1..(n + m), k # l PROVE u[k] # u[l]
    BY <1>2 DEF NoRepeats
  <2>1. CASE k <= n /\ l <= n
    BY <1>2, <1>4, <1>5, <2>1
  <2>2. CASE k <= n /\ ~(l <= n)
    BY <1>2, <1>3, <1>5, <2>2
  <2>3. CASE ~(k <= n) /\ l <= n
    BY <1>2, <1>3, <1>5, <2>3
  <2>4. CASE ~(k <= n) /\ ~(l <= n)
    <3>1. k - n \in 1..m /\ l - n \in 1..m /\ k - n # l - n
      BY <1>1, <1>5, <2>4
    <3> QED BY <1>2, <1>4, <2>4, <3>1
  <2> QED BY <2>1, <2>2, <2>3, <2>4
<1>7. ToSet(u) = ToSet(s) \cup ToSet(t)
  <2>1. \A k \in 1..n : k \in 1..(n + m) /\ u[k] = s[k]
    BY <1>1, <1>2
  <2>2. \A k \in 1..m : n + k \in 1..(n + m) /\ u[n + k] = t[k]
    <3> TAKE k \in 1..m
    <3>1. n + k \in 1..(n + m) /\ ~(n + k <= n) /\ (n + k) - n = k
      BY <1>1
    <3> QED BY <1>2, <3>1
  <2>3. ToSet(s) \subseteq ToSet(u)
    BY <1>1, <1>2, <2>1 DEF ToSet
  <2>4. ToSet(t) \subseteq ToSet(u)
    <3> SUFFICES ASSUME NEW x \in ToSet(t) PROVE x \in ToSet(u)
      OBVIOUS
    <3>1. PICK k \in 1..m : x = t[k]
      BY <1>1 DEF ToSet
    <3>2. n + k \in 1..(n + m) /\ u[n + k] = x
      BY <2>2, <3>1
    <3> HIDE DEF u
    <3> QED BY <1>2, <3>2 DEF ToSet
  <2>5. ToSet(u) \subseteq ToSet(s) \cup ToSet(t)
    BY <1>1, <1>2, <1>5 DEF ToSet
  <2> QED BY <2>3, <2>4, <2>5
<1> QED BY <1>2, <1>6, <1>7 DEF u

\* The bound loses no item of a mandatory source, and finds none.
LEMMA BoundedLists ==
  ASSUME NEW rows \in IdLists, NoRepeats(rows), NEW sources, request.cap \in Nat,
         NEW s \in Bounded(rows, sources)
  PROVE  /\ s \in IdLists /\ NoRepeats(s) /\ ToSet(s) \subseteq ToSet(rows)
         /\ {i \in ToSet(rows) : Source(i) \in sources} \subseteq ToSet(s)
<1> DEFINE must == {i \in ToSet(rows) : Source(i) \in sources}
           rest == ToSet(rows) \ must
           room == Max({0, request.cap - Cardinality(must)})
<1>1. CASE Len(rows) <= request.cap
  <2>1. s = rows
    BY <1>1 DEF Bounded
  <2> QED BY <2>1
<1>2. CASE ~(Len(rows) <= request.cap)
  <2>1. PICK first \in AsIn(rows, must), others \in ByRelevance(rest) : s = first \o FirstOnes(others, room)
    <3>1. Bounded(rows, sources) =
            {first \o FirstOnes(others, room) : first \in AsIn(rows, must), others \in ByRelevance(rest)}
      BY <1>2, SMT DEF Bounded
    <3> HIDE DEF must, rest, room
    <3>2. s \in {first \o FirstOnes(others, room) : first \in AsIn(rows, must), others \in ByRelevance(rest)}
      <4> DEFINE found == {first \o FirstOnes(others, room) : first \in AsIn(rows, must), others \in ByRelevance(rest)}
      <4>1. Bounded(rows, sources) = found
        BY <3>1
      <4> HIDE DEF found
      <4>2. s \in found
        BY <4>1
      <4> QED BY <4>2 DEF found
    <3> QED BY <3>2
  <2>2. must \in SUBSET Ids /\ rest \in SUBSET Ids /\ IsFiniteSet(must)
    <3>1. ToSet(rows) \subseteq Ids /\ IsFiniteSet(ToSet(rows))
      BY ListCount
    <3> QED BY <3>1, FS_Subset
  <2>3. room \in Nat
    <3>1. Cardinality(must) \in Nat
      BY <2>2, FS_CardinalityType
    <3> HIDE DEF must
    <3>2. request.cap - Cardinality(must) \in Int
      BY <3>1
    <3>3. room = IF 0 >= request.cap - Cardinality(must) THEN 0 ELSE request.cap - Cardinality(must)
      BY <3>2, MaxOfTwo
    <3> HIDE DEF room
    <3> QED BY <3>1, <3>3
  <2>4. must \cap rest = {} /\ must \cup rest = ToSet(rows)
    OBVIOUS
  <2> HIDE DEF must, rest, room
  <2>5. first \in IdLists /\ NoRepeats(first) /\ ToSet(first) = must
    BY <2>1, <2>2, AsInLists
  <2>6. others \in IdLists /\ NoRepeats(others) /\ ToSet(others) = rest
    BY <2>1, <2>2, ByRelevanceLists
  <2> DEFINE t == FirstOnes(others, room)
  <2>7. t \in IdLists /\ NoRepeats(t) /\ ToSet(t) \subseteq rest
    BY <2>3, <2>6, FirstOnesLists
  <2> HIDE DEF t
  <2>8. ToSet(first) \cap ToSet(t) = {}
    BY <2>4, <2>5, <2>7
  <2>9. s \in IdLists /\ NoRepeats(s) /\ ToSet(s) = must \cup ToSet(t)
    BY <2>1, <2>5, <2>7, <2>8, ListsJoined DEF t
  <2> QED BY <2>4, <2>7, <2>9 DEF must
<1> QED BY <1>1, <1>2

-----------------------------------------------------------------------------
(* ContextSelection: the top of the queue, the limits, the hard cap *)

\* One entry of the queue comes before another.
Precedes(e, o) == Denser(e, o) \/ (~Denser(o, e) /\ e.id < o.id)

LEMMA PrecedesOrders ==
  ASSUME NEW a \in Queued, NEW b \in Queued, NEW c \in Queued
  PROVE  /\ ~Precedes(a, a)
         /\ a.id # b.id => Precedes(a, b) \/ Precedes(b, a)
         /\ Precedes(a, b) /\ Precedes(b, c) => Precedes(a, c)
<1> DEFINE x == Tokens(Chars(a.id))
           y == Tokens(Chars(b.id))
           z == Tokens(Chars(c.id))
           p == a.gain
           q == b.gain
           r == c.gain
<1>1. p \in Nat /\ q \in Nat /\ r \in Nat /\ a.id \in Ids /\ b.id \in Ids /\ c.id \in Ids
  BY DEF Queued
<1>2. a.id \in Nat /\ b.id \in Nat /\ c.id \in Nat /\ x \in Nat \ {0} /\ y \in Nat \ {0} /\ z \in Nat \ {0}
  <2>1. \A i \in Ids : i \in Nat /\ Tokens(Chars(i)) \in Nat \ {0}
    BY CostNat
  <2> QED BY <1>1, <2>1
<1>3. /\ Denser(a, b) <=> p * y > q * x
      /\ Denser(b, a) <=> q * x > p * y
      /\ Denser(b, c) <=> q * z > r * y
      /\ Denser(c, b) <=> r * y > q * z
      /\ Denser(a, c) <=> p * z > r * x
      /\ Denser(c, a) <=> r * x > p * z
      /\ Denser(a, a) <=> p * x > p * x
  BY DEF Denser
<1> HIDE DEF x, y, z, p, q, r
<1>4. /\ p * y \in Nat /\ q * x \in Nat /\ q * z \in Nat /\ r * y \in Nat /\ p * z \in Nat
      /\ r * x \in Nat /\ p * x \in Nat
  <2>1. \A m, n \in Nat : m * n \in Nat
    OBVIOUS
  <2> QED BY <1>1, <1>2, <2>1
<1>5. ~Precedes(a, a) /\ (a.id # b.id => Precedes(a, b) \/ Precedes(b, a))
  BY <1>2, <1>3, <1>4 DEF Precedes
<1>6. ASSUME Precedes(a, b), Precedes(b, c) PROVE Precedes(a, c)
  <2>1. p * y >= q * x /\ (p * y > q * x \/ a.id < b.id)
    BY <1>3, <1>4, <1>6 DEF Precedes
  <2>2. q * z >= r * y /\ (q * z > r * y \/ b.id < c.id)
    BY <1>3, <1>4, <1>6 DEF Precedes
  <2>3. p * z >= r * x /\ (p * y > q * x \/ q * z > r * y => p * z > r * x)
    BY <1>1, <1>2, <2>1, <2>2, DenserIsTransitive
  <2> QED BY <1>2, <1>3, <1>4, <2>1, <2>2, <2>3 DEF Precedes
<1> QED BY <1>5, <1>6

OneEntryEach(heap) == \A a, b \in heap : a.id = b.id => a = b

\* A queue with one entry each has a top: the one that fewest precede.
LEMMA TopIs ==
  ASSUME pick.heap \in SUBSET Queued, pick.heap # {}, OneEntryEach(pick.heap)
  PROVE  HeapTop \in pick.heap /\ \A o \in pick.heap \ {HeapTop} : Precedes(HeapTop, o)
<1> DEFINE H == pick.heap
           Under(e) == {o \in H : Precedes(o, e)}
           ranks == {Cardinality(Under(e)) : e \in H}
<1>0. IsFiniteSet(H)
  <2> DEFINE f == [e \in H |-> e.id]
  <2>1. f \in Injection(H, Ids)
    BY DEF Queued, OneEntryEach, Injection, IsInjective
  <2> HIDE DEF f
  <2> QED BY <2>1, PoolIs, FS_Injection
<1>1. \A e \in H : IsFiniteSet(Under(e)) /\ Cardinality(Under(e)) \in Nat
  <2> TAKE e \in H
  <2>1. Under(e) \in SUBSET H
    OBVIOUS
  <2> HIDE DEF Under
  <2>2. IsFiniteSet(Under(e))
    BY <1>0, <2>1, FS_Subset
  <2> QED BY <2>2, FS_CardinalityType
<1>2. PICK n \in ranks : \A m \in ranks : n <= m
  <2>1. ranks \in SUBSET Nat /\ ranks # {}
    BY <1>1
  <2> HIDE DEF ranks
  <2> QED BY <2>1, LeastOf
<1>3. PICK e \in H : n = Cardinality(Under(e))
  BY <1>2
<1>4. ASSUME NEW o \in H \ {e} PROVE Precedes(e, o)
  <2> SUFFICES ASSUME ~Precedes(e, o) PROVE FALSE
    OBVIOUS
  <2>1. o.id # e.id /\ o \in Queued /\ e \in Queued
    BY DEF OneEntryEach
  <2>2. Precedes(o, e)
    BY <2>1, PrecedesOrders
  <2>3. Under(o) \in SUBSET Under(e)
    <3> SUFFICES ASSUME NEW u \in H, Precedes(u, o) PROVE Precedes(u, e)
      OBVIOUS
    <3>1. u \in Queued
      OBVIOUS
    <3> QED BY <2>1, <2>2, <3>1, PrecedesOrders
  <2>4. o \in Under(e) /\ o \notin Under(o)
    <3>1. ~Precedes(o, o)
      BY <2>1, PrecedesOrders
    <3> QED BY <2>2, <3>1
  <2>5. Cardinality(Under(e)) <= Cardinality(Under(o))
    <3>1. Cardinality(Under(o)) \in ranks
      OBVIOUS
    <3> QED BY <1>2, <1>3, <3>1
  <2> HIDE DEF Under, H
  <2>6. Cardinality(Under(o)) <= Cardinality(Under(e)) /\ (Cardinality(Under(e)) = Cardinality(Under(o)) => Under(e) = Under(o))
    BY <1>1, <2>3, FS_Subset
  <2>7. Cardinality(Under(o)) \in Nat /\ Cardinality(Under(e)) \in Nat
    BY <1>1
  <2> QED BY <2>4, <2>5, <2>6, <2>7
<1>5. HeapTop = CHOOSE t \in H : \A o \in H \ {t} : Precedes(t, o)
  BY DEF HeapTop, Precedes
<1> QED BY <1>4, <1>5

AllLimits == [chars : Nat, tokens : Nat]

\* The limits are numbers, and no more than the budget.
LEMMA LimitsFit ==
  ASSUME NEW score, request.chars \in Nat
  PROVE  AdaptiveLimits(score) \in AllLimits /\ AdaptiveLimits(score).chars <= request.chars
<1> DEFINE a == (request.chars * Share(score)) \div 100
           b == (Tokens(request.chars) * Share(score)) \div 100
           c == Max({MinimumChars, a})
           d == Min({request.chars, c})
           t == Max({1, b})
<1>1. Share(score) \in Nat
  BY DEF Share
<1>2. MinimumChars \in Nat /\ CharsPerToken \in Nat \ {0}
  BY PoolIs
<1>3. Tokens(request.chars) \in Nat
  <2> DEFINE n == request.chars + CharsPerToken - 1
  <2>1. n \in Nat
    BY <1>2
  <2> HIDE DEF n
  <2>2. n \div CharsPerToken \in Nat
    BY <1>2, <2>1, DivNat
  <2> QED BY <2>2 DEF Tokens, n
<1>4. a \in Nat /\ b \in Nat
  <2>1. \A m, n \in Nat : m * n \in Nat
    OBVIOUS
  <2>2. request.chars * Share(score) \in Nat /\ Tokens(request.chars) * Share(score) \in Nat
    BY <1>1, <1>3, <2>1
  <2>3. 100 \in Nat \ {0}
    OBVIOUS
  <2> QED BY <2>2, <2>3, DivNat
<1> HIDE DEF a, b
<1>5. c = (IF MinimumChars >= a THEN MinimumChars ELSE a) /\ t = (IF 1 >= b THEN 1 ELSE b)
  BY <1>2, <1>4, MaxOfTwo
<1>6. c \in Nat /\ t \in Nat
  <2> HIDE DEF c, t
  <2> QED BY <1>2, <1>4, <1>5
<1>7. d = IF request.chars <= c THEN request.chars ELSE c
  <2> HIDE DEF c
  <2> QED BY <1>6, MinOfTwo
<1>8. d \in Nat /\ d <= request.chars
  <2> HIDE DEF c, d
  <2> QED BY <1>6, <1>7
<1>9. AdaptiveLimits(score) = [chars |-> d, tokens |-> t]
  BY DEF AdaptiveLimits, a, b
<1> HIDE DEF d, t
<1> QED BY <1>6, <1>8, <1>9 DEF AllLimits

\* What the hard cap has taken.
Cuts == {a \in [cap : Nat, chosen : IdLists, chars : Nat, tokens : Nat] :
           a.cap <= limits.chars /\ a.chars <= a.cap /\ a.tokens <= limits.tokens}

LEMMA CutStep ==
  ASSUME limits \in AllLimits, NEW acc \in Cuts, NEW i \in Ids
  PROVE  CutTo(acc, i) \in Cuts /\ CutTo(acc, i).chosen \in {acc.chosen, Append(acc.chosen, i)}
<1> DEFINE text == Min({Chars(i), limits.chars - acc.cap})
           tokens == Tokens(text)
<1>1. /\ acc.cap \in Nat /\ acc.chars \in Nat /\ acc.tokens \in Nat /\ acc.chosen \in IdLists
      /\ limits.chars \in Nat /\ limits.tokens \in Nat
      /\ acc.cap <= limits.chars /\ acc.chars <= acc.cap /\ acc.tokens <= limits.tokens
      /\ acc = [cap |-> acc.cap, chosen |-> acc.chosen, chars |-> acc.chars, tokens |-> acc.tokens]
  BY DEF Cuts, AllLimits
<1>2. Chars(i) \in Nat /\ CharsPerToken \in Nat \ {0}
  BY PoolIs DEF Costs
<1>3. text \in Nat /\ text <= limits.chars - acc.cap
  <2>1. limits.chars - acc.cap \in Nat
    BY <1>1
  <2>2. text = IF Chars(i) <= limits.chars - acc.cap THEN Chars(i) ELSE limits.chars - acc.cap
    BY <1>2, <2>1, MinOfTwo
  <2> HIDE DEF text
  <2> QED BY <1>2, <2>1, <2>2
<1>4. tokens \in Nat
  <2> DEFINE n == text + CharsPerToken - 1
  <2> HIDE DEF text
  <2>1. n \in Nat
    BY <1>2, <1>3
  <2> HIDE DEF n
  <2>2. n \div CharsPerToken \in Nat
    BY <1>2, <2>1, DivNat
  <2> QED BY <2>2 DEF Tokens, n
<1>5. CutTo(acc, i) =
        IF text = 0 THEN acc
        ELSE IF acc.tokens + tokens > limits.tokens
             THEN [cap |-> acc.cap + text, chosen |-> acc.chosen, chars |-> acc.chars, tokens |-> acc.tokens]
             ELSE [cap |-> acc.cap + text, chosen |-> Append(acc.chosen, i),
                   chars |-> acc.chars + text, tokens |-> acc.tokens + tokens]
  <2> DEFINE cut == [acc EXCEPT !.cap = @ + text]
             taken == [cut EXCEPT !.chosen = Append(@, i), !.chars = @ + text, !.tokens = @ + tokens]
  <2>1. CutTo(acc, i) = IF text = 0 THEN acc ELSE IF acc.tokens + tokens > limits.tokens THEN cut ELSE taken
    BY DEF CutTo
  <2> HIDE DEF text, tokens
  <2>2. cut = [cap |-> acc.cap + text, chosen |-> acc.chosen, chars |-> acc.chars, tokens |-> acc.tokens]
    BY <1>1
  <2>3. taken = [cap |-> acc.cap + text, chosen |-> Append(acc.chosen, i),
                 chars |-> acc.chars + text, tokens |-> acc.tokens + tokens]
    <3>1. /\ cut.cap = acc.cap + text /\ cut.chosen = acc.chosen
          /\ cut.chars = acc.chars /\ cut.tokens = acc.tokens
      BY <2>2
    <3> DEFINE more == Append(cut.chosen, i)
    <3>2. taken = [cut EXCEPT !.chosen = more, !.chars = cut.chars + text, !.tokens = cut.tokens + tokens]
      OBVIOUS
    <3>3. more = Append(acc.chosen, i)
      BY <3>1
    <3> HIDE DEF cut, taken, more
    <3>4. taken = [cap |-> acc.cap + text, chosen |-> more, chars |-> acc.chars + text,
                   tokens |-> acc.tokens + tokens]
      BY <2>2, <3>1, <3>2
    <3> QED BY <3>3, <3>4
  <2> HIDE DEF cut, taken
  <2> QED BY <2>1, <2>2, <2>3
<1> HIDE DEF text, tokens
<1> DEFINE more == Append(acc.chosen, i)
<1>6. more \in IdLists
  BY <1>1 DEF IdLists
<1>7. CASE text = 0
  BY <1>5, <1>7
<1>8. CASE text # 0 /\ acc.tokens + tokens > limits.tokens
  BY <1>1, <1>3, <1>4, <1>5, <1>8 DEF Cuts
<1>9. CASE text # 0 /\ ~(acc.tokens + tokens > limits.tokens)
  <2>1. CutTo(acc, i) = [cap |-> acc.cap + text, chosen |-> more,
                         chars |-> acc.chars + text, tokens |-> acc.tokens + tokens]
    BY <1>5, <1>9
  <2> HIDE DEF more
  <2> DEFINE cap == acc.cap + text
             chars == acc.chars + text
             all == acc.tokens + tokens
  <2>2. /\ cap \in Nat /\ chars \in Nat /\ all \in Nat
        /\ cap <= limits.chars /\ chars <= cap /\ all <= limits.tokens
    BY <1>1, <1>3, <1>4, <1>9
  <2>3. CutTo(acc, i) = [cap |-> cap, chosen |-> more, chars |-> chars, tokens |-> all]
    BY <2>1
  <2> HIDE DEF cap, chars, all
  <2>4. CutTo(acc, i) \in Cuts /\ CutTo(acc, i).chosen = more
    BY <1>6, <2>2, <2>3 DEF Cuts
  <2> QED BY <2>4 DEF more
<1> QED BY <1>7, <1>8, <1>9

\* What the hard cap takes fits, and is some of the candidates.
LEMMA HardCapFits ==
  ASSUME limits \in AllLimits, ranked \in IdLists, NoRepeats(ranked)
  PROVE  /\ HardCap.chosen \in IdLists /\ HardCap.chars \in Nat /\ HardCap.tokens \in Nat
         /\ NoRepeats(HardCap.chosen) /\ ToSet(HardCap.chosen) \subseteq ToSet(ranked)
         /\ HardCap.chars <= limits.chars /\ HardCap.tokens <= limits.tokens
<1> DEFINE N == Len(ranked)
           zero == [cap |-> 0, chosen |-> <<>>, chars |-> 0, tokens |-> 0]
           step == [n \in 1..N |-> [c \in Cuts |-> CutTo(c, ranked[n])]]
           Eq(f) == f = [n \in 0..N |-> IF n = 0 THEN zero ELSE CutTo(f[n - 1], ranked[n])]
<1>0. N \in Nat /\ DOMAIN ranked = 1..N /\ \A n \in 1..N : ranked[n] \in Ids
  BY DEF IdLists
<1>00. zero \in Cuts
  <2>1. <<>> \in IdLists /\ limits.chars \in Nat /\ limits.tokens \in Nat
    BY DEF IdLists, AllLimits
  <2> QED BY <2>1 DEF Cuts
<1>1. step \in [1..N -> [Cuts -> Cuts]]
  BY <1>0, CutStep
<1>2. PICK f \in [0..N -> Cuts] : f[0] = zero /\ \A n \in 1..N : f[n] = step[n][f[n - 1]]
  <2> DEFINE V == Cuts
             first == zero
  <2>1. first \in V /\ step \in [1..N -> [V -> V]] /\ N \in Nat
    BY <1>0, <1>00, <1>1
  <2> HIDE DEF step, V, first, N
  <2>2. \E f \in [0..N -> V] : Iterates(f, N, first, step)
    BY <2>1, Recursively, Zenon
  <2> QED BY <2>2 DEF V, first, Iterates
<1>3. \A n \in 1..N : step[n][f[n - 1]] = CutTo(f[n - 1], ranked[n])
  <2> TAKE n \in 1..N
  <2>1. f[n - 1] \in Cuts
    BY <1>0
  <2> QED BY <2>1
<1>4. Eq(f)
  <2> HIDE DEF step, zero
  <2>1. \A n \in 1..N : f[n] = CutTo(f[n - 1], ranked[n])
    BY <1>2, <1>3
  <2>2. f[0] = zero /\ f \in [0..N -> Cuts]
    BY <1>2
  <2> QED BY <2>1, <2>2
<1> DEFINE g == CHOOSE h : Eq(h)
<1>5. Eq(g)
  BY <1>4
<1>6. HardCapTo(ranked) = g
  BY DEF HardCapTo
<1> HIDE DEF g
<1>7. g[0] = zero /\ \A n \in 1..N : g[n] = CutTo(g[n - 1], ranked[n])
  <2> HIDE DEF zero
  <2>1. 0 \in 0..N /\ \A n \in 1..N : n \in 0..N /\ n # 0
    BY <1>0
  <2> HIDE DEF N
  <2>2. g[0] = zero
    BY <1>5, <2>1
  <2>3. \A n \in 1..N : g[n] = CutTo(g[n - 1], ranked[n])
    BY <1>5, <2>1
  <2> QED BY <2>2, <2>3
<1> DEFINE Seen(n) == {ranked[k] : k \in 1..n}
           Good(c, n) == c \in Cuts /\ NoRepeats(c.chosen) /\ ToSet(c.chosen) \subseteq Seen(n)
           T == {n \in 0..N : Good(g[n], n)}
<1>8. 0 \in T
  <2>1. NoRepeats(<<>>) /\ ToSet(<<>>) = {}
    BY DEF NoRepeats, ToSet
  <2>2. g[0] \in Cuts /\ g[0].chosen = <<>>
    BY <1>7, <1>00
  <2> QED BY <1>0, <2>1, <2>2
<1>9. ASSUME NEW n \in 0..(N - 1), n \in T PROVE n + 1 \in T
  <2>1. n + 1 \in 1..N /\ n + 1 \in 0..N /\ (n + 1) - 1 = n
    BY <1>0
  <2> DEFINE i == ranked[n + 1]
             c == g[n]
             d == g[n + 1]
  <2>2. d = CutTo(c, i) /\ i \in Ids /\ Good(c, n)
    BY <1>7, <1>0, <1>9, <2>1
  <2>3. i \notin Seen(n)
    <3>1. \A k \in 1..n : k \in 1..N /\ k # n + 1
      BY <1>0
    <3> QED BY <1>0, <2>1, <3>1 DEF NoRepeats
  <2>4. Seen(n) \subseteq Seen(n + 1) /\ i \in Seen(n + 1)
    <3>1. n + 1 \in 1..(n + 1) /\ \A k \in 1..n : k \in 1..(n + 1)
      BY <1>0
    <3> QED BY <3>1
  <2> HIDE DEF i, c, d, Seen, N
  <2>5. d \in Cuts /\ d.chosen \in {c.chosen, Append(c.chosen, i)}
    BY <2>2, CutStep
  <2>6. c.chosen \in IdLists /\ i \notin ToSet(c.chosen)
    BY <2>2, <2>3 DEF Cuts
  <2>7. NoRepeats(Append(c.chosen, i)) /\ ToSet(Append(c.chosen, i)) = ToSet(c.chosen) \cup {i}
    BY <2>2, <2>6, ListTakes
  <2>8. NoRepeats(d.chosen) /\ ToSet(d.chosen) \subseteq Seen(n + 1)
    BY <2>2, <2>4, <2>5, <2>7
  <2> QED BY <2>1, <2>5, <2>8 DEF d
<1> HIDE DEF T, Good
<1>10. \A n \in 0..N : n \in T
  BY <1>0, <1>8, <1>9, UpTo
<1>11. Good(g[N], N)
  <2>1. N \in 0..N
    BY <1>0
  <2> QED BY <1>10, <2>1 DEF T
<1>12. Seen(N) = ToSet(ranked)
  BY <1>0 DEF ToSet
<1>13. HardCap = g[N]
  BY <1>6 DEF HardCap
<1> HIDE DEF Seen, N
<1>14. HardCap \in Cuts /\ NoRepeats(HardCap.chosen) /\ ToSet(HardCap.chosen) \subseteq ToSet(ranked)
  BY <1>11, <1>12, <1>13 DEF Good
<1>15. limits.chars \in Nat /\ limits.tokens \in Nat
  BY DEF AllLimits
<1> QED BY <1>14, <1>15 DEF Cuts

-----------------------------------------------------------------------------
(* ContextSelection: the invariant *)

Places == {"rank", "bound", "mandatory", "relevance", "facility", "chosen", "judge", "done"}
Picks ==
  [at : Places, rows : IdLists, mandatory : SUBSET {Source(i) : i \in Ids}, next : Nat \ {0},
   chosen : IdLists, chars : Nat, tokens : Nat, heap : SUBSET Queued, cover : Covers, epoch : Nat,
   mode : {"none", "relevance", "facility", "hard_cap"}]

\* The items of mandatory sources, and that there is room for all of them.
Must == {i \in gathered : Source(i) \in pick.mandatory}
MustFits == Total(Must, CharCost) <= limits.chars /\ Total(Must, TokenCost) <= limits.tokens

\* Every candidate is listed once.
CandidatesHold ==
  /\ request.chars \in Nat /\ request.cap \in Nat \ {0} /\ gathered \in SUBSET Ids
  /\ pick \in Picks
  /\ limits \in AllLimits /\ limits.chars <= request.chars
  /\ ranked \in IdLists /\ NoRepeats(ranked)
  /\ pick.at # "rank" => ToSet(ranked) = gathered

\* What is chosen are candidates, each once, within the limits.
ChosenHolds ==
  /\ NoRepeats(pick.chosen) /\ Selected \subseteq ToSet(ranked)
  /\ pick.chars <= limits.chars /\ pick.tokens <= limits.tokens
  /\ pick.at \in {"rank", "bound"} =>
       /\ pick.chosen = <<>> /\ pick.rows = <<>>
       /\ pick.chars = 0 /\ pick.tokens = 0 /\ pick.next = 1

\* No row that is still to come has been chosen.
RowsHold ==
  /\ ToSet(pick.rows) \subseteq ToSet(ranked)
  /\ pick.at \in {"mandatory", "relevance"} =>
       /\ NoRepeats(pick.rows)
       /\ \A k \in 1..Len(pick.rows) : k >= pick.next => pick.rows[k] \notin Selected

\* The mandatory items come first, and while they are taken nothing else is
\* counted: when they fit together each of them fits.
MandatoryHold ==
  /\ pick.at \notin {"rank", "bound"} => pick.mandatory = MandatorySources
  /\ pick.at = "mandatory" =>
       /\ Must \subseteq ToSet(pick.rows) /\ Selected \subseteq Must
       /\ pick.chars = Total(Selected, CharCost) /\ pick.tokens = Total(Selected, TokenCost)
       /\ MustFits => \A k \in 1..Len(pick.rows) :
                        k < pick.next /\ pick.rows[k] \in Must => pick.rows[k] \in Selected
  /\ pick.at \notin {"rank", "bound", "mandatory"} => (MustFits => Must \subseteq Selected)

\* An entry of the queue says no less than the row adds now, and one of this
\* epoch just that; every row that fits has an entry.
QueueHolds ==
  pick.at = "facility" =>
    /\ OneEntryEach(pick.heap)
    /\ \A e \in pick.heap :
         /\ e.id \in RoomLeft /\ e.epoch <= pick.epoch /\ GainOf(pick.rows, e.id, pick.cover) <= e.gain
         /\ e.epoch = pick.epoch => e.gain = GainOf(pick.rows, e.id, pick.cover)
    /\ \A i \in RoomLeft : Fits(i) => \E e \in pick.heap : e.id = i

\* A verdict is about what was selected.
JudgedHolds ==
  /\ verdict \in {"none", "sufficient", "abstain", "requires_exploration"}
  /\ verdict # "none" => pick.at = "done"
  /\ verdict = "sufficient" => Sufficient(Selected) /\ (request.gate => Accepted(Selected))

SelectionInv ==
  CandidatesHold /\ ChosenHolds /\ RowsHold /\ MandatoryHold /\ QueueHolds /\ JudgedHolds

\* Nothing is chosen and nothing judged at first.
LEMMA SelectionInitFits == SelectionInit => SelectionInv
<1> SUFFICES ASSUME NEW asked \in SelectionRequests, NEW n \in 0..MaxGathered, NEW found \in kSubset(n, Ids),
                    SelectionStart(asked, found)
             PROVE  SelectionInv
  BY DEF SelectionInit
<1>1. /\ request.chars \in ContextChars /\ request.cap \in CandidateLimits /\ gathered \in SUBSET Ids
      /\ ranked = <<>> /\ limits = [chars |-> 0, tokens |-> 0] /\ pick = Unpicked /\ verdict = "none"
  BY DEF SelectionStart, SelectionRequests, kSubset
<1>2. request.chars \in Nat /\ request.cap \in Nat \ {0}
  BY <1>1, PoolIs
<1>3. <<>> \in IdLists /\ NoRepeats(<<>>) /\ ToSet(<<>>) = {}
  BY DEF IdLists, NoRepeats, ToSet
<1>4. pick \in Picks
  <2>1. [i \in Ids |-> 0] \in Covers
    BY DEF Covers
  <2> QED BY <1>1, <1>3, <2>1 DEF Unpicked, Picks, Places
<1>5. pick.at = "rank" /\ pick.rows = <<>> /\ pick.chosen = <<>> /\ pick.chars = 0 /\ pick.tokens = 0 /\ pick.next = 1
  BY <1>1 DEF Unpicked
<1>6. CandidatesHold
  BY <1>1, <1>2, <1>3, <1>4, <1>5 DEF CandidatesHold, AllLimits
<1>7. ChosenHolds
  BY <1>1, <1>3, <1>5 DEF ChosenHolds, Selected
<1>8. RowsHold /\ MandatoryHold /\ QueueHolds
  BY <1>1, <1>3, <1>5 DEF RowsHold, MandatoryHold, QueueHolds
<1>9. JudgedHolds
  BY <1>1 DEF JudgedHolds
<1> QED BY <1>6, <1>7, <1>8, <1>9 DEF SelectionInv

\* Each candidate is ranked once, and the limits are set.
LEMMA RankKeeps == ASSUME SelectionInv, RankCandidates PROVE SelectionInv'
<1>1. CandidatesHold /\ ChosenHolds /\ RowsHold /\ JudgedHolds
  BY DEF SelectionInv
<1>2. /\ pick.at = "rank" /\ ranked' \in SetToSeqs(gathered)
      /\ limits' = AdaptiveLimits(SufficiencyScore(gathered))
      /\ pick' = [pick EXCEPT !.at = "bound"]
      /\ UNCHANGED <<request, gathered, verdict>>
  BY DEF RankCandidates
<1>3. gathered \in SUBSET Ids /\ request.chars \in Nat /\ pick \in Picks
  BY <1>1 DEF CandidatesHold
<1>4. ranked' \in IdLists /\ NoRepeats(ranked') /\ ToSet(ranked') = gathered
  <2>1. /\ ranked' \in [1..Cardinality(gathered) -> gathered]
        /\ \A k, l \in 1..Cardinality(gathered) : k # l => ranked'[k] # ranked'[l]
    BY <1>2 DEF SetToSeqs
  <2> QED BY <1>3, <2>1, ListsAll
<1>5. limits' \in AllLimits /\ limits'.chars <= request.chars
  BY <1>2, <1>3, LimitsFit
<1>6. /\ pick' \in Picks /\ pick'.at = "bound" /\ pick'.chosen = pick.chosen /\ pick'.rows = pick.rows
      /\ pick'.chars = pick.chars /\ pick'.tokens = pick.tokens /\ pick'.next = pick.next
  BY <1>2, <1>3 DEF Picks, Places
<1>7. CandidatesHold'
  BY <1>1, <1>2, <1>4, <1>5, <1>6 DEF CandidatesHold
<1>8. ChosenHolds'
  <2>1. pick'.chosen = <<>> /\ pick'.rows = <<>> /\ pick'.chars = 0 /\ pick'.tokens = 0 /\ pick'.next = 1
    BY <1>1, <1>2, <1>6 DEF ChosenHolds
  <2>2. NoRepeats(<<>>) /\ ToSet(<<>>) = {}
    BY DEF NoRepeats, ToSet
  <2>3. limits'.chars \in Nat /\ limits'.tokens \in Nat
    BY <1>5 DEF AllLimits
  <2> QED BY <2>1, <2>2, <2>3 DEF ChosenHolds, Selected
<1>9. RowsHold' /\ MandatoryHold' /\ QueueHolds'
  <2>1. pick'.rows = <<>> /\ ToSet(<<>>) = {}
    BY <1>1, <1>2, <1>6 DEF ChosenHolds, ToSet
  <2> QED BY <1>6, <2>1 DEF RowsHold, MandatoryHold, QueueHolds
<1>10. JudgedHolds'
  BY <1>1, <1>2 DEF JudgedHolds
<1> QED BY <1>7, <1>8, <1>9, <1>10 DEF SelectionInv

\* An item costs no more than all.
LEMMA TotalMember ==
  ASSUME NEW S, NEW i \in S, i \in Ids, NEW c \in Costs PROVE c[i] <= Total(S, c)
<1>1. Total({} \cup {i}, c) = Total({}, c) + c[i] /\ Total({}, c) = 0
  <2> DEFINE none == {}
  <2>1. i \notin none
    OBVIOUS
  <2>2. Total(none \cup {i}, c) = Total(none, c) + c[i]
    <3> HIDE DEF none
    <3> QED BY <2>1, TotalInsert
  <2> QED BY <2>2, TotalNothing
<1>2. Total({} \cup {i}, c) <= Total(S, c)
  <2> DEFINE one == {} \cup {i}
  <2>1. \A k \in Ids : k \in one => k \in S /\ c[k] <= c[k]
    BY DEF Costs
  <2> HIDE DEF one
  <2>2. Total(one, c) <= Total(S, c)
    BY <2>1, TotalMonotone
  <2> QED BY <2>2 DEF one
<1>3. c[i] \in Nat
  BY DEF Costs
<1> QED BY <1>1, <1>2, <1>3

\* The mandatory items among the candidates are the first rows.
LEMMA BoundKeeps == ASSUME SelectionInv, BoundCandidates PROVE SelectionInv'
<1>1. CandidatesHold /\ ChosenHolds /\ RowsHold /\ JudgedHolds
  BY DEF SelectionInv
<1>2. pick.at = "bound" /\ UNCHANGED <<request, gathered, ranked, limits, verdict>>
  BY DEF BoundCandidates
<1> DEFINE to(rows) == IF rows = <<>> \/ limits.chars = 0 THEN "chosen" ELSE "mandatory"
<1>3. PICK rows \in Bounded(ranked, MandatorySources) :
        pick' = [pick EXCEPT !.rows = rows, !.mandatory = MandatorySources, !.at = to(rows)]
  BY DEF BoundCandidates
<1>4. /\ pick \in Picks /\ ranked \in IdLists /\ NoRepeats(ranked) /\ ToSet(ranked) = gathered
      /\ request.cap \in Nat /\ gathered \in SUBSET Ids /\ limits \in AllLimits
  BY <1>1, <1>2 DEF CandidatesHold
<1>5. MandatorySources \in SUBSET {Source(i) : i \in Ids}
  BY <1>4 DEF MandatorySources
<1>6. /\ rows \in IdLists /\ NoRepeats(rows) /\ ToSet(rows) \subseteq gathered
      /\ {i \in gathered : Source(i) \in MandatorySources} \subseteq ToSet(rows)
  <2> DEFINE sources == MandatorySources
  <2>1. rows \in Bounded(ranked, sources)
    BY <1>3
  <2> HIDE DEF sources
  <2>2. /\ rows \in IdLists /\ NoRepeats(rows) /\ ToSet(rows) \subseteq ToSet(ranked)
        /\ {i \in ToSet(ranked) : Source(i) \in sources} \subseteq ToSet(rows)
    BY <1>4, <2>1, BoundedLists
  <2> QED BY <1>4, <2>2 DEF sources
<1>7. to(rows) \in {"chosen", "mandatory"} /\ (to(rows) = "chosen" => rows = <<>> \/ limits.chars = 0)
  OBVIOUS
<1> HIDE DEF to
<1>8. /\ pick'.at = to(rows) /\ pick'.rows = rows /\ pick'.mandatory = MandatorySources
      /\ pick'.chosen = pick.chosen /\ pick'.chars = pick.chars /\ pick'.tokens = pick.tokens
      /\ pick'.next = pick.next
  BY <1>3, <1>4 DEF Picks
<1>9. pick' \in Picks
  BY <1>3, <1>4, <1>5, <1>6, <1>7 DEF Picks, Places
<1>10. CandidatesHold'
  BY <1>1, <1>2, <1>4, <1>9 DEF CandidatesHold
<1>11. pick.chosen = <<>> /\ pick.chars = 0 /\ pick.tokens = 0 /\ pick.next = 1
  BY <1>1, <1>2 DEF ChosenHolds
<1>12. ToSet(<<>>) = {} /\ Selected' = {}
  BY <1>8, <1>11 DEF ToSet, Selected
<1>13. ChosenHolds'
  BY <1>1, <1>2, <1>7, <1>8, <1>12 DEF ChosenHolds
<1>14. RowsHold'
  BY <1>2, <1>4, <1>6, <1>8, <1>12 DEF RowsHold
<1>15. MandatorySources' = MandatorySources
  BY <1>2 DEF MandatorySources
<1>16. Must' = {i \in gathered : Source(i) \in MandatorySources}
  BY <1>2, <1>8 DEF Must
<1>17. Must' \subseteq ToSet(rows)
  BY <1>6, <1>16
<1>18. ASSUME pick'.at = "chosen", MustFits' PROVE Must' = {}
  <2>1. CASE rows = <<>>
    BY <1>12, <1>17, <2>1
  <2>2. CASE limits.chars = 0
    <3> DEFINE M == Must'
    <3> SUFFICES ASSUME NEW i \in M PROVE FALSE
      OBVIOUS
    <3>1. i \in Ids
      BY <1>4, <1>16
    <3>2. Total(M, CharCost) <= 0
      BY <1>2, <1>18, <2>2 DEF MustFits
    <3> HIDE DEF M
    <3>3. CharCost[i] <= Total(M, CharCost) /\ CharCost[i] >= 1 /\ CharCost[i] \in Nat
      BY <3>1, PoolIs, TotalMember DEF Costs
    <3>4. Total(M, CharCost) \in Nat
      BY PoolIs, TotalNat
    <3> QED BY <3>2, <3>3, <3>4
  <2> QED BY <1>7, <1>8, <1>18, <2>1, <2>2
<1>19. MandatoryHold'
  <2>1. Total({}, CharCost) = 0 /\ Total({}, TokenCost) = 0
    BY PoolIs, TotalNothing
  <2>2. ASSUME pick'.at = "mandatory"
        PROVE  /\ Must' \subseteq ToSet(pick'.rows) /\ Selected' \subseteq Must'
               /\ pick'.chars = Total(Selected', CharCost) /\ pick'.tokens = Total(Selected', TokenCost)
               /\ \A k \in 1..Len(pick'.rows) : ~(k < pick'.next)
    BY <1>8, <1>11, <1>12, <1>17, <2>1
  <2> QED BY <1>7, <1>8, <1>15, <1>18, <2>2 DEF MandatoryHold
<1>20. QueueHolds' /\ JudgedHolds'
  BY <1>1, <1>2, <1>7, <1>8 DEF QueueHolds, JudgedHolds
<1> QED BY <1>10, <1>13, <1>14, <1>19, <1>20 DEF SelectionInv

\* The state after one more row.
LEMMA PickMoves ==
  ASSUME pick \in Picks, NEW n \in Nat \ {0}, NEW c \in IdLists, NEW a \in Nat, NEW b \in Nat,
         pick' = [pick EXCEPT !.next = n, !.chosen = c, !.chars = a, !.tokens = b]
  PROVE  /\ pick' \in Picks /\ pick'.at = pick.at /\ pick'.rows = pick.rows
         /\ pick'.mandatory = pick.mandatory /\ pick'.next = n /\ pick'.chosen = c
         /\ pick'.chars = a /\ pick'.tokens = b
BY DEF Picks

\* What is chosen next, when it fits and has not been chosen.
LEMMA AddFits ==
  ASSUME CandidatesHold, ChosenHolds, NEW i \in ToSet(ranked), i \notin Selected, Fits(i),
         UNCHANGED <<ranked, limits>>, pick'.at \notin {"rank", "bound"},
         pick'.chosen = Append(pick.chosen, i), pick'.chars = pick.chars + Chars(i),
         pick'.tokens = pick.tokens + Tokens(Chars(i))
  PROVE  /\ ChosenHolds' /\ Selected' = Selected \cup {i} /\ i \in Ids
         /\ pick'.chosen \in IdLists /\ pick'.chars \in Nat /\ pick'.tokens \in Nat
<1>1. i \in Ids
  BY DEF CandidatesHold, IdLists, ToSet
<1>2. pick.chosen \in IdLists /\ pick.chars \in Nat /\ pick.tokens \in Nat
  BY DEF CandidatesHold, Picks
<1>3. NoRepeats(pick.chosen) /\ Selected \subseteq ToSet(ranked)
  BY DEF ChosenHolds
<1>4. pick'.chosen \in IdLists /\ NoRepeats(pick'.chosen) /\ ToSet(pick'.chosen) = ToSet(pick.chosen) \cup {i}
  BY <1>1, <1>2, <1>3, ListTakes DEF Selected
<1>5. Chars(i) \in Nat /\ Tokens(Chars(i)) \in Nat
  BY <1>1, CostNat
<1>6. pick'.chars <= limits.chars /\ pick'.tokens <= limits.tokens
  BY DEF Fits
<1>7. Selected' = Selected \cup {i}
  BY <1>4 DEF Selected
<1>8. ChosenHolds'
  BY <1>3, <1>4, <1>6, <1>7 DEF ChosenHolds
<1> QED BY <1>1, <1>2, <1>4, <1>5, <1>7, <1>8

\* A mandatory row is taken, or there is no room for all of them.
LEMMA TakeMandatoryKeeps == ASSUME SelectionInv, TakeMandatory PROVE SelectionInv'
<1> DEFINE i == pick.rows[pick.next]
<1>1. CandidatesHold /\ ChosenHolds /\ RowsHold /\ MandatoryHold /\ JudgedHolds
  BY DEF SelectionInv
<1>2. /\ pick.at = "mandatory" /\ pick.next <= Len(pick.rows)
      /\ UNCHANGED <<request, gathered, ranked, limits, verdict>>
  BY DEF TakeMandatory
<1>3. pick' = IF Source(i) \in pick.mandatory /\ Fits(i) THEN Add([pick EXCEPT !.next = @ + 1], i)
              ELSE [pick EXCEPT !.next = @ + 1]
  BY DEF TakeMandatory
<1>4. /\ pick \in Picks /\ limits \in AllLimits /\ pick.rows \in IdLists /\ pick.next \in 1..Len(pick.rows)
      /\ Len(pick.rows) \in Nat /\ DOMAIN pick.rows = 1..Len(pick.rows)
      /\ gathered \in SUBSET Ids /\ ToSet(ranked) = gathered
  BY <1>1, <1>2 DEF CandidatesHold, Picks, IdLists
<1>5. i \in ToSet(pick.rows)
  BY <1>4 DEF ToSet
<1> HIDE DEF i
<1>6. i \in ToSet(ranked) /\ i \in gathered /\ i \in Ids
  BY <1>1, <1>4, <1>5 DEF RowsHold
<1>7. i \notin Selected
  BY <1>1, <1>2, <1>4 DEF RowsHold, i
<1>8. /\ NoRepeats(pick.rows) /\ ToSet(pick.rows) \subseteq ToSet(ranked)
      /\ \A k \in 1..Len(pick.rows) : k >= pick.next + 1 => pick.rows[k] \notin Selected /\ pick.rows[k] # i
  <2>1. NoRepeats(pick.rows) /\ ToSet(pick.rows) \subseteq ToSet(ranked)
        /\ \A k \in 1..Len(pick.rows) : k >= pick.next => pick.rows[k] \notin Selected
    BY <1>1, <1>2 DEF RowsHold
  <2>2. \A k \in 1..Len(pick.rows) : k >= pick.next + 1 => k >= pick.next /\ k # pick.next
    BY <1>4
  <2> QED BY <1>4, <2>1, <2>2 DEF NoRepeats, i
<1>9. /\ pick.mandatory = MandatorySources
      /\ Must \subseteq ToSet(pick.rows) /\ Selected \subseteq Must
      /\ pick.chars = Total(Selected, CharCost) /\ pick.tokens = Total(Selected, TokenCost)
      /\ MustFits => \A k \in 1..Len(pick.rows) :
                       k < pick.next /\ pick.rows[k] \in Must => pick.rows[k] \in Selected
  BY <1>1, <1>2 DEF MandatoryHold
<1>10. i \in Must <=> Source(i) \in pick.mandatory
  BY <1>6 DEF Must
<1>11. /\ Total(Selected \cup {i}, CharCost) = Total(Selected, CharCost) + Chars(i)
       /\ Total(Selected \cup {i}, TokenCost) = Total(Selected, TokenCost) + Tokens(Chars(i))
  <2>1. CharCost \in Costs /\ TokenCost \in Costs /\ CharCost[i] = Chars(i) /\ TokenCost[i] = Tokens(Chars(i))
    BY <1>6, PoolIs
  <2> QED BY <1>6, <1>7, <2>1, TotalInsert
<1>12. ASSUME i \in Must, MustFits PROVE Fits(i)
  <2> DEFINE S == Selected \cup {i}
             M == Must
  <2>1. S \subseteq M
    BY <1>9, <1>12
  <2>2. CharCost \in Costs /\ TokenCost \in Costs
    BY PoolIs
  <2>3. \A k \in Ids : k \in S => k \in M /\ CharCost[k] <= CharCost[k] /\ TokenCost[k] <= TokenCost[k]
    BY <2>1, <2>2 DEF Costs
  <2>4. Total(M, CharCost) <= limits.chars /\ Total(M, TokenCost) <= limits.tokens
    BY <1>12 DEF MustFits
  <2>5. Total(S, CharCost) = pick.chars + Chars(i) /\ Total(S, TokenCost) = pick.tokens + Tokens(Chars(i))
    BY <1>9, <1>11
  <2> HIDE DEF S, M
  <2>6. Total(S, CharCost) <= Total(M, CharCost) /\ Total(S, TokenCost) <= Total(M, TokenCost)
    BY <2>2, <2>3, TotalMonotone
  <2>7. /\ Total(S, CharCost) \in Nat /\ Total(S, TokenCost) \in Nat
        /\ Total(M, CharCost) \in Nat /\ Total(M, TokenCost) \in Nat
    BY <2>2, TotalNat
  <2>8. limits.chars \in Nat /\ limits.tokens \in Nat
    BY <1>4 DEF AllLimits
  <2>9. Total(S, CharCost) <= limits.chars /\ Total(S, TokenCost) <= limits.tokens
    BY <2>4, <2>6, <2>7, <2>8
  <2> QED BY <2>5, <2>9 DEF Fits
<1>13. CASE Source(i) \in pick.mandatory /\ Fits(i)
  <2>1. pick' = [pick EXCEPT !.next = @ + 1, !.chosen = Append(@, i), !.chars = @ + Chars(i),
                             !.tokens = @ + Tokens(Chars(i))]
    BY <1>3, <1>4, <1>13 DEF Add, Picks
  <2>2. /\ pick'.at = "mandatory" /\ pick'.rows = pick.rows /\ pick'.mandatory = pick.mandatory
        /\ pick'.next = pick.next + 1 /\ pick'.chosen = Append(pick.chosen, i)
        /\ pick'.chars = pick.chars + Chars(i) /\ pick'.tokens = pick.tokens + Tokens(Chars(i))
    BY <1>2, <1>4, <2>1 DEF Picks
  <2>3. /\ ChosenHolds' /\ Selected' = Selected \cup {i}
        /\ pick'.chosen \in IdLists /\ pick'.chars \in Nat /\ pick'.tokens \in Nat
    BY <1>1, <1>2, <1>6, <1>7, <1>13, <2>2, AddFits
  <2>4. pick' \in Picks
    <3> DEFINE n == pick.next + 1
               c == Append(pick.chosen, i)
               a == pick.chars + Chars(i)
               b == pick.tokens + Tokens(Chars(i))
    <3>1. n \in Nat \ {0} /\ c \in IdLists /\ a \in Nat /\ b \in Nat
      BY <1>4, <2>2, <2>3
    <3>2. pick' = [pick EXCEPT !.next = n, !.chosen = c, !.chars = a, !.tokens = b]
      BY <2>1
    <3>3. pick \in Picks
      BY <1>4
    <3> HIDE DEF n, c, a, b
    <3> QED BY <3>1, <3>2, <3>3, PickMoves
  <2>5. CandidatesHold'
    BY <1>1, <1>2, <2>2, <2>4 DEF CandidatesHold
  <2>6. RowsHold'
    BY <1>2, <1>8, <2>2, <2>3 DEF RowsHold
  <2>7. Must' = Must /\ MandatorySources' = MandatorySources
    BY <1>2, <2>2 DEF Must, MandatorySources
  <2>8. MustFits' => MustFits
    BY <1>2, <2>7 DEF MustFits
  <2>9. MandatoryHold'
    <3>1. Must' \subseteq ToSet(pick'.rows) /\ Selected' \subseteq Must'
      BY <1>9, <1>10, <1>13, <2>2, <2>3, <2>7
    <3>2. pick'.chars = Total(Selected', CharCost) /\ pick'.tokens = Total(Selected', TokenCost)
      BY <1>9, <1>11, <2>2, <2>3
    <3>3. MustFits' => \A k \in 1..Len(pick'.rows) :
                         k < pick'.next /\ pick'.rows[k] \in Must' => pick'.rows[k] \in Selected'
      <4> SUFFICES ASSUME MustFits, NEW k \in 1..Len(pick.rows), k < pick.next + 1, pick.rows[k] \in Must
                   PROVE  pick.rows[k] \in Selected \cup {i}
        BY <2>2, <2>3, <2>7, <2>8
      <4>1. k < pick.next \/ k = pick.next
        BY <1>4
      <4> QED BY <1>9, <4>1 DEF i
    <3> QED BY <1>9, <2>2, <2>7, <3>1, <3>2, <3>3 DEF MandatoryHold
  <2>10. QueueHolds' /\ JudgedHolds'
    BY <1>1, <1>2, <2>2 DEF QueueHolds, JudgedHolds
  <2> QED BY <2>3, <2>5, <2>6, <2>9, <2>10 DEF SelectionInv
<1>14. CASE ~(Source(i) \in pick.mandatory /\ Fits(i))
  <2>1. pick' = [pick EXCEPT !.next = @ + 1]
    BY <1>3, <1>14
  <2>2. /\ pick'.at = "mandatory" /\ pick'.rows = pick.rows /\ pick'.mandatory = pick.mandatory
        /\ pick'.next = pick.next + 1 /\ pick'.chosen = pick.chosen
        /\ pick'.chars = pick.chars /\ pick'.tokens = pick.tokens /\ pick' \in Picks
    BY <1>2, <1>4, <2>1 DEF Picks
  <2>3. CandidatesHold'
    BY <1>1, <1>2, <2>2 DEF CandidatesHold
  <2>4. ChosenHolds' /\ Selected' = Selected
    BY <1>1, <1>2, <2>2 DEF ChosenHolds, Selected
  <2>5. RowsHold'
    BY <1>2, <1>8, <2>2, <2>4 DEF RowsHold
  <2>6. Must' = Must /\ MandatorySources' = MandatorySources
    BY <1>2, <2>2 DEF Must, MandatorySources
  <2>7. MustFits' => MustFits
    BY <1>2, <2>6 DEF MustFits
  <2>8. MandatoryHold'
    <3>1. MustFits' => \A k \in 1..Len(pick'.rows) :
                         k < pick'.next /\ pick'.rows[k] \in Must' => pick'.rows[k] \in Selected'
      <4> SUFFICES ASSUME MustFits, NEW k \in 1..Len(pick.rows), k < pick.next + 1, pick.rows[k] \in Must
                   PROVE  pick.rows[k] \in Selected
        BY <2>2, <2>4, <2>6, <2>7
      <4>1. k < pick.next \/ k = pick.next
        BY <1>4
      <4>2. k # pick.next
        BY <1>10, <1>12, <1>14 DEF i
      <4> QED BY <1>9, <4>1, <4>2
    <3> QED BY <1>9, <2>2, <2>4, <2>6, <3>1 DEF MandatoryHold
  <2>9. QueueHolds' /\ JudgedHolds'
    BY <1>1, <1>2, <2>2 DEF QueueHolds, JudgedHolds
  <2> QED BY <2>3, <2>4, <2>5, <2>8, <2>9 DEF SelectionInv
<1> QED BY <1>13, <1>14

\* The rest is listed by relevance, or queued with what each row adds.
LEMMA ChooseModeKeeps == ASSUME SelectionInv, ChooseMode PROVE SelectionInv'
<1>1. CandidatesHold /\ ChosenHolds /\ RowsHold /\ MandatoryHold /\ JudgedHolds
  BY DEF SelectionInv
<1>2. /\ pick.at = "mandatory" /\ pick.next > Len(pick.rows)
      /\ UNCHANGED <<request, gathered, ranked, limits, verdict>>
  BY DEF ChooseMode
<1> DEFINE start == CoverTo(pick.chosen)[Len(pick.chosen)]
           heap == {Entry(i, Gain(i, start), 0) : i \in RoomLeft}
<1>3. \/ \E rows \in ByRelevance(RoomLeft) :
           pick' = [pick EXCEPT !.at = "relevance", !.mode = "relevance", !.rows = rows, !.next = 1]
      \/ pick' = [pick EXCEPT !.at = "facility", !.mode = "facility", !.cover = start, !.heap = heap]
  BY DEF ChooseMode
<1>4. /\ pick \in Picks /\ pick.rows \in IdLists /\ pick.chosen \in IdLists /\ pick.next \in Nat \ {0}
      /\ Len(pick.rows) \in Nat /\ DOMAIN pick.rows = 1..Len(pick.rows)
      /\ ToSet(pick.rows) \in SUBSET Ids /\ RoomLeft \in SUBSET Ids /\ pick.epoch \in Nat
  <2>1. pick \in Picks /\ pick.rows \in IdLists /\ pick.chosen \in IdLists /\ pick.next \in Nat \ {0}
        /\ pick.epoch \in Nat
    BY <1>1 DEF CandidatesHold, Picks
  <2>2. Len(pick.rows) \in Nat /\ DOMAIN pick.rows = 1..Len(pick.rows) /\ ToSet(pick.rows) \in SUBSET Ids
    BY <2>1 DEF IdLists, ToSet
  <2> QED BY <2>1, <2>2 DEF RoomLeft
<1>5. MustFits => Must \subseteq Selected
  <2> SUFFICES ASSUME MustFits, NEW i \in Must PROVE i \in Selected
    OBVIOUS
  <2>1. i \in ToSet(pick.rows)
    BY <1>1, <1>2 DEF MandatoryHold
  <2>2. PICK k \in 1..Len(pick.rows) : pick.rows[k] = i
    BY <1>4, <2>1 DEF ToSet
  <2>3. k < pick.next
    BY <1>2, <1>4, <2>2
  <2> QED BY <1>1, <1>2, <2>2, <2>3 DEF MandatoryHold
<1>6. pick.mandatory = MandatorySources
  BY <1>1, <1>2 DEF MandatoryHold
<1>7. ToSet(pick.rows) \subseteq ToSet(ranked)
  BY <1>1 DEF RowsHold
<1>8. ASSUME pick' \in Picks, pick'.at \in {"relevance", "facility"}, pick'.chosen = pick.chosen,
             pick'.chars = pick.chars, pick'.tokens = pick.tokens, pick'.mandatory = pick.mandatory
      PROVE  CandidatesHold' /\ ChosenHolds' /\ MandatoryHold' /\ JudgedHolds' /\ Selected' = Selected
  <2>1. CandidatesHold'
    BY <1>1, <1>2, <1>8 DEF CandidatesHold
  <2>2. ChosenHolds' /\ Selected' = Selected
    BY <1>1, <1>2, <1>8 DEF ChosenHolds, Selected
  <2>3. Must' = Must /\ MandatorySources' = MandatorySources
    BY <1>2, <1>8 DEF Must, MandatorySources
  <2>4. MustFits' => MustFits
    BY <1>2, <2>3 DEF MustFits
  <2>5. MandatoryHold'
    BY <1>5, <1>6, <1>8, <2>2, <2>3, <2>4 DEF MandatoryHold
  <2>6. JudgedHolds'
    BY <1>1, <1>2 DEF JudgedHolds
  <2> QED BY <2>1, <2>2, <2>5, <2>6
<1>9. CASE \E rows \in ByRelevance(RoomLeft) :
             pick' = [pick EXCEPT !.at = "relevance", !.mode = "relevance", !.rows = rows, !.next = 1]
  <2>1. PICK rows \in ByRelevance(RoomLeft) :
          pick' = [pick EXCEPT !.at = "relevance", !.mode = "relevance", !.rows = rows, !.next = 1]
    BY <1>9
  <2>2. rows \in IdLists /\ NoRepeats(rows) /\ ToSet(rows) = RoomLeft
    BY <1>4, ByRelevanceLists
  <2>3. /\ pick' \in Picks /\ pick'.at = "relevance" /\ pick'.chosen = pick.chosen
        /\ pick'.chars = pick.chars /\ pick'.tokens = pick.tokens /\ pick'.mandatory = pick.mandatory
        /\ pick'.rows = rows /\ pick'.next = 1
    <3>1. pick \in Picks /\ 1 \in Nat \ {0} /\ rows \in IdLists
      BY <1>4, <2>2
    <3> QED BY <2>1, <3>1 DEF Picks, Places
  <2>4. CandidatesHold' /\ ChosenHolds' /\ MandatoryHold' /\ JudgedHolds' /\ Selected' = Selected
    BY <1>8, <2>3
  <2>5. RowsHold'
    <3>1. \A k \in 1..Len(rows) : rows[k] \in RoomLeft
      BY <2>2 DEF IdLists, ToSet
    <3>2. \A k \in 1..Len(rows) : rows[k] \notin Selected
      BY <3>1 DEF RoomLeft, Selected
    <3>3. ToSet(rows) \subseteq ToSet(ranked)
      BY <1>7, <2>2 DEF RoomLeft
    <3> QED BY <1>2, <2>2, <2>3, <2>4, <3>2, <3>3 DEF RowsHold
  <2>6. QueueHolds'
    BY <2>3 DEF QueueHolds
  <2> QED BY <2>4, <2>5, <2>6 DEF SelectionInv
<1>10. CASE pick' = [pick EXCEPT !.at = "facility", !.mode = "facility", !.cover = start, !.heap = heap]
  <2>1. PICK cover \in Covers : cover = start
    <3>1. start \in Covers
      BY <1>4, CoverIs DEF IdLists
    <3> HIDE DEF start
    <3> QED BY <3>1
  <2>2. \A i \in RoomLeft : Gain(i, cover) = GainOf(pick.rows, i, cover) /\ Gain(i, cover) \in Nat
    BY <1>4, GainIs, GainNat
  <2> DEFINE entry(i) == [id |-> i, gain |-> GainOf(pick.rows, i, cover), epoch |-> 0]
  <2>3. heap = {entry(i) : i \in RoomLeft}
    <3>1. heap = {Entry(i, Gain(i, cover), 0) : i \in RoomLeft}
      BY <2>1
    <3> HIDE DEF heap
    <3> QED BY <2>2, <3>1 DEF Entry
  <2> HIDE DEF start, heap
  <2>4. heap \in SUBSET Queued
    BY <1>4, <2>2, <2>3 DEF Queued
  <2>5. /\ \A e \in heap : e.id \in RoomLeft /\ e.gain = GainOf(pick.rows, e.id, cover) /\ e.epoch = 0
        /\ \A i \in RoomLeft : \E e \in heap : e.id = i
    <3>1. ASSUME NEW e \in heap
          PROVE  e.id \in RoomLeft /\ e.gain = GainOf(pick.rows, e.id, cover) /\ e.epoch = 0
      <4>1. PICK i \in RoomLeft : e = entry(i)
        BY <2>3
      <4> QED BY <4>1
    <3>2. ASSUME NEW i \in RoomLeft PROVE \E e \in heap : e.id = i
      <4>1. entry(i) \in heap /\ entry(i).id = i
        BY <2>3
      <4> HIDE DEF entry
      <4> QED BY <4>1
    <3> QED BY <3>1, <3>2
  <2>6. OneEntryEach(heap)
    BY <2>3 DEF OneEntryEach
  <2>7. /\ pick' \in Picks /\ pick'.at = "facility" /\ pick'.chosen = pick.chosen
        /\ pick'.chars = pick.chars /\ pick'.tokens = pick.tokens /\ pick'.mandatory = pick.mandatory
        /\ pick'.rows = pick.rows /\ pick'.heap = heap /\ pick'.cover = cover /\ pick'.epoch = pick.epoch
    <3>1. pick \in Picks
      BY <1>4
    <3> QED BY <1>10, <2>1, <2>4, <3>1 DEF Picks, Places
  <2>8. CandidatesHold' /\ ChosenHolds' /\ MandatoryHold' /\ JudgedHolds' /\ Selected' = Selected
    BY <1>8, <2>7
  <2>9. RowsHold'
    BY <1>2, <1>7, <2>7 DEF RowsHold
  <2>10. RoomLeft' = RoomLeft
    BY <2>7 DEF RoomLeft
  <2>11. QueueHolds'
    <3>1. \A e \in heap : /\ e.id \in RoomLeft /\ e.epoch <= pick.epoch
                          /\ GainOf(pick.rows, e.id, cover) <= e.gain
                          /\ e.gain = GainOf(pick.rows, e.id, cover)
      BY <1>4, <2>2, <2>5
    <3> QED BY <2>5, <2>6, <2>7, <2>10, <3>1 DEF QueueHolds
  <2> QED BY <2>8, <2>9, <2>11 DEF SelectionInv
<1> QED BY <1>3, <1>9, <1>10

\* When the mandatory rows are through, nothing that was chosen is given back.
LEMMA MandatoryStays ==
  ASSUME MandatoryHold, pick.at \notin {"rank", "bound", "mandatory"},
         pick'.at \notin {"rank", "bound", "mandatory"}, pick'.mandatory = pick.mandatory,
         UNCHANGED <<request, gathered, ranked, limits>>, Selected \subseteq Selected'
  PROVE  MandatoryHold'
<1>1. Must' = Must /\ MandatorySources' = MandatorySources
  BY DEF Must, MandatorySources
<1>2. MustFits' => MustFits
  BY <1>1 DEF MustFits
<1> QED BY <1>1, <1>2 DEF MandatoryHold

\* The selector comes to an end, or is told to judge.
LEMMA PlaceMoves ==
  ASSUME SelectionInv, pick.at \in {"relevance", "facility", "chosen"}, pick'.at \in {"chosen", "judge"},
         UNCHANGED <<request, gathered, ranked, limits, verdict>>, pick' \in Picks,
         pick'.chosen = pick.chosen, pick'.chars = pick.chars, pick'.tokens = pick.tokens,
         pick'.mandatory = pick.mandatory, pick'.rows = pick.rows
  PROVE  SelectionInv'
<1>1. CandidatesHold /\ ChosenHolds /\ RowsHold /\ MandatoryHold /\ JudgedHolds
  BY DEF SelectionInv
<1>2. CandidatesHold'
  BY <1>1 DEF CandidatesHold
<1>3. ChosenHolds' /\ Selected' = Selected
  BY <1>1 DEF ChosenHolds, Selected
<1>4. RowsHold'
  BY <1>1 DEF RowsHold
<1>5. MandatoryHold'
  BY <1>1, <1>3, MandatoryStays
<1>6. QueueHolds' /\ JudgedHolds'
  BY <1>1 DEF QueueHolds, JudgedHolds
<1> QED BY <1>2, <1>3, <1>4, <1>5, <1>6 DEF SelectionInv

\* A row is taken when it fits.
LEMMA TakeRelevantKeeps == ASSUME SelectionInv, TakeRelevant PROVE SelectionInv'
<1> DEFINE i == pick.rows[pick.next]
<1>1. CandidatesHold /\ ChosenHolds /\ RowsHold /\ MandatoryHold /\ JudgedHolds
  BY DEF SelectionInv
<1>2. pick.at = "relevance" /\ UNCHANGED <<request, gathered, ranked, limits, verdict>>
  BY DEF TakeRelevant
<1>3. /\ pick \in Picks /\ pick.rows \in IdLists /\ pick.next \in Nat \ {0}
      /\ pick.chosen \in IdLists /\ pick.chars \in Nat /\ pick.tokens \in Nat
      /\ Len(pick.rows) \in Nat /\ DOMAIN pick.rows = 1..Len(pick.rows)
  BY <1>1 DEF CandidatesHold, Picks, IdLists
<1>4. CASE pick.next > Len(pick.rows)
  <2>1. pick' = [pick EXCEPT !.at = "chosen"]
    BY <1>4 DEF TakeRelevant
  <2>2. /\ pick' \in Picks /\ pick'.at = "chosen" /\ pick'.chosen = pick.chosen /\ pick'.chars = pick.chars
        /\ pick'.tokens = pick.tokens /\ pick'.mandatory = pick.mandatory /\ pick'.rows = pick.rows
    BY <1>3, <2>1 DEF Picks, Places
  <2> QED BY <1>2, <2>2, PlaceMoves
<1>5. CASE ~(pick.next > Len(pick.rows))
  <2>1. pick' = IF Fits(i) THEN Add([pick EXCEPT !.next = @ + 1], i) ELSE [pick EXCEPT !.next = @ + 1]
    BY <1>5 DEF TakeRelevant
  <2>2. pick.next \in 1..Len(pick.rows)
    BY <1>3, <1>5
  <2>3. i \in ToSet(pick.rows)
    BY <1>3, <2>2 DEF ToSet
  <2> HIDE DEF i
  <2>4. i \in ToSet(ranked) /\ i \notin Selected
    BY <1>1, <1>2, <1>3, <2>2, <2>3 DEF RowsHold, i
  <2>5. /\ NoRepeats(pick.rows) /\ ToSet(pick.rows) \subseteq ToSet(ranked)
        /\ \A k \in 1..Len(pick.rows) : k >= pick.next + 1 => pick.rows[k] \notin Selected /\ pick.rows[k] # i
    <3>1. NoRepeats(pick.rows) /\ ToSet(pick.rows) \subseteq ToSet(ranked)
          /\ \A k \in 1..Len(pick.rows) : k >= pick.next => pick.rows[k] \notin Selected
      BY <1>1, <1>2 DEF RowsHold
    <3>2. \A k \in 1..Len(pick.rows) : k >= pick.next + 1 => k >= pick.next /\ k # pick.next
      BY <1>3
    <3> QED BY <2>2, <3>1, <3>2 DEF NoRepeats, i
  <2> DEFINE n == pick.next + 1
  <2>6. n \in Nat \ {0}
    BY <1>3
  <2>7. CASE Fits(i)
    <3> DEFINE c == Append(pick.chosen, i)
               a == pick.chars + Chars(i)
               b == pick.tokens + Tokens(Chars(i))
    <3>1. pick' = [pick EXCEPT !.next = n, !.chosen = c, !.chars = a, !.tokens = b]
      BY <1>3, <2>1, <2>7 DEF Add, Picks
    <3>2. i \in Ids
      BY <1>3, <2>3 DEF IdLists, ToSet
    <3>3. c \in IdLists /\ a \in Nat /\ b \in Nat
      <4>1. Chars(i) \in Nat /\ Tokens(Chars(i)) \in Nat
        BY <3>2, CostNat
      <4> QED BY <1>3, <3>2, <4>1 DEF IdLists
    <3>4. /\ pick' \in Picks /\ pick'.at = pick.at /\ pick'.rows = pick.rows
          /\ pick'.mandatory = pick.mandatory /\ pick'.next = n /\ pick'.chosen = c
          /\ pick'.chars = a /\ pick'.tokens = b
      <4>1. pick \in Picks
        BY <1>3
      <4> HIDE DEF n, c, a, b
      <4> QED BY <2>6, <3>1, <3>3, <4>1, PickMoves
    <3>5. ChosenHolds' /\ Selected' = Selected \cup {i}
      BY <1>1, <1>2, <2>4, <2>7, <3>4, AddFits
    <3>6. CandidatesHold'
      BY <1>1, <1>2, <3>4 DEF CandidatesHold
    <3>7. RowsHold'
      BY <1>2, <2>5, <3>4, <3>5 DEF RowsHold
    <3>8. MandatoryHold'
      BY <1>1, <1>2, <3>4, <3>5, MandatoryStays
    <3>9. QueueHolds' /\ JudgedHolds'
      BY <1>1, <1>2, <3>4 DEF QueueHolds, JudgedHolds
    <3> QED BY <3>5, <3>6, <3>7, <3>8, <3>9 DEF SelectionInv
  <2>8. CASE ~Fits(i)
    <3>1. pick' = [pick EXCEPT !.next = n]
      BY <2>1, <2>8
    <3>2. /\ pick' \in Picks /\ pick'.at = pick.at /\ pick'.rows = pick.rows
          /\ pick'.mandatory = pick.mandatory /\ pick'.next = n /\ pick'.chosen = pick.chosen
          /\ pick'.chars = pick.chars /\ pick'.tokens = pick.tokens
      <4>1. pick \in Picks
        BY <1>3
      <4> HIDE DEF n
      <4> QED BY <2>6, <3>1, <4>1 DEF Picks
    <3>3. ChosenHolds' /\ Selected' = Selected
      BY <1>1, <1>2, <3>2 DEF ChosenHolds, Selected
    <3>4. CandidatesHold'
      BY <1>1, <1>2, <3>2 DEF CandidatesHold
    <3>5. RowsHold'
      BY <1>2, <2>5, <3>2, <3>3 DEF RowsHold
    <3>6. MandatoryHold'
      BY <1>1, <1>2, <3>2, <3>3, MandatoryStays
    <3>7. QueueHolds' /\ JudgedHolds'
      BY <1>1, <1>2, <3>2 DEF QueueHolds, JudgedHolds
    <3> QED BY <3>3, <3>4, <3>5, <3>6, <3>7 DEF SelectionInv
  <2> QED BY <2>7, <2>8
<1> QED BY <1>4, <1>5

\* The cut is of the candidates; there was no room for the mandatory ones.
LEMMA FallBackKeeps == ASSUME SelectionInv, FallBack PROVE SelectionInv'
<1>1. CandidatesHold /\ ChosenHolds /\ RowsHold /\ MandatoryHold /\ JudgedHolds
  BY DEF SelectionInv
<1>2. pick.at = "chosen" /\ UNCHANGED <<request, gathered, ranked, limits, verdict>>
  BY DEF FallBack
<1>3. pick \in Picks
  BY <1>1 DEF CandidatesHold
<1>4. CASE pick.chosen # <<>> \/ ranked = <<>>
  <2>1. pick' = [pick EXCEPT !.at = "judge"]
    BY <1>4 DEF FallBack
  <2>2. /\ pick' \in Picks /\ pick'.at = "judge" /\ pick'.chosen = pick.chosen /\ pick'.chars = pick.chars
        /\ pick'.tokens = pick.tokens /\ pick'.mandatory = pick.mandatory /\ pick'.rows = pick.rows
    BY <1>3, <2>1 DEF Picks, Places
  <2> QED BY <1>2, <2>2, PlaceMoves
<1>5. CASE ~(pick.chosen # <<>> \/ ranked = <<>>)
  <2> DEFINE c == HardCap.chosen
             a == HardCap.chars
             b == HardCap.tokens
  <2>1. pick' = [pick EXCEPT !.at = "judge", !.mode = "hard_cap", !.chosen = c, !.chars = a, !.tokens = b]
    BY <1>5 DEF FallBack
  <2>2. /\ c \in IdLists /\ a \in Nat /\ b \in Nat /\ NoRepeats(c) /\ ToSet(c) \subseteq ToSet(ranked)
        /\ a <= limits.chars /\ b <= limits.tokens
    BY <1>1, HardCapFits DEF CandidatesHold
  <2> HIDE DEF c, a, b
  <2>3. /\ pick' \in Picks /\ pick'.at = "judge" /\ pick'.chosen = c /\ pick'.chars = a
        /\ pick'.tokens = b /\ pick'.mandatory = pick.mandatory /\ pick'.rows = pick.rows
    BY <1>3, <2>1, <2>2 DEF Picks, Places
  <2>4. CandidatesHold'
    BY <1>1, <1>2, <2>3 DEF CandidatesHold
  <2>5. ChosenHolds'
    BY <1>1, <1>2, <2>2, <2>3 DEF ChosenHolds, Selected
  <2>6. RowsHold'
    BY <1>1, <1>2, <2>3 DEF RowsHold
  <2>7. Selected \subseteq Selected'
    <3>1. Selected = {}
      BY <1>5 DEF Selected, ToSet
    <3> QED BY <3>1
  <2>8. MandatoryHold'
    BY <1>1, <1>2, <2>3, <2>7, MandatoryStays
  <2>9. QueueHolds' /\ JudgedHolds'
    BY <1>1, <1>2, <2>3 DEF QueueHolds, JudgedHolds
  <2> QED BY <2>4, <2>5, <2>6, <2>8, <2>9 DEF SelectionInv
<1> QED BY <1>4, <1>5

\* A verdict is of what is selected.
LEMMA JudgeEvidenceKeeps == ASSUME SelectionInv, JudgeEvidence PROVE SelectionInv'
<1>1. CandidatesHold /\ ChosenHolds /\ RowsHold /\ MandatoryHold /\ JudgedHolds
  BY DEF SelectionInv
<1>2. /\ pick.at = "judge" /\ UNCHANGED <<request, gathered, ranked, limits>>
      /\ verdict' \in EvidenceStates(Sufficient(Selected) /\ (Accepted(Selected) \/ ~request.gate))
      /\ pick' = [pick EXCEPT !.at = "done"]
  BY DEF JudgeEvidence
<1>3. pick \in Picks
  BY <1>1 DEF CandidatesHold
<1>4. /\ pick' \in Picks /\ pick'.at = "done" /\ pick'.chosen = pick.chosen /\ pick'.chars = pick.chars
      /\ pick'.tokens = pick.tokens /\ pick'.mandatory = pick.mandatory /\ pick'.rows = pick.rows
  BY <1>2, <1>3 DEF Picks, Places
<1>5. CandidatesHold'
  BY <1>1, <1>2, <1>4 DEF CandidatesHold
<1>6. ChosenHolds' /\ Selected' = Selected
  BY <1>1, <1>2, <1>4 DEF ChosenHolds, Selected
<1>7. RowsHold'
  BY <1>1, <1>2, <1>4 DEF RowsHold
<1>8. MandatoryHold'
  BY <1>1, <1>2, <1>4, <1>6, MandatoryStays
<1>9. QueueHolds'
  BY <1>4 DEF QueueHolds
<1>10. JudgedHolds'
  <2> DEFINE ok == Sufficient(Selected) /\ (Accepted(Selected) \/ ~request.gate)
  <2>1. verdict' \in EvidenceStates(ok)
    BY <1>2
  <2> HIDE DEF ok
  <2>2. verdict' \in {"sufficient", "abstain", "requires_exploration"} /\ (verdict' = "sufficient" => ok)
    BY <2>1 DEF EvidenceStates
  <2>3. Sufficient(Selected)' = Sufficient(Selected) /\ Accepted(Selected)' = Accepted(Selected)
    BY <1>2, <1>6 DEF Sufficient, Accepted, SufficiencyScore, CompleteEvidence, Origin
  <2>4. request' = request
    BY <1>2
  <2>5. ok => Sufficient(Selected) /\ (request.gate => Accepted(Selected))
    BY Zenon DEF ok
  <2> QED BY <1>4, <2>2, <2>3, <2>4, <2>5, Zenon DEF JudgedHolds
<1> QED BY <1>5, <1>6, <1>7, <1>8, <1>9, <1>10 DEF SelectionInv

\* A step of the queue: its top is dropped, put back, or chosen.
LEMMA PopCases ==
  ASSUME SelectionInv, PopCandidate, pick.heap # {}
  PROVE  \E top \in pick.heap :
           /\ \A o \in pick.heap \ {top} : Precedes(top, o)
           /\ top.id \in Ids
           /\ LET now  == GainOf(pick.rows, top.id, pick.cover)
                  rest == pick.heap \ {top}
              IN  \/ /\ ~Fits(top.id)
                     /\ pick' = [pick EXCEPT !.heap = rest]
                  \/ /\ Fits(top.id)
                     /\ pick' = [pick EXCEPT !.heap = rest \cup {Entry(top.id, now, pick.epoch)}]
                  \/ pick' = [pick EXCEPT !.heap = rest, !.at = "chosen"]
                  \/ /\ Fits(top.id) /\ top.gain = now /\ top.epoch = pick.epoch
                     /\ pick' = [pick EXCEPT !.heap = rest, !.chosen = Append(pick.chosen, top.id),
                                             !.chars = pick.chars + Chars(top.id),
                                             !.tokens = pick.tokens + Tokens(Chars(top.id)),
                                             !.cover = Covered(pick.cover, top.id),
                                             !.epoch = pick.epoch + 1]
<1>1. pick \in Picks /\ pick.at = "facility" /\ QueueHolds
  BY DEF PopCandidate, SelectionInv, CandidatesHold
<1>2. pick.heap \in SUBSET Queued /\ OneEntryEach(pick.heap)
  BY <1>1 DEF Picks, QueueHolds
<1>3. HeapTop \in pick.heap /\ \A o \in pick.heap \ {HeapTop} : Precedes(HeapTop, o)
  BY <1>2, TopIs
<1>4. PICK top \in pick.heap : top = HeapTop
  BY <1>3
<1>5. top.id \in Ids
  BY <1>2 DEF Queued
<1> DEFINE now == GainOf(pick.rows, top.id, pick.cover)
           back == Entry(top.id, now, pick.epoch)
           heap == pick.heap \ {top}
           rest == [pick EXCEPT !.heap = heap]
<1>6. Gain(top.id, pick.cover) = now
  BY DEF Gain, GainOf, Adds
<1>7. pick' = IF ~Fits(top.id) THEN rest
              ELSE IF top.epoch # pick.epoch \/ now # top.gain
                THEN [rest EXCEPT !.heap = @ \cup {back}]
              ELSE IF now <= 0 THEN [rest EXCEPT !.at = "chosen"]
              ELSE [Add(rest, top.id) EXCEPT !.cover = Covered(@, top.id), !.epoch = @ + 1]
  BY <1>4, <1>6 DEF PopCandidate
<1> HIDE DEF now, back, heap
<1>8. [rest EXCEPT !.heap = @ \cup {back}] = [pick EXCEPT !.heap = heap \cup {back}]
  BY <1>1 DEF Picks
<1>9. [rest EXCEPT !.at = "chosen"] = [pick EXCEPT !.heap = heap, !.at = "chosen"]
  BY <1>1 DEF Picks
<1>10. [Add(rest, top.id) EXCEPT !.cover = Covered(@, top.id), !.epoch = @ + 1] =
         [pick EXCEPT !.heap = heap, !.chosen = Append(pick.chosen, top.id),
                      !.chars = pick.chars + Chars(top.id),
                      !.tokens = pick.tokens + Tokens(Chars(top.id)),
                      !.cover = Covered(pick.cover, top.id), !.epoch = pick.epoch + 1]
  BY <1>1 DEF Add, Picks
<1> HIDE DEF rest
<1>11. \/ ~Fits(top.id) /\ pick' = rest
       \/ Fits(top.id) /\ pick' = [rest EXCEPT !.heap = @ \cup {back}]
       \/ pick' = [rest EXCEPT !.at = "chosen"]
       \/ Fits(top.id) /\ top.gain = now /\ top.epoch = pick.epoch
          /\ pick' = [Add(rest, top.id) EXCEPT !.cover = Covered(@, top.id), !.epoch = @ + 1]
  BY <1>7, Zenon
<1>12. rest = [pick EXCEPT !.heap = heap]
  BY DEF rest
<1>13. \/ ~Fits(top.id) /\ pick' = [pick EXCEPT !.heap = heap]
       \/ Fits(top.id) /\ pick' = [pick EXCEPT !.heap = heap \cup {back}]
       \/ pick' = [pick EXCEPT !.heap = heap, !.at = "chosen"]
       \/ /\ Fits(top.id) /\ top.gain = now /\ top.epoch = pick.epoch
          /\ pick' = [pick EXCEPT !.heap = heap, !.chosen = Append(pick.chosen, top.id),
                                  !.chars = pick.chars + Chars(top.id),
                                  !.tokens = pick.tokens + Tokens(Chars(top.id)),
                                  !.cover = Covered(pick.cover, top.id), !.epoch = pick.epoch + 1]
  BY <1>8, <1>9, <1>10, <1>11, <1>12
<1>14. \A o \in pick.heap \ {top} : Precedes(top, o)
  BY <1>3, <1>4
<1> USE DEF now, back, heap
<1> QED BY <1>5, <1>13, <1>14, Zenon

\* What holds of the rest of the state when the queue is worked on.
LEMMA QueueMoves ==
  ASSUME SelectionInv, pick.at = "facility", pick'.at = "facility", pick' \in Picks,
         UNCHANGED <<request, gathered, ranked, limits, verdict>>,
         pick'.mandatory = pick.mandatory, pick'.rows = pick.rows,
         ChosenHolds', Selected \subseteq Selected', QueueHolds'
  PROVE  SelectionInv'
<1>1. CandidatesHold /\ RowsHold /\ MandatoryHold /\ JudgedHolds
  BY DEF SelectionInv
<1>2. CandidatesHold'
  BY <1>1 DEF CandidatesHold
<1>3. RowsHold'
  BY <1>1 DEF RowsHold
<1>4. MandatoryHold'
  BY <1>1, MandatoryStays
<1>5. JudgedHolds'
  BY <1>1 DEF JudgedHolds
<1> QED BY <1>2, <1>3, <1>4, <1>5 DEF SelectionInv

\* The top that leaves takes with it no row that fits; what it adds is what it
\* says when it goes back; and when it is chosen every other entry is of an
\* earlier epoch, and says no less than its row adds from now on.
LEMMA PopKeeps == ASSUME SelectionInv, PopCandidate PROVE SelectionInv'
<1>1. /\ CandidatesHold /\ ChosenHolds /\ RowsHold /\ QueueHolds
      /\ pick.at = "facility" /\ UNCHANGED <<request, gathered, ranked, limits, verdict>>
  BY DEF SelectionInv, PopCandidate
<1>2. /\ pick \in Picks /\ pick.heap \in SUBSET Queued /\ pick.cover \in Covers /\ pick.epoch \in Nat
      /\ pick.chosen \in IdLists /\ pick.chars \in Nat /\ pick.tokens \in Nat
  BY <1>1 DEF CandidatesHold, Picks
<1>3. /\ OneEntryEach(pick.heap)
      /\ \A e \in pick.heap :
           /\ e.id \in RoomLeft /\ e.epoch <= pick.epoch /\ GainOf(pick.rows, e.id, pick.cover) <= e.gain
           /\ e.epoch = pick.epoch => e.gain = GainOf(pick.rows, e.id, pick.cover)
      /\ \A i \in RoomLeft : Fits(i) => \E e \in pick.heap : e.id = i
  BY <1>1 DEF QueueHolds
<1>4. CASE pick.heap = {}
  <2>1. pick' = [pick EXCEPT !.at = "chosen"]
    BY <1>4 DEF PopCandidate
  <2>2. /\ pick' \in Picks /\ pick'.at = "chosen" /\ pick'.chosen = pick.chosen /\ pick'.chars = pick.chars
        /\ pick'.tokens = pick.tokens /\ pick'.mandatory = pick.mandatory /\ pick'.rows = pick.rows
    BY <1>2, <2>1 DEF Picks, Places
  <2> QED BY <1>1, <2>2, PlaceMoves
<1>5. CASE pick.heap # {}
  <2>1. PICK top \in pick.heap :
          /\ top.id \in Ids
          /\ LET now  == GainOf(pick.rows, top.id, pick.cover)
                 rest == pick.heap \ {top}
             IN  \/ /\ ~Fits(top.id)
                    /\ pick' = [pick EXCEPT !.heap = rest]
                 \/ /\ Fits(top.id)
                    /\ pick' = [pick EXCEPT !.heap = rest \cup {Entry(top.id, now, pick.epoch)}]
                 \/ pick' = [pick EXCEPT !.heap = rest, !.at = "chosen"]
                 \/ /\ Fits(top.id) /\ top.gain = now /\ top.epoch = pick.epoch
                    /\ pick' = [pick EXCEPT !.heap = rest, !.chosen = Append(pick.chosen, top.id),
                                            !.chars = pick.chars + Chars(top.id),
                                            !.tokens = pick.tokens + Tokens(Chars(top.id)),
                                            !.cover = Covered(pick.cover, top.id),
                                            !.epoch = pick.epoch + 1]
    BY <1>5, PopCases, Zenon
  <2> DEFINE now  == GainOf(pick.rows, top.id, pick.cover)
             rest == pick.heap \ {top}
  <2>2. top.id \in RoomLeft /\ top.id \in ToSet(ranked) /\ top.id \notin Selected /\ top \in Queued
    BY <1>1, <1>2, <1>3 DEF RoomLeft, Selected, RowsHold
  <2>3. CASE ~Fits(top.id) /\ pick' = [pick EXCEPT !.heap = rest]
    <3>1. rest \in SUBSET Queued
      BY <1>2
    <3>2. /\ pick' \in Picks /\ pick'.at = "facility" /\ pick'.mandatory = pick.mandatory
          /\ pick'.rows = pick.rows /\ pick'.chosen = pick.chosen /\ pick'.chars = pick.chars
          /\ pick'.tokens = pick.tokens /\ pick'.heap = rest /\ pick'.cover = pick.cover
          /\ pick'.epoch = pick.epoch
      <4> HIDE DEF rest
      <4> QED BY <1>1, <1>2, <2>3, <3>1 DEF Picks
    <3>3. ChosenHolds' /\ Selected' = Selected
      BY <1>1, <3>2 DEF ChosenHolds, Selected
    <3>4. RoomLeft' = RoomLeft /\ \A i \in RoomLeft : Fits(i)' <=> Fits(i)
      BY <1>1, <3>2 DEF RoomLeft, Fits
    <3>5. /\ OneEntryEach(rest)
          /\ \A i \in RoomLeft : Fits(i) => \E e \in rest : e.id = i
      BY <1>3, <2>3 DEF OneEntryEach
    <3>6. \A i \in RoomLeft' : Fits(i)' => \E e \in rest : e.id = i
      BY <3>4, <3>5
    <3>7. QueueHolds'
      BY <1>3, <3>2, <3>4, <3>5, <3>6 DEF QueueHolds
    <3> QED BY <1>1, <3>2, <3>3, <3>7, QueueMoves
  <2>4. CASE Fits(top.id) /\ pick' = [pick EXCEPT !.heap = rest \cup {Entry(top.id, now, pick.epoch)}]
    <3> DEFINE back == Entry(top.id, now, pick.epoch)
               heap == rest \cup {back}
    <3>1. back \in Queued /\ back.id = top.id /\ back.gain = now /\ back.epoch = pick.epoch /\ now \in Nat
      <4>1. now \in Nat
        BY <1>2, <2>1, GainIs, GainNat
      <4> QED BY <1>2, <2>1, <4>1 DEF Entry, Queued
    <3>2. heap \in SUBSET Queued
      BY <1>2, <3>1
    <3>3. /\ pick' \in Picks /\ pick'.at = "facility" /\ pick'.mandatory = pick.mandatory
          /\ pick'.rows = pick.rows /\ pick'.chosen = pick.chosen /\ pick'.chars = pick.chars
          /\ pick'.tokens = pick.tokens /\ pick'.heap = heap /\ pick'.cover = pick.cover
          /\ pick'.epoch = pick.epoch
      <4>1. pick' = [pick EXCEPT !.heap = heap]
        BY <2>4
      <4> HIDE DEF heap
      <4> QED BY <1>1, <1>2, <3>2, <4>1 DEF Picks
    <3>4. ChosenHolds' /\ Selected' = Selected
      BY <1>1, <3>3 DEF ChosenHolds, Selected
    <3>5. RoomLeft' = RoomLeft /\ \A i \in RoomLeft : Fits(i)' <=> Fits(i)
      BY <1>1, <3>3 DEF RoomLeft, Fits
    <3> HIDE DEF back, now
    <3>6. OneEntryEach(heap)
      BY <1>3, <3>1 DEF OneEntryEach
    <3>7. \A i \in RoomLeft : Fits(i) => \E e \in heap : e.id = i
      BY <1>3, <3>1
    <3>8. \A e \in heap :
            /\ e.id \in RoomLeft /\ e.epoch <= pick.epoch /\ GainOf(pick.rows, e.id, pick.cover) <= e.gain
            /\ e.epoch = pick.epoch => e.gain = GainOf(pick.rows, e.id, pick.cover)
      <4> SUFFICES ASSUME NEW e \in heap
                   PROVE  /\ e.id \in RoomLeft /\ e.epoch <= pick.epoch
                          /\ GainOf(pick.rows, e.id, pick.cover) <= e.gain
                          /\ e.epoch = pick.epoch => e.gain = GainOf(pick.rows, e.id, pick.cover)
        OBVIOUS
      <4>1. CASE e = back
        BY <1>2, <2>2, <3>1, <4>1 DEF now
      <4>2. CASE e # back
        BY <1>3, <4>2
      <4> QED BY <4>1, <4>2
    <3>9. \A i \in RoomLeft' : Fits(i)' => \E e \in heap : e.id = i
      BY <3>5, <3>7
    <3> HIDE DEF heap
    <3>10. QueueHolds'
      BY <3>3, <3>5, <3>6, <3>8, <3>9 DEF QueueHolds
    <3> QED BY <1>1, <3>3, <3>4, <3>10, QueueMoves
  <2>5. CASE pick' = [pick EXCEPT !.heap = rest, !.at = "chosen"]
    <3>1. rest \in SUBSET Queued
      BY <1>2
    <3>2. /\ pick' \in Picks /\ pick'.at = "chosen" /\ pick'.mandatory = pick.mandatory
          /\ pick'.rows = pick.rows /\ pick'.chosen = pick.chosen /\ pick'.chars = pick.chars
          /\ pick'.tokens = pick.tokens
      <4> HIDE DEF rest
      <4> QED BY <1>1, <1>2, <2>5, <3>1 DEF Picks, Places
    <3> QED BY <1>1, <3>2, PlaceMoves
  <2>6. CASE /\ Fits(top.id) /\ top.gain = now /\ top.epoch = pick.epoch
             /\ pick' = [pick EXCEPT !.heap = rest, !.chosen = Append(pick.chosen, top.id),
                                     !.chars = pick.chars + Chars(top.id),
                                     !.tokens = pick.tokens + Tokens(Chars(top.id)),
                                     !.cover = Covered(pick.cover, top.id),
                                     !.epoch = pick.epoch + 1]
    <3>1. PICK cover \in Covers : cover = Covered(pick.cover, top.id) /\ \A t \in Ids : pick.cover[t] <= cover[t]
      BY <1>2, <2>1, CoveredGrows
    <3> DEFINE c == Append(pick.chosen, top.id)
               a == pick.chars + Chars(top.id)
               b == pick.tokens + Tokens(Chars(top.id))
               n == pick.epoch + 1
    <3>2. pick' = [pick EXCEPT !.heap = rest, !.chosen = c, !.chars = a, !.tokens = b,
                               !.cover = cover, !.epoch = n]
      BY <2>6, <3>1
    <3>3. c \in IdLists /\ a \in Nat /\ b \in Nat /\ n \in Nat /\ rest \in SUBSET Queued
      <4>1. Chars(top.id) \in Nat /\ Tokens(Chars(top.id)) \in Nat
        BY <2>1, CostNat
      <4> QED BY <1>2, <2>1, <4>1 DEF IdLists
    <3>4. /\ pick' \in Picks /\ pick'.at = "facility" /\ pick'.mandatory = pick.mandatory
          /\ pick'.rows = pick.rows /\ pick'.chosen = c /\ pick'.chars = a
          /\ pick'.tokens = b /\ pick'.heap = rest /\ pick'.cover = cover /\ pick'.epoch = n
      <4> HIDE DEF rest, c, a, b, n
      <4> QED BY <1>1, <1>2, <3>2, <3>3 DEF Picks
    <3>5. ChosenHolds' /\ Selected' = Selected \cup {top.id}
      BY <1>1, <2>2, <2>6, <3>4, AddFits
    <3>6. RoomLeft' = RoomLeft \ {top.id}
      BY <3>4, <3>5 DEF RoomLeft, Selected
    <3>7. \A i \in RoomLeft : Fits(i)' => Fits(i)
      <4> SUFFICES ASSUME NEW i \in RoomLeft, Fits(i)' PROVE Fits(i)
        OBVIOUS
      <4>1. i \in Ids
        BY <1>1 DEF RoomLeft, RowsHold, CandidatesHold, IdLists, ToSet
      <4>2. Chars(i) \in Nat /\ Tokens(Chars(i)) \in Nat /\ Chars(top.id) \in Nat /\ Tokens(Chars(top.id)) \in Nat
        BY <2>1, <4>1, CostNat
      <4>3. limits.chars \in Nat /\ limits.tokens \in Nat
        BY <1>1 DEF CandidatesHold, AllLimits
      <4>4. a + Chars(i) <= limits.chars /\ b + Tokens(Chars(i)) <= limits.tokens
        BY <1>1, <3>4 DEF Fits
      <4> QED BY <1>2, <4>2, <4>3, <4>4 DEF Fits
    <3>8. OneEntryEach(rest)
      BY <1>3 DEF OneEntryEach
    <3>9. \A i \in RoomLeft' : Fits(i)' => \E e \in rest : e.id = i
      BY <1>3, <3>6, <3>7
    <3>10. \A e \in rest :
             /\ e.id \in RoomLeft' /\ e.epoch <= n /\ GainOf(pick.rows, e.id, cover) <= e.gain
             /\ e.epoch = n => e.gain = GainOf(pick.rows, e.id, cover)
      <4> SUFFICES ASSUME NEW e \in rest
                   PROVE  /\ e.id \in RoomLeft \ {top.id} /\ e.epoch <= n /\ e.epoch # n
                          /\ GainOf(pick.rows, e.id, cover) <= e.gain
        BY <3>6
      <4>1. e \in Queued /\ e.id \in Ids /\ e.gain \in Nat /\ e.epoch \in Nat
        BY <1>2 DEF Queued
      <4>2. e.id \in RoomLeft /\ e.epoch <= pick.epoch /\ GainOf(pick.rows, e.id, pick.cover) <= e.gain
        BY <1>3
      <4>3. e.id # top.id
        BY <1>3 DEF OneEntryEach
      <4>4. GainOf(pick.rows, e.id, cover) <= GainOf(pick.rows, e.id, pick.cover)
        BY <1>2, <3>1, <4>1, GainIs, GainFalls
      <4>5. GainOf(pick.rows, e.id, cover) \in Nat /\ GainOf(pick.rows, e.id, pick.cover) \in Nat
        BY <1>2, <4>1, GainIs, GainNat
      <4> QED BY <1>2, <4>1, <4>2, <4>3, <4>4, <4>5
    <3>11. QueueHolds'
      <4> HIDE DEF n, a, b, c, rest
      <4> QED BY <3>4, <3>8, <3>9, <3>10 DEF QueueHolds
    <3>12. Selected \subseteq Selected'
      BY <3>5
    <3> QED BY <1>1, <3>4, <3>5, <3>11, <3>12, QueueMoves
  <2> QED BY <2>1, <2>3, <2>4, <2>5, <2>6, Zenon
<1> QED BY <1>4, <1>5

\* The lazy queue chooses what adds most per token of all that fits.
LEMMA PopIsGreedy ==
  ASSUME SelectionInv, PopCandidate, Len(pick'.chosen) > Len(pick.chosen),
         NEW i \in RoomLeft, Fits(i)
  PROVE  ~Denser(Entry(i, Gain(i, pick.cover), 0),
                 Entry(Last(pick'.chosen), Gain(Last(pick'.chosen), pick.cover), 0))
<1>1. CandidatesHold /\ RowsHold /\ QueueHolds /\ pick.at = "facility"
  BY DEF SelectionInv, PopCandidate
<1>2. /\ pick \in Picks /\ pick.heap \in SUBSET Queued /\ pick.cover \in Covers
      /\ pick.chosen \in IdLists /\ Len(pick.chosen) \in Nat
  BY <1>1 DEF CandidatesHold, Picks, IdLists
<1>3. PICK e \in pick.heap : e.id = i
  BY <1>1 DEF QueueHolds
<1>4. GainOf(pick.rows, i, pick.cover) <= e.gain
  BY <1>1, <1>3 DEF QueueHolds
<1>5. PICK top \in pick.heap :
        /\ \A o \in pick.heap \ {top} : Precedes(top, o)
        /\ top.id \in Ids
        /\ LET now  == GainOf(pick.rows, top.id, pick.cover)
               rest == pick.heap \ {top}
           IN  \/ /\ ~Fits(top.id)
                  /\ pick' = [pick EXCEPT !.heap = rest]
               \/ /\ Fits(top.id)
                  /\ pick' = [pick EXCEPT !.heap = rest \cup {Entry(top.id, now, pick.epoch)}]
               \/ pick' = [pick EXCEPT !.heap = rest, !.at = "chosen"]
               \/ /\ Fits(top.id) /\ top.gain = now /\ top.epoch = pick.epoch
                  /\ pick' = [pick EXCEPT !.heap = rest, !.chosen = Append(pick.chosen, top.id),
                                          !.chars = pick.chars + Chars(top.id),
                                          !.tokens = pick.tokens + Tokens(Chars(top.id)),
                                          !.cover = Covered(pick.cover, top.id),
                                          !.epoch = pick.epoch + 1]
  BY <1>3, PopCases, Zenon
<1> DEFINE now  == GainOf(pick.rows, top.id, pick.cover)
           rest == pick.heap \ {top}
<1>6. /\ pick' # [pick EXCEPT !.heap = rest]
      /\ pick' # [pick EXCEPT !.heap = rest \cup {Entry(top.id, now, pick.epoch)}]
      /\ pick' # [pick EXCEPT !.heap = rest, !.at = "chosen"]
  <2> DEFINE heap == rest \cup {Entry(top.id, now, pick.epoch)}
  <2> HIDE DEF rest, heap
  <2>0. pick'.chosen # pick.chosen
    BY <1>2
  <2>1. pick' # [pick EXCEPT !.heap = rest] /\ pick' # [pick EXCEPT !.heap = rest, !.at = "chosen"]
    <3>1. [pick EXCEPT !.heap = rest].chosen = pick.chosen
      BY <1>2 DEF Picks
    <3>2. [pick EXCEPT !.heap = rest, !.at = "chosen"].chosen = pick.chosen
      BY <1>2 DEF Picks
    <3> QED BY <2>0, <3>1, <3>2
  <2>2. pick' # [pick EXCEPT !.heap = heap]
    BY <1>2 DEF Picks
  <2> QED BY <2>1, <2>2 DEF heap
<1>7. top.gain = now /\ pick'.chosen = Append(pick.chosen, top.id)
  <2>1. /\ top.gain = now
        /\ pick' = [pick EXCEPT !.heap = rest, !.chosen = Append(pick.chosen, top.id),
                                !.chars = pick.chars + Chars(top.id),
                                !.tokens = pick.tokens + Tokens(Chars(top.id)),
                                !.cover = Covered(pick.cover, top.id),
                                !.epoch = pick.epoch + 1]
    BY <1>5, <1>6, Zenon
  <2> HIDE DEF rest
  <2> QED BY <1>2, <2>1 DEF Picks
<1>8. Last(pick'.chosen) = top.id
  BY <1>2, <1>5, <1>7 DEF Last, IdLists
<1> DEFINE p == GainOf(pick.rows, i, pick.cover)
           x == Tokens(Chars(i))
           y == Tokens(Chars(top.id))
<1>9. /\ i \in Ids /\ p \in Nat /\ now \in Nat /\ x \in Nat /\ y \in Nat
      /\ e.gain \in Nat /\ e.id = i /\ p <= e.gain
      /\ Gain(i, pick.cover) = p /\ Gain(top.id, pick.cover) = now
  <2>1. i \in Ids /\ e.gain \in Nat
    BY <1>2, <1>3 DEF Queued
  <2> QED BY <1>2, <1>3, <1>4, <1>5, <2>1, GainIs, GainNat, CostNat
<1>10. ~Denser(e, top)
  <2>1. CASE e = top
    BY <1>7, <1>9, <2>1 DEF Denser
  <2>2. CASE e # top
    <3>1. Precedes(top, e)
      BY <1>5, <2>2
    <3>2. Denser(top, e) <=> now * x > e.gain * y
      BY <1>7, <1>9 DEF Denser
    <3>3. Denser(e, top) <=> e.gain * y > now * x
      BY <1>7, <1>9 DEF Denser
    <3> HIDE DEF now, x, y
    <3>4. now * x \in Nat /\ e.gain * y \in Nat
      <4>1. \A m, n \in Nat : m * n \in Nat
        OBVIOUS
      <4> QED BY <1>9, <4>1
    <3> QED BY <3>1, <3>2, <3>3, <3>4 DEF Precedes
  <2> QED BY <2>1, <2>2
<1>11. ~(e.gain * y > now * x)
  BY <1>7, <1>9, <1>10 DEF Denser
<1>12. ~(p * y > now * x)
  <2> HIDE DEF p, now, x, y
  <2>1. \A m, n, k \in Nat : m <= n => m * k <= n * k
    OBVIOUS
  <2>2. p * y <= e.gain * y
    BY <1>9, <2>1
  <2>3. p * y \in Nat /\ e.gain * y \in Nat /\ now * x \in Nat
    <3>1. \A m, n \in Nat : m * n \in Nat
      OBVIOUS
    <3> QED BY <1>9, <3>1
  <2> QED BY <1>11, <2>2, <2>3
<1> QED BY <1>8, <1>9, <1>12 DEF Denser, Entry

\* The queue is only worked on in its own steps, and each keeps the greedy rule.
LEMMA SelectionIsGreedy ==
  ASSUME SelectionInv, [SelectionNext]_selectionVars
  PROVE  pick.at = "facility" /\ Len(pick'.chosen) > Len(pick.chosen) =>
           LET best == Last(pick'.chosen)
           IN  \A i \in RoomLeft:
                 Fits(i) => ~Denser(Entry(i, Gain(i, pick.cover), 0),
                                    Entry(best, Gain(best, pick.cover), 0))
<1> SUFFICES ASSUME pick.at = "facility", Len(pick'.chosen) > Len(pick.chosen), NEW i \in RoomLeft, Fits(i)
             PROVE  ~Denser(Entry(i, Gain(i, pick.cover), 0),
                            Entry(Last(pick'.chosen), Gain(Last(pick'.chosen), pick.cover), 0))
  BY Zenon
<1>1. pick.chosen \in IdLists /\ Len(pick.chosen) \in Nat
  BY DEF SelectionInv, CandidatesHold, Picks, IdLists
<1>2. PopCandidate
  <2>1. CASE UNCHANGED selectionVars
    BY <1>1, <2>1 DEF selectionVars
  <2>2. CASE SelectionNext
    BY <2>2 DEF SelectionNext, RankCandidates, BoundCandidates, TakeMandatory, ChooseMode, TakeRelevant,
                FallBack, JudgeEvidence
  <2> QED BY <2>1, <2>2
<1> QED BY <1>2, PopIsGreedy

LEMMA SelectionNextFits == SelectionInv /\ [SelectionNext]_selectionVars => SelectionInv'
<1> SUFFICES ASSUME SelectionInv, [SelectionNext]_selectionVars PROVE SelectionInv'
  OBVIOUS
<1>1. CASE RankCandidates
  BY <1>1, RankKeeps
<1>2. CASE BoundCandidates
  BY <1>2, BoundKeeps
<1>3. CASE TakeMandatory
  BY <1>3, TakeMandatoryKeeps
<1>4. CASE ChooseMode
  BY <1>4, ChooseModeKeeps
<1>5. CASE TakeRelevant
  BY <1>5, TakeRelevantKeeps
<1>6. CASE PopCandidate
  BY <1>6, PopKeeps
<1>7. CASE FallBack
  BY <1>7, FallBackKeeps
<1>8. CASE JudgeEvidence
  BY <1>8, JudgeEvidenceKeeps
<1>9. CASE UNCHANGED selectionVars
  <2>1. UNCHANGED <<request, gathered, ranked, limits, pick, verdict>>
    BY <1>9 DEF selectionVars
  <2>2. CandidatesHold' /\ ChosenHolds' /\ RowsHold' /\ Selected' = Selected
    BY <2>1 DEF SelectionInv, CandidatesHold, ChosenHolds, RowsHold, Selected
  <2>3. Must' = Must /\ MandatorySources' = MandatorySources /\ (MustFits' <=> MustFits)
    BY <2>1 DEF Must, MandatorySources, MustFits
  <2>4. MandatoryHold'
    BY <2>1, <2>2, <2>3 DEF SelectionInv, MandatoryHold
  <2>5. QueueHolds'
    <3>1. RoomLeft' = RoomLeft /\ \A i \in RoomLeft : Fits(i)' <=> Fits(i)
      BY <2>1 DEF RoomLeft, Fits
    <3> QED BY <2>1, <3>1 DEF SelectionInv, QueueHolds
  <2>6. JudgedHolds'
    <3>1. Sufficient(Selected)' = Sufficient(Selected) /\ Accepted(Selected)' = Accepted(Selected)
      BY <2>1, <2>2 DEF Sufficient, Accepted, SufficiencyScore, CompleteEvidence, Origin
    <3> QED BY <2>1, <3>1 DEF SelectionInv, JudgedHolds
  <2> QED BY <2>2, <2>4, <2>5, <2>6 DEF SelectionInv
<1> QED BY <1>1, <1>2, <1>3, <1>4, <1>5, <1>6, <1>7, <1>8, <1>9 DEF SelectionNext

LEMMA SelectionInvIsSafe ==
  SelectionInv => SelectionTypeOK /\ WithinBudgets /\ RequiredEvidenceKept /\ SufficientAsSelected
<1> SUFFICES ASSUME SelectionInv
             PROVE  SelectionTypeOK /\ WithinBudgets /\ RequiredEvidenceKept /\ SufficientAsSelected
  OBVIOUS
<1>1. CandidatesHold /\ ChosenHolds /\ MandatoryHold /\ JudgedHolds
  BY DEF SelectionInv
<1>2. SelectionTypeOK
  <2>1. pick.at \in Places /\ pick.chosen \in IdLists
    BY <1>1 DEF CandidatesHold, Picks
  <2>2. Cardinality(Selected) = Len(pick.chosen)
    BY <1>1, <2>1, ListCount DEF ChosenHolds, Selected
  <2>3. Selected \subseteq ToSet(ranked)
    BY <1>1 DEF ChosenHolds
  <2>4. verdict \in {"none", "sufficient", "abstain", "requires_exploration"}
    BY <1>1 DEF JudgedHolds
  <2> QED BY <2>1, <2>2, <2>3, <2>4 DEF SelectionTypeOK, Places
<1>3. WithinBudgets
  BY <1>1 DEF ChosenHolds, CandidatesHold, WithinBudgets
<1>4. RequiredEvidenceKept
  <2> SUFFICES ASSUME pick.at \in {"judge", "done"}, CompleteEvidence(gathered), MustFits,
                      NEW pattern \in request.needs
               PROVE  pattern \in Proven(Selected)
    BY DEF RequiredEvidenceKept, MustFits, Must
  <2>1. PICK j \in gathered : EvidencePool[j].structural /\ EvidencePool[j].pattern = pattern
    BY DEF CompleteEvidence, Proven
  <2>2. ToSet(ranked) = gathered
    BY <1>1 DEF CandidatesHold
  <2>3. Source(j) \in MandatorySources
    BY <2>1, <2>2 DEF MandatorySources
  <2>4. j \in Must
    BY <1>1, <2>3 DEF MandatoryHold, Must
  <2>5. j \in Selected
    BY <1>1, <2>4 DEF MandatoryHold
  <2> QED BY <2>1, <2>5 DEF Proven
<1>5. SufficientAsSelected
  <2> SUFFICES ASSUME verdict = "sufficient"
               PROVE  /\ request.needs \subseteq Proven(Selected)
                      /\ request.gate =>
                           /\ \A i, j \in Selected:
                                Contradict(i, j) => {i, j} \cap {k \in Selected : ~Decided(k)} # {}
                           /\ request.routed # {} /\ "control" \notin request.routed =>
                                \A i \in Selected: EvidencePool[i].root \in request.routed
                           /\ \E i \in Selected: ~EvidencePool[i].stale
    BY Zenon DEF SufficientAsSelected
  <2>1. Sufficient(Selected) /\ (request.gate => Accepted(Selected))
    BY <1>1, Zenon DEF JudgedHolds
  <2>2. request.needs \subseteq Proven(Selected)
    BY <2>1, Zenon DEF Sufficient, CompleteEvidence
  <2>3. ASSUME Accepted(Selected), NEW i \in Selected, NEW j \in Selected, Contradict(i, j)
        PROVE  {i, j} \cap {k \in Selected : ~Decided(k)} # {}
    <3>1. ~Decided(i) \/ ~Decided(j)
      BY <2>3, Zenon DEF Accepted, Conflicting
    <3> QED BY <3>1, Zenon
  <2>4. ASSUME Accepted(Selected), request.routed # {}, "control" \notin request.routed, NEW i \in Selected
        PROVE  EvidencePool[i].root \in request.routed
    <3>1. Origin(i) \in request.routed
      BY <2>4, Zenon DEF Accepted
    <3> QED BY <2>4, <3>1 DEF Origin
  <2>5. ASSUME Accepted(Selected) PROVE \E i \in Selected: ~EvidencePool[i].stale
    BY <2>5, Zenon DEF Accepted
  <2> QED BY <2>1, <2>2, <2>3, <2>4, <2>5, Zenon
<1> QED BY <1>2, <1>3, <1>4, <1>5

\* What select_context chooses keeps to the budgets and loses no evidence that
\* a structural question needs while it fits; its lazy queue takes what the
\* greedy rule takes; and what is reported as sufficient is so as selected.
THEOREM SelectionIsSafe == SelectionSpec => SelectionSafety
<1>1. SelectionInv /\ [SelectionNext]_selectionVars =>
        [pick.at = "facility" /\ Len(pick'.chosen) > Len(pick.chosen) =>
           LET best == Last(pick'.chosen)
           IN  \A i \in RoomLeft:
                 Fits(i) => ~Denser(Entry(i, Gain(i, pick.cover), 0),
                                    Entry(best, Gain(best, pick.cover), 0))]_selectionVars
  BY SelectionIsGreedy
<1> QED BY SelectionInitFits, SelectionNextFits, SelectionInvIsSafe, <1>1, PTL
        DEF SelectionSpec, SelectionSafety, LazyIsGreedy
=============================================================================
