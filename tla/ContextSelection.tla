-------------------------- MODULE ContextSelection --------------------------
(***************************************************************************)
(* From gathered evidence to the evidence state of a retrieval: the second *)
(* half of gather_detailed_async (workflow_engine.py), select_context      *)
(* (context_selection.py), evaluate_sufficiency (retrieval_policy.py) and  *)
(* evaluate_selective_retrieval (selective_retrieval.py).                  *)
(***************************************************************************)
EXTENDS Integers, Sequences, FiniteSets, SequencesExt, FiniteSetsExt

CONSTANTS
    EvidencePool,  \* the evidence there is, in the order of the dedupe keys
    MaxGathered,   \* bound on the items one retrieval gathers
    QueryTerms,    \* tokens of the query
    Plans,         \* sets of structural patterns a query may require
    Routes,        \* sets of repositories the routing plan may select
    ContextChars,  \* values of the lane's character budget
    MinimumChars,  \* context.adaptive_budget.minimum_chars
    CharsPerToken, \* the token estimate of a text
    CandidateLimits \* values of max_selector_candidates

Ids == DOMAIN EvidencePool

ASSUME SelectionAssumption ==
    /\ Len(EvidencePool) \in Nat /\ Ids = 1..Len(EvidencePool)
    /\ \A i \in Ids : /\ EvidencePool[i].chars \in Nat \ {0}
                      /\ EvidencePool[i].relevance \in Nat
                      /\ IsFiniteSet(EvidencePool[i].terms)
    /\ MaxGathered \in Nat /\ ContextChars \subseteq Nat /\ MinimumChars \in Nat
    /\ CharsPerToken \in Nat \ {0} /\ CandidateLimits \subseteq Nat \ {0}

VARIABLES
    request,   \* what the caller and the trusted configuration fix
    gathered,  \* ids of the base and specialist items
    ranked,    \* the candidates, in the order _hybrid_rank gives them
    limits,    \* the adaptive character and token limits
    pick,      \* the state of select_context
    verdict    \* the evidence state reported

selectionVars == <<request, gathered, ranked, limits, pick, verdict>>

Tokens(chars) == (chars + CharsPerToken - 1) \div CharsPerToken
Source(i) == EvidencePool[i].source
Chars(i) == EvidencePool[i].chars
CharCost == [i \in Ids |-> Chars(i)]
TokenCost == [i \in Ids |-> Tokens(Chars(i))]

(* The sum of a cost over some of the evidence.                            *)
SumTo(S, cost) ==
    LET sum[n \in 0..Len(EvidencePool)] ==
          IF n = 0 THEN 0 ELSE sum[n - 1] + (IF n \in S THEN cost[n] ELSE 0)
    IN  sum

Total(S, cost) == SumTo(S, cost)[Len(EvidencePool)]

(* The elements of S one after the other; `before` holds the pairs of which *)
(* the first comes first.  When they order S there is just one arrangement. *)
Arranged(S, before) ==
    {s \in [1..Cardinality(S) -> S] :
        \A k, l \in 1..Cardinality(S) : k < l => <<s[k], s[l]>> \in before}

(* relevance * Jaccard, scaled so that unions of up to three terms divide. *)
Represents(target, by) ==
    LET a == EvidencePool[target].terms  b == EvidencePool[by].terms
    IN  IF a = {} \/ b = {} THEN 0
        ELSE (6 * EvidencePool[target].relevance * Cardinality(a \cap b)) \div Cardinality(a \cup b)

(***************************************************************************)
(* evaluate_sufficiency, in hundredths.                                    *)
(***************************************************************************)
Matched(ids) == QueryTerms \cap UNION {EvidencePool[i].terms : i \in ids}
Proven(ids) == {EvidencePool[i].pattern : i \in {j \in ids : EvidencePool[j].structural}}

CompleteEvidence(ids) == ids # {} /\ request.needs \subseteq Proven(ids)

Coverage(ids) == (100 * Cardinality(Matched(ids))) \div Cardinality(QueryTerms)

SufficiencyScore(ids) ==
    IF ids = {} THEN 0
    ELSE ((58 * Cardinality(Matched(ids))) \div Cardinality(QueryTerms))
           + (17 * Min({2, Cardinality({Source(i) : i \in ids})})) \div 2
           + (IF \E i \in ids: EvidencePool[i].exact THEN 15 ELSE 0)
           + (IF CompleteEvidence(ids) THEN 10 ELSE 0)

Sufficient(ids) == SufficiencyScore(ids) >= 72 /\ CompleteEvidence(ids)

(* _adaptive_char_limit and _adaptive_token_limit: the better the evidence *)
(* the smaller the share of the budget it is given.                        *)
Share(score) == IF score >= 86 THEN 45 ELSE IF score >= 72 THEN 70 ELSE 100

AdaptiveLimits(score) ==
    [chars  |-> Min({request.chars, Max({MinimumChars, (request.chars * Share(score)) \div 100})}),
     tokens |-> Max({1, (Tokens(request.chars) * Share(score)) \div 100})]

(***************************************************************************)
(* The retrieval.                                                          *)
(***************************************************************************)
Unpicked == [at |-> "rank", rows |-> <<>>, mandatory |-> {}, next |-> 1, chosen |-> <<>>,
             chars |-> 0, tokens |-> 0, heap |-> {}, cover |-> [i \in Ids |-> 0],
             epoch |-> 0, mode |-> "none"]

SelectionRequests ==
    [chars: ContextChars, needs: Plans, routed: Routes, cap: CandidateLimits, gate: BOOLEAN]
SelectionStart(asked, found) ==
    /\ request = asked
    /\ gathered = found
    /\ ranked = <<>>
    /\ limits = [chars |-> 0, tokens |-> 0]
    /\ pick = Unpicked
    /\ verdict = "none"
SelectionInit ==
    \E asked \in SelectionRequests, n \in 0..MaxGathered:
        \E found \in kSubset(n, Ids): SelectionStart(asked, found)

(* _hybrid_rank: base evidence keeps its order; once specialists have      *)
(* answered, the fused ranking decides.  Which order that is depends on    *)
(* scores this model leaves open.                                          *)
RankCandidates ==
    /\ pick.at = "rank"
    /\ \E order \in SetToSeqs(gathered): ranked' = order
    /\ limits' = AdaptiveLimits(SufficiencyScore(gathered))
    /\ pick' = [pick EXCEPT !.at = "bound"]
    /\ UNCHANGED <<request, gathered, verdict>>

\* Mutant: no source is mandatory.
MandatorySources_None == {}

(* The sources of structurally valid candidates that answer the plan.      *)
MandatorySources ==
    IF request.needs = {} THEN {}
    ELSE {Source(i) : i \in {j \in ToSet(ranked) :
                                EvidencePool[j].structural /\ EvidencePool[j].pattern \in request.needs}}

(* The order of _bounded and of the relevance mode.                        *)
Before(i, j) ==
    \/ EvidencePool[i].relevance > EvidencePool[j].relevance
    \/ /\ EvidencePool[i].relevance = EvidencePool[j].relevance
       /\ \/ Tokens(Chars(i)) < Tokens(Chars(j))
          \/ Tokens(Chars(i)) = Tokens(Chars(j)) /\ i < j

ByRelevance(S) == Arranged(S, {p \in S \X S : Before(p[1], p[2])})

AsIn(rows, S) ==
    Arranged(S, {p \in S \X S : \E k, l \in DOMAIN rows : k < l /\ p = <<rows[k], rows[l]>>})

FirstOnes(rows, n) == SubSeq(rows, 1, Min({Len(rows), n}))

\* Mutant: mandatory rows are ranked with the rest once more.
Bounded_Again(rows, sources) ==
    IF Len(rows) <= request.cap THEN {rows}
    ELSE LET must == {i \in ToSet(rows) : Source(i) \in sources}
             room == Max({0, request.cap - Cardinality(must)})
         IN  {first \o FirstOnes(others, room) :
                 first \in AsIn(rows, must), others \in ByRelevance(ToSet(rows))}

(* _bounded: mandatory rows first, the rest by relevance.                  *)
Bounded(rows, sources) ==
    IF Len(rows) <= request.cap THEN {rows}
    ELSE LET must == {i \in ToSet(rows) : Source(i) \in sources}
             room == Max({0, request.cap - Cardinality(must)})
         IN  {first \o FirstOnes(others, room) :
                 first \in AsIn(rows, must), others \in ByRelevance(ToSet(rows) \ must)}

BoundCandidates ==
    /\ pick.at = "bound"
    /\ \E rows \in Bounded(ranked, MandatorySources):
         pick' = [pick EXCEPT !.rows = rows, !.mandatory = MandatorySources,
                    !.at = IF rows = <<>> \/ limits.chars = 0 THEN "chosen" ELSE "mandatory"]
    /\ UNCHANGED <<request, gathered, ranked, limits, verdict>>

\* Mutant: the characters are counted, the tokens are not.
Fits_Chars(i) == pick.chars + Chars(i) <= limits.chars

Fits(i) ==
    /\ pick.chars + Chars(i) <= limits.chars
    /\ pick.tokens + Tokens(Chars(i)) <= limits.tokens

Add(p, i) == [p EXCEPT !.chosen = Append(@, i), !.chars = @ + Chars(i),
                       !.tokens = @ + Tokens(Chars(i))]

TakeMandatory ==
    /\ pick.at = "mandatory" /\ pick.next <= Len(pick.rows)
    /\ LET i == pick.rows[pick.next]
           p == [pick EXCEPT !.next = @ + 1]
       IN  pick' = IF Source(i) \in pick.mandatory /\ Fits(i) THEN Add(p, i) ELSE p
    /\ UNCHANGED <<request, gathered, ranked, limits, verdict>>

RoomLeft == ToSet(pick.rows) \ ToSet(pick.chosen)

TotalCost == Total(ToSet(pick.rows), TokenCost)

Gain(i, cover) ==
    Total(ToSet(pick.rows), [t \in Ids |-> Max({0, Represents(t, i) - cover[t]})])

Covered(cover, i) ==
    [t \in Ids |-> IF t \in ToSet(pick.rows) THEN Max({cover[t], Represents(t, i)}) ELSE cover[t]]

(* What the first of the chosen cover.                                     *)
CoverTo(chosen) ==
    LET cover[n \in 0..Len(chosen)] ==
          IF n = 0 THEN [i \in Ids |-> 0] ELSE Covered(cover[n - 1], chosen[n])
    IN  cover

Entry(i, gain, epoch) == [id |-> i, gain |-> gain, epoch |-> epoch]

(* Gain per token, compared without fractions.                             *)
Denser(a, b) == a.gain * Tokens(Chars(b.id)) > b.gain * Tokens(Chars(a.id))
HeapTop == CHOOSE e \in pick.heap: \A o \in pick.heap \ {e}: Denser(e, o) \/ (~Denser(o, e) /\ e.id < o.id)

(* A budget of at most three tenths of what there is goes by relevance.    *)
ChooseMode ==
    /\ pick.at = "mandatory" /\ pick.next > Len(pick.rows)
    /\ IF 10 * limits.tokens <= 3 * TotalCost
       THEN \E rows \in ByRelevance(RoomLeft):
              pick' = [pick EXCEPT !.at = "relevance", !.mode = "relevance", !.rows = rows, !.next = 1]
       ELSE LET start == CoverTo(pick.chosen)[Len(pick.chosen)]
            IN  pick' = [pick EXCEPT !.at = "facility", !.mode = "facility", !.cover = start,
                           !.heap = {Entry(i, Gain(i, start), 0) : i \in RoomLeft}]
    /\ UNCHANGED <<request, gathered, ranked, limits, verdict>>

TakeRelevant ==
    /\ pick.at = "relevance"
    /\ IF pick.next > Len(pick.rows) THEN pick' = [pick EXCEPT !.at = "chosen"]
       ELSE LET i == pick.rows[pick.next]
                p == [pick EXCEPT !.next = @ + 1]
            IN  pick' = IF Fits(i) THEN Add(p, i) ELSE p
    /\ UNCHANGED <<request, gathered, ranked, limits, verdict>>

\* Mutant: a bound computed before the last choice is taken as it is.
PopCandidate_Stale ==
    /\ pick.at = "facility"
    /\ IF pick.heap = {} THEN pick' = [pick EXCEPT !.at = "chosen"]
       ELSE LET top  == HeapTop
                rest == [pick EXCEPT !.heap = @ \ {top}]
            IN  IF ~Fits(top.id) THEN pick' = rest
                ELSE IF top.gain <= 0 THEN pick' = [rest EXCEPT !.at = "chosen"]
                ELSE pick' = [Add(rest, top.id) EXCEPT !.cover = Covered(@, top.id), !.epoch = @ + 1]
    /\ UNCHANGED <<request, gathered, ranked, limits, verdict>>

(* What becomes of the popped entry: out of budget it is dropped, out of   *)
(* date it goes back with its gain of now, otherwise it is chosen.         *)
PopCandidate ==
    /\ pick.at = "facility"
    /\ IF pick.heap = {} THEN pick' = [pick EXCEPT !.at = "chosen"]
       ELSE LET top  == HeapTop
                now  == Gain(top.id, pick.cover)
                rest == [pick EXCEPT !.heap = @ \ {top}]
            IN  IF ~Fits(top.id) THEN pick' = rest
                ELSE IF top.epoch # pick.epoch \/ now # top.gain
                  THEN pick' = [rest EXCEPT !.heap = @ \cup {Entry(top.id, now, pick.epoch)}]
                ELSE IF now <= 0 THEN pick' = [rest EXCEPT !.at = "chosen"]
                ELSE pick' = [Add(rest, top.id) EXCEPT !.cover = Covered(@, top.id), !.epoch = @ + 1]
    /\ UNCHANGED <<request, gathered, ranked, limits, verdict>>

(* Nothing chosen: _hard_cap cuts the candidates, in their order, to the   *)
(* character limit, and those whose tokens no longer fit are left out.     *)
CutTo(acc, i) ==
    LET text   == Min({Chars(i), limits.chars - acc.cap})
        tokens == Tokens(text)
        cut    == [acc EXCEPT !.cap = @ + text]
    IN  IF text = 0 THEN acc
        ELSE IF acc.tokens + tokens > limits.tokens THEN cut
        ELSE [cut EXCEPT !.chosen = Append(@, i), !.chars = @ + text, !.tokens = @ + tokens]

HardCapTo(rows) ==
    LET acc[n \in 0..Len(rows)] ==
          IF n = 0 THEN [cap |-> 0, chosen |-> <<>>, chars |-> 0, tokens |-> 0]
          ELSE CutTo(acc[n - 1], rows[n])
    IN  acc

HardCap == HardCapTo(ranked)[Len(ranked)]

FallBack ==
    /\ pick.at = "chosen"
    /\ pick' = IF pick.chosen # <<>> \/ ranked = <<>> THEN [pick EXCEPT !.at = "judge"]
               ELSE [pick EXCEPT !.at = "judge", !.mode = "hard_cap", !.chosen = HardCap.chosen,
                       !.chars = HardCap.chars, !.tokens = HardCap.tokens]
    /\ UNCHANGED <<request, gathered, ranked, limits, verdict>>

Selected == ToSet(pick.chosen)

(* _structural_conflict: graph items count from "corroborated" on.         *)
Decided(i) ==
    /\ EvidencePool[i].structural
    /\ Source(i) = "code_review_graph" => EvidencePool[i].level \in {"corroborated", "verified"}

Contradict(i, j) ==
    /\ EvidencePool[i].pattern = EvidencePool[j].pattern /\ EvidencePool[i].anchor = EvidencePool[j].anchor
    /\ EvidencePool[i].absent # EvidencePool[j].absent

Conflicting(ids) == \E i, j \in ids: Decided(i) /\ Decided(j) /\ Contradict(i, j)

(* The envelope's repository: the routed root, the control root otherwise. *)
Origin(i) == IF EvidencePool[i].root \in request.routed \cup {"control"} THEN EvidencePool[i].root ELSE "control"

(* evaluate_selective_retrieval *)
Accepted(ids) ==
    /\ ids # {}
    /\ request.routed # {} => \A i \in ids: Origin(i) \in request.routed
    /\ ~Conflicting(ids)
    /\ \E i \in ids: ~EvidencePool[i].stale
    /\ Coverage(ids) >= 15
    /\ Sufficient(ids)

(* _evidence_state: a read-only lane abstains, the others explore further. *)
EvidenceStates(sufficient) ==
    IF sufficient THEN {"sufficient"} ELSE {"abstain", "requires_exploration"}

\* Mutant: the candidates are judged, not what was selected of them.
JudgeEvidence_Candidates ==
    /\ pick.at = "judge"
    /\ verdict' \in EvidenceStates(Sufficient(gathered) /\ (Accepted(gathered) \/ ~request.gate))
    /\ pick' = [pick EXCEPT !.at = "done"]
    /\ UNCHANGED <<request, gathered, ranked, limits>>

JudgeEvidence ==
    /\ pick.at = "judge"
    /\ verdict' \in EvidenceStates(Sufficient(Selected) /\ (Accepted(Selected) \/ ~request.gate))
    /\ pick' = [pick EXCEPT !.at = "done"]
    /\ UNCHANGED <<request, gathered, ranked, limits>>

SelectionNext ==
    \/ RankCandidates \/ BoundCandidates \/ TakeMandatory \/ ChooseMode
    \/ TakeRelevant \/ PopCandidate \/ FallBack \/ JudgeEvidence

SelectionSpec == SelectionInit /\ [][SelectionNext]_selectionVars

-----------------------------------------------------------------------------
(* The type of the state; nothing is chosen twice, and what is chosen was  *)
(* among the candidates.                                                   *)
SelectionTypeOK ==
    /\ pick.at \in {"rank", "bound", "mandatory", "relevance", "facility", "chosen", "judge", "done"}
    /\ verdict \in {"none", "sufficient", "abstain", "requires_exploration"}
    /\ Cardinality(Selected) = Len(pick.chosen)
    /\ Selected \subseteq ToSet(ranked)

(* At no step does the selection hold more characters or more tokens than  *)
(* the adaptive limits, nor these more than the lane's budget -- by        *)
(* whichever of the selector's modes, or its fallback, it was made.        *)
WithinBudgets ==
    pick.at # "rank" =>
        /\ pick.chars <= limits.chars /\ pick.tokens <= limits.tokens
        /\ limits.chars <= request.chars

(* The lazy greedy selection is the greedy one: what it adds next is, of   *)
(* all the rows left that fit, the one that adds most coverage per token.  *)
LazyIsGreedy ==
    [][pick.at = "facility" /\ Len(pick'.chosen) > Len(pick.chosen) =>
         LET best == Last(pick'.chosen)
         IN  \A i \in RoomLeft:
               Fits(i) => ~Denser(Entry(i, Gain(i, pick.cover), 0),
                                  Entry(best, Gain(best, pick.cover), 0))]_selectionVars

(* When the candidates answer every structural pattern of the query, and   *)
(* the items of the sources that do fit the limits together, the selection *)
(* still answers every pattern: neither the candidate bound, nor a tight   *)
(* budget, nor a small gain loses the required evidence.                   *)
RequiredEvidenceKept ==
    LET must == {i \in gathered : Source(i) \in pick.mandatory}
    IN  /\ pick.at \in {"judge", "done"}
        /\ CompleteEvidence(gathered)
        /\ Total(must, CharCost) <= limits.chars /\ Total(must, TokenCost) <= limits.tokens
        => request.needs \subseteq Proven(Selected)

(* Evidence reported as sufficient is so as it was selected: it answers    *)
(* every required pattern, and with the gate on nothing in it contradicts, *)
(* or comes from a repository outside the plan, and not all of it is old.  *)
SufficientAsSelected ==
    verdict = "sufficient" =>
        /\ request.needs \subseteq Proven(Selected)
        /\ request.gate =>
             /\ \A i, j \in Selected:
                  Contradict(i, j) => {i, j} \cap {k \in Selected : ~Decided(k)} # {}
             /\ request.routed # {} /\ "control" \notin request.routed =>
                  \A i \in Selected: EvidencePool[i].root \in request.routed
             /\ \E i \in Selected: ~EvidencePool[i].stale

\* select_context keeps to its budgets, drops no evidence a structural question
\* needs while it fits, takes with its lazy queue what the greedy rule would, and
\* what is reported as sufficient is so as it was selected.
SelectionSafety ==
  /\ [](SelectionTypeOK /\ WithinBudgets /\ RequiredEvidenceKept /\ SufficientAsSelected)
  /\ LazyIsGreedy
=============================================================================
