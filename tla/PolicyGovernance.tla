-------------------------- MODULE PolicyGovernance --------------------------
(***************************************************************************)
(* How a contextual retrieval policy is learned and judged: a report fits  *)
(* a policy on the development half of the verified learning records and   *)
(* evaluates it on the other half, a signed manifest freezes it with the   *)
(* time of the newest record it rests on, and a shadow evaluation judges   *)
(* the manifest on records that are newer.  Records keep arriving, some    *)
(* of them stamped before others that were written earlier, and manifests  *)
(* are files that are edited.                                              *)
(*                                                                         *)
(* There is one context and one arm besides the baseline, each arm that a  *)
(* record supports had the same propensity, and a confidence bound clears  *)
(* its margin or not as it likes, unless the estimate itself does not.     *)
(***************************************************************************)
EXTENDS Integers, Sequences, FiniteSets

CONSTANTS
  RowShapes,    \* what records there are: [risk, arm, support, reward, half, verified]
  MaxRows,      \* records
  MaxTime,      \* the clock
  MinDirect,    \* minimum_direct_exposures
  MinHoldout,   \* minimum_holdout_events, and minimum_new_events of the shadow
  MaxWeight     \* max_importance_weight

ASSUME GovernanceAssumption ==
  /\ MaxRows \in Nat /\ MaxTime \in Nat \ {0}
  /\ MinDirect \in Nat \ {0} /\ MinHoldout \in Nat \ {0} /\ MaxWeight \in Nat \ {0}

VARIABLES
  clock,
  records,  \* the learning records, oldest write first: [shape, at]
  report,   \* the last report, if it is eligible for a shadow: a set of at most one
  manifest, \* the manifest file, likewise
  gate      \* the last shadow evaluation of this manifest, likewise

governanceVars == <<clock, records, report, manifest, gate>>

Arms == {"baseline", "alternative"}
RowIds == DOMAIN records
Shape(i) == records[i].shape

GovernanceInit ==
  clock = 1 /\ records = <<>> /\ report = {} /\ manifest = {} /\ gate = {}

PassTime ==
  /\ clock < MaxTime /\ clock' = clock + 1
  /\ UNCHANGED <<records, report, manifest, gate>>

\* record_outcome of the learning records; its stamp may be older than that of
\* one written before.
RecordOutcome ==
  /\ Len(records) < MaxRows
  /\ \E shape \in RowShapes, at \in 1..clock : records' = Append(records, [shape |-> shape, at |-> at])
  /\ UNCHANGED <<clock, report, manifest, gate>>

-----------------------------------------------------------------------------
(* contextual_policy.py. *)

\* _verified_feature_rows.
UsableRow(shape) == shape.verified /\ shape.arm \in shape.support
Usable == {i \in RowIds : UsableRow(Shape(i))}

\* _split_rows: by a hash of the decision's identity.
Half(rows, half) == {i \in rows : Shape(i).half = half}

Low(rows) == {i \in rows : Shape(i).risk = "low"}
Chose(rows, arm) == {i \in rows : Shape(i).arm = arm}
Rewards(rows) == Cardinality({i \in rows : Shape(i).reward = 1})

\* fit_direct_model and predict_model_value: the mean of an arm, or of all
\* rows when nothing chose it, as a numerator and a denominator.
Estimate(rows, arm) ==
  LET of == IF Chose(rows, arm) # {} THEN Chose(rows, arm) ELSE rows
  IN [sum |-> Rewards(of), n |-> Cardinality(of)]
Better(x, y) == x.sum * y.n > y.sum * x.n

\* Mutant: an estimate is enough.
Supported_Estimated(rows) == TRUE

\* An arm needs direct exposures of low risk.
Supported(rows) == Cardinality(Chose(Low(rows), "alternative")) >= MinDirect

\* build_context_policy_map: the arm of the one context, if it has any rows.
PolicyMap(rows) ==
  IF Low(rows) = {} THEN {}
  ELSE IF Supported(rows) /\ Better(Estimate(rows, "alternative"), Estimate(rows, "baseline"))
    THEN {"alternative"}
  ELSE {"baseline"}

Requested(policy) == IF policy = {} THEN "baseline" ELSE CHOOSE arm \in Arms : policy = {arm}

\* target_action_for_row: the baseline unless the policy's arm had a chance.
TargetAction(shape, policy) ==
  IF shape.risk = "low" /\ Requested(policy) \in shape.support THEN Requested(policy) ELSE "baseline"

DirectTargets(rows, policy) ==
  {i \in rows : Shape(i).arm = TargetAction(Shape(i), policy) /\ Shape(i).arm # "baseline"}

\* evaluate_context_policy_dr: a difference to the baseline is estimated only
\* from rows whose target is another arm.
RewardMayClear(rows, policy) == \E i \in rows : TargetAction(Shape(i), policy) # "baseline"

\* _evidence_cutoff.
\* Mutant: the cutoff is that of the development half.
EvidenceCutoff_Development(rows) ==
  LET dev == Half(rows, "development") IN
  IF dev = {} THEN 0 ELSE CHOOSE t \in {records[i].at : i \in dev} : \A i \in dev : records[i].at <= t

EvidenceCutoff(rows) ==
  IF rows = {} THEN 0 ELSE CHOOSE t \in {records[i].at : i \in rows} : \A i \in rows : records[i].at <= t

\* The blockers of build_contextual_policy_report.
Promotable(development, holdout, policy, clears) ==
  /\ policy = {"alternative"}
  /\ Cardinality(holdout) >= MinHoldout
  /\ Cardinality(DirectTargets(holdout, policy)) >= MinDirect
  /\ clears

BuildReport ==
  /\ \E clears \in BOOLEAN :
       LET development == Half(Usable, "development")
           holdout == Half(Usable, "holdout")
           policy == PolicyMap(development)
       IN /\ clears => RewardMayClear(holdout, policy)
          /\ report' = IF Promotable(development, holdout, policy, clears)
                          THEN {[rows |-> Usable, policy |-> policy, cutoff |-> EvidenceCutoff(Usable)]}
                        ELSE {}
  /\ UNCHANGED <<clock, records, manifest, gate>>

-----------------------------------------------------------------------------
(* policy_manifest.py. *)

\* create_policy_manifest.  The content is what is signed; its identity covers
\* the policy, the cutoff and the report, not the models.
CreateManifest ==
  /\ \E r \in report :
       /\ r.policy # {} /\ r.cutoff # 0
       /\ LET identity == [policy |-> r.policy, cutoff |-> r.cutoff, rows |-> r.rows]
              content == [policy |-> r.policy, cutoff |-> r.cutoff, models |-> "fitted",
                          status |-> "shadow_only"]
          IN manifest' = {[identity |-> identity, content |-> content, signed |-> content]}
  /\ gate' = {}
  /\ UNCHANGED <<clock, records, report>>

\* Someone edits the file.
EditManifest ==
  /\ \E m \in manifest :
       \E content \in {[m.content EXCEPT !.policy = {"baseline"}], [m.content EXCEPT !.cutoff = 1],
                       [m.content EXCEPT !.models = "edited"], [m.content EXCEPT !.status = "active"]} :
         manifest' = {[m EXCEPT !.content = content]}
  /\ gate' = {}
  /\ UNCHANGED <<clock, records, report>>

\* Mutant: the identity is checked and the signature is not.
VerifyManifest_IdentityOnly(m, key) ==
  /\ m.content.status = "shadow_only" /\ key # "none"
  /\ m.identity.policy = m.content.policy /\ m.identity.cutoff = m.content.cutoff

\* verify_policy_manifest: the identity, the signature with the caller's key,
\* and what a shadow manifest may say.
VerifyManifest(m, key) ==
  /\ m.content.status = "shadow_only"
  /\ m.identity.policy = m.content.policy /\ m.identity.cutoff = m.content.cutoff
  /\ key = "own" /\ m.content = m.signed

-----------------------------------------------------------------------------
(* shadow_policy.py. *)

\* Mutant: the instant of the cutoff counts as new.
PostCutoff_FromCutoff(cutoff) == {i \in Usable : records[i].at >= cutoff}

\* _verified_post_cutoff_rows.
PostCutoff(cutoff) == {i \in Usable : records[i].at > cutoff}

\* desired_manifest_action: what the manifest asks for, whatever the record
\* supports.
DesiredAction(shape, m) ==
  IF shape.risk = "low" THEN Requested(m.content.policy) ELSE "baseline"

\* Mutant: every record says something of every target.
SupportedForTarget_Any(shape, target) == TRUE

\* _supported_for_target.
SupportedForTarget(shape, target) == target \in shape.support

Weight(shape) == Cardinality(shape.support)
WeightViolation(shape, target) == shape.arm \in {target, "baseline"} /\ Weight(shape) > MaxWeight

\* _sequential_reward_score.
Score(shape, target) ==
  (IF shape.arm = target THEN Weight(shape) * shape.reward ELSE 0)
    - (IF shape.arm = "baseline" THEN Weight(shape) * shape.reward ELSE 0)

SumOver(rows, f(_)) ==
  LET sum[s \in SUBSET rows] == IF s = {} THEN 0 ELSE LET i == CHOOSE i \in s : TRUE IN f(i) + sum[s \ {i}]
  IN sum[rows]

\* evaluate_shadow_policy: the lower bound lies below the mean of the scores.
EvaluateShadow ==
  /\ \E m \in manifest, key \in {"own", "other"}, clears \in BOOLEAN :
       LET fresh == PostCutoff(m.content.cutoff)
           target(i) == DesiredAction(Shape(i), m)
           supported == {i \in fresh : SupportedForTarget(Shape(i), target(i))}
           scored == {i \in supported : ~WeightViolation(Shape(i), target(i))}
           score(i) == Score(Shape(i), target(i))
       IN /\ clears => SumOver(scored, score) > 0
          /\ gate' = {[rows |-> scored,
                       eligible |-> /\ VerifyManifest(m, key)
                                    /\ Cardinality(fresh) >= MinHoldout
                                    /\ supported = fresh /\ scored = supported
                                    /\ clears]}
  /\ UNCHANGED <<clock, records, report, manifest>>

GovernanceNext ==
  \/ PassTime \/ RecordOutcome \/ BuildReport
  \/ CreateManifest \/ EditManifest \/ EvaluateShadow

GovernanceSpec == GovernanceInit /\ [][GovernanceNext]_governanceVars

-----------------------------------------------------------------------------
(* Properties. *)

GovernanceTypeOK ==
  /\ clock \in 1..MaxTime /\ Len(records) <= MaxRows
  /\ \A r \in report : r.rows \subseteq RowIds /\ r.policy \in {{}, {"baseline"}, {"alternative"}}
                       /\ \A i \in r.rows : records[i].at <= r.cutoff
  /\ \A m \in manifest : m.identity.policy = {"alternative"}
  /\ \A g \in gate : g.rows \subseteq RowIds

\* A policy is judged on evidence it has not seen: no record that the report
\* learned from or held out counts in a shadow evaluation that recommends its
\* manifest, in whatever order the records were stamped and written.
ShadowEvidenceIsUnseen ==
  \A g \in gate, m \in manifest : g.eligible => g.rows \cap m.identity.rows = {}

\* A recommendation is of a manifest as it was created.
RecommendedAsSigned ==
  \A g \in gate, m \in manifest : g.eligible =>
    /\ m.content.policy = m.identity.policy /\ m.content.cutoff = m.identity.cutoff
    /\ m.content.models = "fitted" /\ m.content.status = "shadow_only"

\* The two accounts of one shadow evaluation, the sequence of scores and the
\* doubly robust estimate, take the same action for every record they use,
\* although only one of them asks for the record's propensities.
AccountsAgree ==
  \A g \in gate, m \in manifest : \A i \in g.rows :
    DesiredAction(Shape(i), m) = TargetAction(Shape(i), m.content.policy)

\* A manifest's arm was taken in low risk records of the development half and
\* again in the half that was held out, and did better there than the baseline
\* in the former.
ManifestHasExposures ==
  \A m \in manifest :
    /\ Cardinality(Chose(Low(Half(m.identity.rows, "development")), "alternative")) >= MinDirect
    /\ Cardinality(DirectTargets(Half(m.identity.rows, "holdout"), m.identity.policy)) >= MinDirect

\* A manifest is recommended from as it was signed, on contexts that saw the
\* candidate arm, and judged only by records it was not fitted on, counted as the
\* report counts them (contextual_policy.py, policy_manifest.py, shadow_policy.py).
GovernanceSafety ==
  GovernanceTypeOK /\ ShadowEvidenceIsUnseen /\ RecommendedAsSigned /\ AccountsAgree /\ ManifestHasExposures
=============================================================================
