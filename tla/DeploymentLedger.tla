-------------------------- MODULE DeploymentLedger --------------------------
(***************************************************************************)
(* The abstract rollout of one retrieval policy: what a deployment state   *)
(* file promises its readers, whoever writes it.  A rollout is created at  *)
(* stage "approved", climbs the canary ladder one rung at a time, may be   *)
(* rolled back from every other stage, and never leaves "rolled_back".     *)
(* Signatures, traffic fractions, timestamps and actor names are left out: *)
(* a state that does not verify is refused by every caller.                *)
(***************************************************************************)
EXTENDS Integers, Sequences

DEPLOYMENT_STAGES == {"approved", "canary_1", "canary_5", "canary_10",
                      "bounded", "rolled_back"}
LIVE_STAGES == {"canary_1", "canary_5", "canary_10", "bounded"}
NEXT_STAGE == [approved  |-> "canary_1",
               canary_1  |-> "canary_5",
               canary_5  |-> "canary_10",
               canary_10 |-> "bounded"]

HistoryEntry == [generation : Nat, from : DEPLOYMENT_STAGES \cup {"shadow"},
                 to : DEPLOYMENT_STAGES]
RolloutState == [stage : DEPLOYMENT_STAGES \cup {"absent"}, generation : Nat,
                 history : Seq(HistoryEntry)]

\* No state file.
Absent == [stage |-> "absent", generation |-> 0, history |-> << >>]

\* What create_deployment_state signs once the shadow gate let the policy in.
ApprovedState ==
  [stage |-> "approved", generation |-> 1,
   history |-> << [generation |-> 1, from |-> "shadow", to |-> "approved"] >>]

\* May transition_deployment_state take a rollout from one stage to another
\* (the guardrail report aside)?
MayFollow(current, target) ==
  \/ target = "rolled_back" /\ current # "rolled_back"
  \/ current \in DOMAIN NEXT_STAGE /\ target = NEXT_STAGE[current]

\* The successor of s that transition_deployment_state signs.
Advance(s, target) ==
  [stage |-> target, generation |-> s.generation + 1,
   history |-> Append(s.history, [generation |-> s.generation + 1,
                                  from |-> s.stage, to |-> target])]

\* The signed history replays the ladder: one entry per generation, from the
\* approval on, each an allowed transition out of the stage the previous one
\* reached, and the stage of the rollout is where the last one ended.
HistoryReplays(s) ==
  \/ s = Absent
  \/ /\ s.stage \in DEPLOYMENT_STAGES
     /\ s.generation = Len(s.history)
     /\ s.generation >= 1
     /\ s.history[1] = ApprovedState.history[1]
     /\ s.history[s.generation].to = s.stage
     /\ \A i \in 1..s.generation : s.history[i].generation = i
     /\ \A i \in 2..s.generation :
          /\ s.history[i].from = s.history[i - 1].to
          /\ MayFollow(s.history[i].from, s.history[i].to)

\* t is what one call may publish in place of s.
IsSuccessor(s, t) ==
  \/ s = Absent /\ t = ApprovedState
  \/ /\ s # Absent
     /\ \E target \in DEPLOYMENT_STAGES :
          MayFollow(s.stage, target) /\ t = Advance(s, target)
-----------------------------------------------------------------------------
VARIABLE state

\* A rollout may be watched from any point of its life.
Init == state \in RolloutState /\ HistoryReplays(state)

\* Creation, or one transition.
Next == IsSuccessor(state, state')

Spec == Init /\ [][Next]_state
=============================================================================
