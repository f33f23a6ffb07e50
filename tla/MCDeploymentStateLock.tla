----------------------- MODULE MCDeploymentStateLock ------------------------
(* Small instances of DeploymentStateLock. *)
EXTENDS DeploymentStateLock, TLC

CONSTANTS p1, p2, p3, h1, h2

Climb1 == L!Advance(L!ApprovedState, "canary_1")
Climb2 == L!Advance(Climb1, "canary_5")

\* No file yet, and the last rung.
StartAtTheEnds == {L!Absent, L!Advance(L!Advance(Climb2, "canary_10"), "bounded")}
StartCanary == {Climb1}

\* The report of the first canary, one of a later generation, an unsafe one
\* and one of another policy.
SampleReports ==
  {[state_generation |-> 2, stage |-> "canary_1", own_policy |-> TRUE,
    safe_to_advance |-> TRUE],
   [state_generation |-> 3, stage |-> "canary_5", own_policy |-> TRUE,
    safe_to_advance |-> TRUE],
   [state_generation |-> 2, stage |-> "canary_1", own_policy |-> TRUE,
    safe_to_advance |-> FALSE],
   [state_generation |-> 2, stage |-> "canary_1", own_policy |-> FALSE,
    safe_to_advance |-> TRUE]}

\* What the first canary is promoted on, and what it is refused on.
CanaryReports == {r \in SampleReports : r.own_policy /\ r.state_generation = 2}

TwoProcs == {p1, p2}
ThreeProcs == {p1, p2, p3}
OneHost2 == [p \in TwoProcs |-> h1]
TwoHosts2 == [p \in TwoProcs |-> IF p = p2 THEN h2 ELSE h1]
OneHost3 == [p \in ThreeProcs |-> h1]
TwoHosts3 == [p \in ThreeProcs |-> IF p = p3 THEN h2 ELSE h1]

SymmetryOneHost == Permutations(ThreeProcs)
=============================================================================
