------------------------ MODULE MCDeploymentRuntime -------------------------
(* Small instances of DeploymentRuntime. *)
EXTENDS DeploymentRuntime, TLC

CONSTANTS r1, r2

OneRun == {r1}
TwoRuns == {r1, r2}

\* Budgets in the shape of the defaults: growing, further apart than Runs.
SmallExposureBudget == [canary_1 |-> 1, canary_5 |-> 3, canary_10 |-> 5, bounded |-> 7]
SmallFailureBudget == [canary_1 |-> 0, canary_5 |-> 1, canary_10 |-> 1, bounded |-> 2]

Start == {L!Absent}
StartCanary == {L!Advance(L!ApprovedState, "canary_1")}

Symmetry == Permutations(TwoRuns)
=============================================================================
