------------------------- MODULE MCLearningRecords --------------------------
(* Small instances of LearningRecords. *)
EXTENDS LearningRecords, TLC

CONSTANTS r1, r2, w1, w2

OneRun == {r1}
TwoRuns == {r1, r2}
OneRecorder == {w1}
TwoRecorders == {w1, w2}

Symmetry == Permutations({r1, r2}) \cup Permutations({w1, w2})
=============================================================================
