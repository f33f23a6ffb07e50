SPECIFICATION Spec
CONSTANTS
  r1 = r1
  r2 = r2
  w1 = w1
  w2 = w2
  None = None
  Runs <- OneRun
  Recorders <- TwoRecorders
  MaxFaults = 1
  MaxLosses = 1
SYMMETRY Symmetry
INVARIANTS CandidateIsLogged AcknowledgedStays ObservationMatchesArm OutcomeBelongs MirrorFollowsFiles AnswersCoverBacklog
PROPERTIES MirroredByWriterIsDurable
