\* A webhook event with two targets and two replays, three faults.
CONSTANTS
  Targets = {t1, t2}
  Replays = {r1, r2}
  Origin = Origin
  None = None
  MaxReplays = 1
  MaxFaults = 3
SYMMETRY Symmetry
SPECIFICATION Spec
INVARIANTS
  TypeOK
  AnswerCovers
  ReplaysWhatEnded
  FailureSparesTheRest
PROPERTY OverridesOnlyConcurrent
