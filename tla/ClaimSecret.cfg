\* An event of a private target and its replay.
CONSTANTS
  Targets = {t1}
  Runs = {r1, r2}
  Instances = {i1}
  Private = {t1}
  None = None
  StaleAfter = 0
  Second = 1
  MaxReplays = 1
  MaxPush = 1
  MaxTime = 0
  MaxFaults = 0
  MaxEdits = 0
SPECIFICATION Spec
INVARIANT SecretUnlessPublic
