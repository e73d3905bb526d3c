\* An event and two replays of it, of which one is allowed.
CONSTANTS
  Targets = {t1}
  Runs = {r1, r2, r3}
  Instances = {i1}
  Private = {}
  None = None
  StaleAfter = 1
  Second = 1
  MaxReplays = 1
  MaxPush = 1
  MaxTime = 1
  MaxFaults = 0
  MaxEdits = 0
SPECIFICATION Spec
INVARIANT ReplaysPerEventBounded
