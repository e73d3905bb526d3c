\* Two runs; the tenant deletes the ConfigMap and creates it anew.
CONSTANTS
  Targets = {t1}
  Runs = {r1, r2}
  Instances = {i1}
  Private = {}
  None = None
  StaleAfter = 1
  Second = 1
  MaxReplays = 1
  MaxPush = 1
  MaxTime = 0
  MaxFaults = 0
  MaxEdits = 2
SPECIFICATION Spec
INVARIANT HeldByAnswers
