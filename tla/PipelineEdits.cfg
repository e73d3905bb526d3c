\* Three runs of a private target while the tenant edits the ConfigMap, deletes
\* it or creates it anew, and one fault; a replay clones without credentials.
\* Leases are stale at once, so that every run may be replayed.
CONSTANTS
  Targets = {t1}
  Runs = {r1, r2, r3}
  Instances = {i1}
  Private = {t1}
  None = None
  StaleAfter = 0
  Second = 1
  MaxReplays = 1
  MaxPush = 1
  MaxTime = 0
  MaxFaults = 1
  MaxEdits = 2
SPECIFICATION Spec
SYMMETRY Symmetry
INVARIANTS
  SupersededIsCovered
PROPERTIES
  NoLostEdit
