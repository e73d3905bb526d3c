\* Three runs of one target, every call answers; leases are stale at once.
CONSTANTS
  Targets = {t1}
  Runs = {r1, r2, r3}
  Instances = {i1}
  Private = {}
  None = None
  StaleAfter = 0
  Second = 1
  MaxReplays = 1
  MaxPush = 1
  MaxTime = 0
  MaxFaults = 0
  MaxEdits = 0
SPECIFICATION FairSpec
PROPERTIES
  EventuallyStreamed
