\* Three runs of one private target and one fault: a failed call, a lost reply
\* or a crash, which ends every run under way.  A second has two ticks, so
\* that a lease acquired late in a second is stale a tick early.
CONSTANTS
  Targets = {t1}
  Runs = {r1, r2, r3}
  Instances = {i1}
  Private = {t1}
  None = None
  StaleAfter = 2
  Second = 2
  MaxReplays = 1
  MaxPush = 1
  MaxTime = 2
  MaxFaults = 1
  MaxEdits = 0
SPECIFICATION Spec
SYMMETRY Symmetry
INVARIANTS
  TypeOK
  Fencing
  RefusalIsEarned
PROPERTIES
  FencedVerify
  RefinesPublication
  StaleInTime
