\* Three requests; a token is valid for two ticks and renewed after one.
CONSTANTS
  Requests = {q1, q2, q3}
  None = None
  Lifetime = 2
  Buffer = 1
  MaxTime = 2
  MaxFaults = 1
SPECIFICATION FairSpec
INVARIANTS
  TypeOK
  HonouredWhenSent
PROPERTIES
  ReplacedWhenExpired
  EveryRequestReturns
