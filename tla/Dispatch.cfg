\* Two deliveries for two targets compete for two slots.
CONSTANTS
  Deliveries = {d1, d2}
  Targets = {t1, t2}
  MaxConcurrent = 2
SPECIFICATION FairSpec
INVARIANTS
  TypeOK
  ConcurrencyBounded
  SpanEndsLast
  ReturnsAnswered
PROPERTIES
  AcceptedUnlessStopped
  MainEnds
