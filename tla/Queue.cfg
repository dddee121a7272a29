SPECIFICATION FairSpec
CONSTANTS
  p1 = p1
  p2 = p2
  c1 = c1
  c2 = c2
  Free = Free
  Producers <- Two
  Consumers <- TwoConsumers
  Msgs = {m1, m2}
  MaxSent = 4
INVARIANTS
  MutualExclusion
  SemaphoreCounts
PROPERTIES
  ImplementsFifo
  EverythingComesOut
  CallsReturn
