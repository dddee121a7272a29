SPECIFICATION Spec
CONSTANTS
  N = 3
  Values <- TwoValues
  Thresholds = {1}
  MaxUlong = 99
  MaxFaults = 1
INVARIANTS
  FailsOnlyOnFault
