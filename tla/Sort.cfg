SPECIFICATION FairSpec
CONSTANTS
  N = 4
  Values <- ThreeValues
  Thresholds = {1, 2}
  MaxUlong = 99
  MaxFaults = 2
INVARIANTS
  WritersDisjoint
  PartitionHolds
  SuccessMeansSorted
  SuccessKeepsElements
  NobodyLeftBehind
PROPERTIES
  EachRegionOnce
  Terminates
