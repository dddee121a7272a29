SPECIFICATION Spec
CONSTANTS
  w1 = w1
  w2 = w2
  w3 = w3
  Null = Null
  Workers <- ThreeWorkers
  Names = {lobby, den}
  Texts = {hi}
  Overlong = {}
  MaxRequests = 2
CHECK_DEADLOCK FALSE
SYMMETRY WorkerSymmetry
INVARIANTS
  RoomUnique
  MembershipExact
  RoomLockExact
