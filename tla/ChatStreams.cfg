SPECIFICATION Spec
CONSTANTS
  w1 = w1
  w2 = w2
  w3 = w3
  Null = Null
  Workers <- ThreeWorkers
  Names = {lobby}
  Texts = {hi, long}
  Overlong = {long}
  MaxRequests = 3
CHECK_DEADLOCK FALSE
SYMMETRY WorkerSymmetry
INVARIANTS
  NoUseAfterFree
  StreamExact
  AvailExact
PROPERTY ImplementsRoomBroadcast
