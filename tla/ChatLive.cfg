SPECIFICATION BusySpec
CONSTANTS
  w1 = w1
  w2 = w2
  w3 = w3
  Null = Null
  Workers <- ThreeWorkers
  Names = {lobby}
  Texts = {hi}
  Overlong = {}
  MaxRequests = 4
CHECK_DEADLOCK FALSE
PROPERTIES
  RequestsAnswered
  DroppedIsFreed
  GoneSenderIsFreed
  OwedIsSentOrDropped
