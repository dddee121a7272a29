SPECIFICATION FairSpec
CONSTANTS
  w1 = w1
  w2 = w2
  w3 = w3
  Null = Null
  Workers <- TwoWorkers
  Names = {lobby}
  Texts = {hi}
  Overlong = {}
  MaxRequests = 2
CHECK_DEADLOCK FALSE
PROPERTY GoneReceiverIsRemoved
