SPECIFICATION FairSpec
CONSTANTS
  MAX_LEN = 4
  RIO_BUFSIZE = 2
  Room = 3
  MaxSends = 3
  MaxBytes = 5
  Msgs <- FewMsgs
  Bytes <- AllBytes
CHECK_DEADLOCK FALSE
INVARIANTS
  TypeOK
  ReceivedAsSent
PROPERTIES
  ImplementsLineStream
  SentIsReceived
