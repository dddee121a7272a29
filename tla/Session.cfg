SPECIFICATION FairSpec
CONSTANTS
  MAX_LEN = 9
  Senders = {"s1"}
  Receivers = {"q1"}
  Typed <- Lines
  Alnum = {"s1", "q1", "r1"}
  Nowhere = Nowhere
  MaxTyped = 3
CHECK_DEADLOCK FALSE
INVARIANTS
  Lockstep
PROPERTIES
  ShownAsSaid
  SaidIsShown
  AnswersCome
