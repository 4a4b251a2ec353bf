SPECIFICATION FairSpec
CONSTANTS
  QueueCap = 2
  Handshake = 2
  MaxSends = 2
INVARIANTS
  EndIsLast
  CloseIsComplete
  ReasonBeforeClose
  NoLostWakeup
PROPERTIES
  EndingCloses
CHECK_DEADLOCK FALSE
