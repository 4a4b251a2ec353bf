SPECIFICATION FairSpec
CONSTANTS
  Rooms = {r1, r2}
  PeerCap = 1
  MaxShared = 1
  Messages = {m1, m2}
INVARIANTS
  SubscribedIsServed
PROPERTIES
  PublishedArrives
  TeardownEnds
CHECK_DEADLOCK FALSE
