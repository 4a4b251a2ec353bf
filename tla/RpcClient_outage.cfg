SPECIFICATION FairSpec
CONSTANTS
  Calls = {k1, k2}
  MaxSessions = 3
  MaxReplies = 2
INVARIANTS
  WaitersAreWatched
  SendNeverBlocks
PROPERTIES
  LostSessionFailsCall
  CloseReleases
CHECK_DEADLOCK FALSE
