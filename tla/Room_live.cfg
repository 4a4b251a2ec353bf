SPECIFICATION FairSpec
CONSTANTS
  Conns = {c1, c2}
  Attached = {c1}
  Flaky = {c1, c2}
  Viewers = {}
  Updates = {u1}
  PeerUpdates = {u1}
  TooLarge = {}
  SchemaBad = {}
  Undecodable = {}
  MaxConns = 1
  QueueCap = 6
  Threshold = 2
  PeriodicSave = TRUE
  Faults = {"store"}
  MaxFrames <- Frames20
  MaxRooms = 1
  Request = Request
  None = None
  c1 = c1
  c2 = c2
PROPERTIES
  ParkedIsResolved
  TeardownCompletes
  AbandonedRoomReleased
CHECK_DEADLOCK FALSE
