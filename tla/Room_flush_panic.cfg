SPECIFICATION FairSpec
CONSTANTS
  Conns = {c1, c2}
  Attached = {c1}
  Flaky = {}
  Viewers = {}
  Updates = {u1}
  PeerUpdates = {}
  TooLarge = {}
  SchemaBad = {}
  Undecodable = {}
  MaxConns = 0
  QueueCap = 2
  Threshold = 2
  PeriodicSave = TRUE
  Faults = {"close", "flushPanic"}
  MaxFrames <- Frames20
  MaxRooms = 1
  Request = Request
  None = None
  c1 = c1
  c2 = c2
PROPERTY
  TeardownCompletes
CHECK_DEADLOCK FALSE
