SPECIFICATION Spec
CONSTANTS
  Conns = {c1, c2}
  Attached = {c1, c2}
  Flaky = {}
  Viewers = {c2}
  Updates = {u1, u2, u3, u4}
  PeerUpdates = {u2}
  TooLarge = {u2}
  SchemaBad = {u3}
  Undecodable = {u4}
  MaxConns = 0
  QueueCap = 1
  Threshold = 2
  PeriodicSave = TRUE
  Faults = {"throttle", "panic", "flushPanic", "encode", "close"}
  MaxFrames <- Frames21
  MaxRooms = 1
  Request = Request
  None = None
  c1 = c1
  c2 = c2
INVARIANTS
  RefusedNeverStored
PROPERTIES
  ParkedIsAnswered
CHECK_DEADLOCK FALSE
