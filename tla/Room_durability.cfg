SPECIFICATION Spec
CONSTANTS
  Conns = {c1, c2}
  Attached = {c1}
  Flaky = {c1}
  Viewers = {}
  Updates = {u1, u2}
  PeerUpdates = {}
  TooLarge = {}
  SchemaBad = {}
  Undecodable = {}
  MaxConns = 0
  QueueCap = 1
  Threshold = 2
  PeriodicSave = TRUE
  Faults = {"store", "crash", "close", "closeDeleted"}
  MaxFrames <- Frames21
  MaxRooms = 2
  Request = Request
  None = None
  c1 = c1
  c2 = c2
INVARIANTS
  CleanIsDurable
  BarrierTruth
  RequestsAccounted
  DirtyIsScheduled
  IdleReleaseKeepsEdits
PROPERTIES
  NoFlushAfterAbandon
  RefinesBarrier
CHECK_DEADLOCK FALSE
