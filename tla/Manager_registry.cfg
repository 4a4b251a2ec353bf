SPECIFICATION Spec
CONSTANTS
  Joiners = {j1, j2}
  QueueCap = 1
  MaxRooms = 2
  MaxEvents = 2
  MaxOther = 1
  Disturbances = {"shutdown"}
SYMMETRY JoinerSymmetry
INVARIANTS
  NoResurrection
  EmptyRoomIsWatched
  OneLiveRoom
  ShutdownMissesNobody
CHECK_DEADLOCK FALSE
