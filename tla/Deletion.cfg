SPECIFICATION FairSpec
CONSTANTS
  Edits = {e1}
  Files = {f1}
  None = None
  MaxUpload = 1
  Mishaps = {"call", "crash", "delete"}
  Events = {d1, p1}
  Poison = {p1}
  MaxSessions = 2
INVARIANTS NoServiceAfterAck
PROPERTIES EventsSettle CloseReleasesBroker
CHECK_DEADLOCK FALSE
