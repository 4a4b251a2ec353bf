SPECIFICATION FairSpec
CONSTANTS
  Joiners = {j1}
  QueueCap = 2
  MaxRooms = 2
  MaxEvents = 1
  MaxOther = 0
  Disturbances = {"shutdown", "abandon"}
PROPERTIES
  CallersReturn
CHECK_DEADLOCK FALSE
