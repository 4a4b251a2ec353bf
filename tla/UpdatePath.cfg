SPECIFICATION FairSpec
CONSTANTS
  Updates = {u1, u2, u3, u4, p1, bad, cut}
  u1 = u1
  u2 = u2
  u3 = u3
  u4 = u4
  p1 = p1
  bad = bad
  cut = cut
  a1 = a1
  a2 = a2
  Wire <- MCWire
  Author <- MCAuthor
  NoActor = NoActor
  Peers = {p1}
  Poison = {bad}
  Cut = {cut}
  MaxDocBytes = 5
  Slack = 0
  Mishaps = {"measure", "clone", "save", "bus", "delete", "drop"}
INVARIANTS ShadowMirrors BudgetHolds ContributorsAccounted
PROPERTIES FlightLands
CHECK_DEADLOCK FALSE
