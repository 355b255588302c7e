SPECIFICATION Spec
CONSTANTS
  RawRules = {raw}
  SniRules = {sni}
  Groups = {home, other}
  Home = home
  Away = away
  Gone = gone
  Unbillable = unbillable
  HomeOnly = homeOnly
  Unmapped = unmapped
  Counters = counters
  MaxRev = 2
  MaxUnits = 1
  MaxSeq = 1
  MaxMoves = 1
  MaxFiles = 1
  MaxFaults = 0
PROPERTIES
  PostMoveTrafficBilled
CHECK_DEADLOCK FALSE
