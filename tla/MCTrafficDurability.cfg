SPECIFICATION FairSpec
CONSTANTS
  RawRules = {raw}
  SniRules = {sni}
  Groups = {home, other}
  Home = home
  Away = away
  Gone = gone
  Unbillable = unbillable
  HomeOnly = homeOnly
  Unmapped = unmapped
  Counters = counters
  MaxRev = 1
  MaxUnits = 2
  MaxSeq = 4
  MaxMoves = 0
  MaxFiles = 3
  MaxFaults = 2
INVARIANTS
  NoUnitInTwoBatches
PROPERTIES
  CursorPassesOnlySealed
  ImplementsTrafficLedger
  SealedEventuallySettles
CHECK_DEADLOCK FALSE
