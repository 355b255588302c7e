SPECIFICATION Spec
CONSTANTS
  RawRules = {raw}
  SniRules = {sni}
  Groups = {home, other}
  Home = home
  Away = away
  Gone = gone
  Unbillable = unbillable
  HomeOnly = homeOnly
  Unmapped = unmapped
  Counters = counters
  MaxRev = 2
  MaxUnits = 2
  MaxSeq = 2
  MaxMoves = 1
  MaxFiles = 1
  MaxFaults = 1
INVARIANTS
  TypeOK
  SettledOnceInSealOrder
  BilledWhereForwarded
CHECK_DEADLOCK FALSE
