CONSTANTS
  n1 = n1
  n2 = n2
  a1 = a1
  a2 = a2
  Absent = Absent
  None = None
  Nodes = {n1, n2}
  Rules = {1, 2}
  Addrs = {a1, a2}
  Host = a1
  MaxAttempts = 2
  MaxStarts = 1
  MaxEdits = 1
SPECIFICATION MCSpec
INVARIANTS TypeOK SyncHonest RestoredWhileFrozen SourceStaysAuthorized UninstallExcluded
PROPERTIES CommitMeansApplied StoppedStandsStill AutomaticActsOnCurrent TransactionEnds
CHECK_DEADLOCK FALSE
