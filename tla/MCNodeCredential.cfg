CONSTANTS
  n1 = n1
  m1 = m1
  c1 = c1
  c2 = c2
  m2 = m2
  None = None
  Nodes = {n1}
  Claims = {c1, c2}
  Machines = {m1, m2}
  Scripted = {m2}
  MaxCalls = 1
  NodeOf <- MCNodeOf
CONSTRAINT InOrder
SPECIFICATION Spec
INVARIANTS TypeOK DeliveryFollowsClaim HostNeverAhead
PROPERTIES ClosedForGood ImplementsRegistry
CHECK_DEADLOCK FALSE
