CONSTANTS
  p = p
  g = g
  h = h
  Row <- MCRow
  Table <- MCTable
  TableOf <- MCTableOf
  Rejected <- MCRejected
  MaxInFlight = 2
  Batch = 1
  Concurrency = 2
SPECIFICATION Spec
CHECK_DEADLOCK FALSE
INVARIANTS
  TypeOK
PROPERTIES
  HealthyTablesContinue
  CloseReturns
