CONSTANTS
  r1 = r1
  r2 = r2
  r3 = r3
  ta = ta
  tb = tb
  Row <- MCRow
  Table <- MCTable
  TableOf <- MCTableOf
  Deadline <- MCDeadline
  Config <- MCConfig
  Attempts = 2
  FailureThreshold = 2
  NoTimer = NoTimer
SPECIFICATION FairSpec
INVARIANTS
  TypeOK
  FlushSendsTheBatch
  AckMeansStored
  TimerCovers
  TableOrder
PROPERTIES
  EveryRowSettles
  CloseReturns
