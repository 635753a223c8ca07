CONSTANTS
  a1 = a1
  b1 = b1
  a2 = a2
  ta = ta
  tb = tb
  x = x
  r0 = r0
  r1 = r1
  r2 = r2
  Part <- MCPart
  Target <- MCTarget
  Topic <- MCTopic
  TargetOf <- MCTargetOf
  TopicOf <- MCTopicOf
  Packet <- RowsPacket
  LegacyPart <- RowsLegacyPart
  Selector <- RowsSelector
  Request <- ControlRequest
  Incoming <- ControlIncoming
  InitialFile <- RowsInitialFile
  Issued <- ControlIssued
  MaxPending = 2
  MaxInFlight = 2
  Batch = 2
  MaxRevision = 1
  NoFile = NoFile
  NoPolicy = NoPolicy
  NoRevision = NoRevision
SPECIFICATION Spec
INVARIANTS
  PausedMeansSettled
