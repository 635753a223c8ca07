CONSTANTS
  a1 = a1
  b1 = b1
  a2 = a2
  ta = ta
  tb = tb
  x = x
  r0 = r0
  r1 = r1
  r2 = r2
  Part <- ControlPart
  Target <- MCTarget
  Topic <- MCTopic
  TargetOf <- ControlTargetOf
  TopicOf <- ControlTopicOf
  Packet <- ControlPacket
  LegacyPart <- NoLegacyPart
  Selector <- ControlSelector
  Request <- ControlRequest
  Incoming <- ControlIncoming
  InitialFile <- ControlInitialFile
  Issued <- ControlIssued
  MaxPending = 1
  MaxInFlight = 2
  Batch = 1
  MaxRevision = 2
  NoFile = NoFile
  NoPolicy = NoPolicy
  NoRevision = NoRevision
SPECIFICATION Spec
INVARIANTS
  BranchRulesCover
