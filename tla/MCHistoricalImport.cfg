CONSTANTS
  hold = hold
  go = go
  move = move
  t = t
  u = u
  Request = {hold, go}
  Pausing = {hold}
  Adoption = move
  NoAdoption = NoAdoption
  MaxReceipts = 1
  MaxRevision = 2
  N = 4
  Late = {3}
  Skipped = {4}
  Topic = {t, u}
  TopicOf <- MCTopicOf
  PageSize = 2
  SliceSize = 1
  MaxFaults = 2
  MaxChanges = 1
  NoJob = NoJob
  NoReview = NoReview
SPECIFICATION FairSpec
INVARIANTS
  TypeOK
  ImportIsExact
  BlockedForCause
  ControlPromise
PROPERTIES
  PauseIsABoundary
  ImportEnds
