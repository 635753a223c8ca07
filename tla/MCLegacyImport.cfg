CONSTANTS
  p = p
  q = q
  f = f
  g = g
  w = w
  File = {f, g}
  Bad = {g}
  Window = {}
  Proc = {p, q}
  Former = Former
  NoOwner = NoOwner
  NoJob = NoJob
  BatchSize = 1
  Concurrency = 1
  MaxCalls = 2
  MaxFaults = 1
SPECIFICATION Spec
CHECK_DEADLOCK FALSE
SYMMETRY Archivers
INVARIANTS
  TypeOK
  OneImporter
  CompletedMeansDone
PROPERTIES
  SourceKept
  ReceiptOutlivesFile
