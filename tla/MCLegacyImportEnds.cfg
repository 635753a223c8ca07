CONSTANTS
  p = p
  q = q
  f = f
  g = g
  w = w
  File = {f, g, w}
  Bad = {g}
  Window = {w}
  Proc = {p}
  Former = Former
  NoOwner = NoOwner
  NoJob = NoJob
  BatchSize = 2
  Concurrency = 1
  MaxCalls = 2
  MaxFaults = 2
SPECIFICATION FairSpec
CHECK_DEADLOCK FALSE
PROPERTIES
  CommandsReturn
  ImportEnds
