CONSTANTS
  a = a
  b = b
  t = t
  Event = {a, b}
  Foreign = {}
  Invalid = {b}
  Spilled = {b}
  Topic = {t}
  TopicOf <- MCTopicOf
  MaxPending = 1
  Concurrency = 1
  Batch = 2
  Workers = 1
  BufferMax = 1
  Pid = {1, 2}
  MaxStops = 1
SPECIFICATION Spec
CHECK_DEADLOCK FALSE
PROPERTIES
  RefusalNotSpooled
