\* A rendering server posts again.
CONSTANTS
  r1 = r1
  r2 = r2
  t1 = t1
  t2 = t2
  up = rendered
  Runtimes = {r1}
  Streams = {s1}
  Connections = {}
  Calls <- SyncCalls
  Targets = {t1}
  Statuses = {rendering, rendered}
  Reports <- EveryStatus
  Absent = Absent
  None = None
SPECIFICATION Spec
INVARIANTS ServerStatusVisible
