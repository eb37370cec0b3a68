\* Connections, timers and requests of two runtimes.
CONSTANTS
  r1 = r1
  r2 = r2
  t1 = t1
  t2 = t2
  up = up
  Runtimes = {r1, r2}
  Streams = {s1, s2}
  Connections = {k1, k2}
  Calls <- ExchangeCalls
  Targets = {t1}
  Statuses = {up}
  Reports <- NoReports
  Absent = Absent
  None = None
SPECIFICATION Spec
SYMMETRY StreamSymmetry
INVARIANTS TypeOK StreamBound PendingMatchesCallers
PROPERTIES OwnStreamOnly DisconnectBlamesOwnRuntime
