\* A wait answered from memory while the page is connected.
CONSTANTS
  r1 = r1
  r2 = r2
  t1 = t1
  t2 = t2
  up = up
  Runtimes = {r1}
  Streams = {s1}
  Connections = {}
  Calls <- CacheCalls
  Targets = {t1, t2}
  Statuses = {up}
  Reports <- NoReports
  Absent = Absent
  None = None
SPECIFICATION Spec
PROPERTIES WaitSuccessIsReal
