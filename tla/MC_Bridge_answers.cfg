\* Every kind of call of one runtime is answered, from its page or from memory.
CONSTANTS
  r1 = r1
  r2 = r2
  t1 = t1
  t2 = t2
  up = up
  Runtimes = {r1}
  Streams = {s1}
  Connections = {}
  Calls <- AnswerCalls
  Targets = {t1}
  Statuses = {up}
  Reports <- SomeReports
  Absent = Absent
  None = None
SPECIFICATION FairSpec
INVARIANTS ServerTargetsKept
PROPERTIES ImplementsRemoteCall
