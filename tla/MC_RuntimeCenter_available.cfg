\* An action whose availability depends on data.
CONSTANTS
  t1 = t1
  t2 = t2
  loading = loading
  ready = ready
  d1 = d1
  d2 = d2
  a1 = a1
  Targets = {t1}
  Statuses = {loading, ready}
  Data = {d1, d2}
  Waits = {}
  Actions = {a1}
  Availabilities <- WhenReady
  Runs <- TwoRuns
  MaxUpdates = 2
  Absent = Absent
SPECIFICATION Spec
PROPERTIES ActionsStartAvailable
