\* Targets come and go and report while calls wait for one of them.
CONSTANTS
  t1 = t1
  t2 = t2
  loading = loading
  ready = ready
  d1 = d1
  d2 = d2
  a1 = a1
  Targets = {t1, t2}
  Statuses = {loading, ready}
  Data = {d1, d2}
  Waits <- TwoWaits
  Actions = {a1}
  Availabilities <- WhenReady
  Runs <- OneRun
  MaxUpdates = 2
  Absent = Absent
SPECIFICATION FairSpec
INVARIANTS TypeOK NoMissedWakeup LogExplainsSnapshot LogAccountsForRuns
PROPERTIES WaitAnswersHonest WaitsSettle
