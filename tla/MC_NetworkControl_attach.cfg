\* Two calls of /attach that follow each other or overlap, one target.
CONSTANTS
  t1 = t1
  Attaches = {1, 2}
  Targets = {t1}
  Pauses = {}
  MaxPaused = 0
  MaxFaults = 1
  None = None
SPECIFICATION FairSpec
INVARIANTS TypeOK SessionsHoldTargets OneInterceptorPerTarget NoStrayController
PROPERTIES CallsEnd StopReleasesBrowser
CHECK_DEADLOCK FALSE
