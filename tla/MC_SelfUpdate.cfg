\* Three processes after the first: the worker it started, command lines, further workers.
CONSTANTS
  Processes = {p1, p2, p3}
  p1 = p1
  p2 = p2
  p3 = p3
  MaxVersion = 3
  MaxTime = 2
  Interval = 2
  Throttle = 1
  StaleAge = 2
  MaxUpdates = 1
  MaxFaults = 1
  None = None
SPECIFICATION Spec
INVARIANTS TypeOK OneUpdater NoticeKept LockReleased
PROPERTIES NeverDowngrades NoticeOnce ThrottleHolds
SYMMETRY AnyProcess
CHECK_DEADLOCK FALSE
