\* Command lines one after another in one directory: what stop cleans up.
CONSTANTS
  c1 = c1
  c2 = c2
  c3 = c3
  d1 = d1
  d2 = d2
  s1 = s1
  s2 = s2
  k1 = k1
  u1 = u1
  u2 = u2
  u3 = u3
  Commands = {c1, c2, c3}
  Directories = {d1}
  Urls = {u1}
  Taken = {}
  Servers = {s1, s2}
  Controls = {k1}
  MaxRunning = 1
  MaxFaults = 0
  None = None
  Foreign = Foreign
SPECIFICATION Spec
INVARIANTS StopCleansUp
SYMMETRY Alike
CHECK_DEADLOCK FALSE
