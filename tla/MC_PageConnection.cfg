\* Two runtimes, two installs, two documents, one fault.
CONSTANTS
  r1 = r1
  r2 = r2
  Runtimes = {r1, r2}
  Connections = {1, 2}
  Streams = {1, 2, 3, 4}
  MaxInstalls = 2
  MaxLoads = 2
  MaxFaults = 1
  None = None
SPECIFICATION FairSpec
INVARIANTS TypeOK ConnectionsFollowRegistry NoStraySource DefaultIsRegistered
PROPERTIES HealthyStreamKept BridgeFollowsRegistry
CHECK_DEADLOCK FALSE
