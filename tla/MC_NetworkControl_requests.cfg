\* One controller and a paused request of any kind.
CONSTANTS
  t1 = t1
  Attaches = {1}
  Targets = {t1}
  Pauses <- EveryKind
  MaxPaused = 1
  MaxFaults = 2
  None = None
SPECIFICATION FairSpec
INVARIANTS RuleDecides
PROPERTIES PausesEnd
CHECK_DEADLOCK FALSE
