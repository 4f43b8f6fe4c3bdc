CONSTANTS
  Tid = {t1, t2}
  Leader = t1
  Births = {t2}
  Exits = {t2}
  NoTid = NoTid
  Addr = {a}
  Rep = {}
  NoAddr = NoAddr
  MaxSuspend = 2
  MaxSignals = 0
  Calls = {"suspendPaused", "resumePaused", "resumeRunning"}
  Timeouts = TRUE
SPECIFICATION Spec
INVARIANTS
  HitsAccounted
PROPERTIES
  FrozenStays
CHECK_DEADLOCK FALSE
