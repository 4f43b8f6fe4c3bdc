CONSTANTS
  Tid = {t1, t2}
  Leader = t1
  Births = {}
  Exits = {}
  NoTid = NoTid
  Addr = {a}
  Rep = {}
  NoAddr = NoAddr
  MaxSuspend = 1
  MaxSignals = 0
  Calls = {"step", "suspendRunning", "resumePaused"}
  Timeouts = FALSE
SPECIFICATION Spec
INVARIANTS
  StepStaysAStep
