CONSTANTS
  Tid = {t1, t2}
  Leader = t1
  Births = {}
  Exits = {}
  NoTid = NoTid
  Addr = {a, b}
  Rep = {a}
  NoAddr = NoAddr
  MaxSuspend = 1
  MaxSignals = 1
  Calls = {"suspendRunning", "resumePaused", "suspendPaused"}
  Timeouts = FALSE
SPECIFICATION Spec
INVARIANTS
  SignalsConserved
  NoSilentHang
  PendingHitInPlace
  LiftedIsNoted
