CONSTANTS
  Tid = {t1, t2}
  Leader = t1
  Births = {t2}
  Exits = {t2}
  NoTid = NoTid
  Addr = {a}
  Rep = {a}
  NoAddr = NoAddr
  MaxSuspend = 0
  MaxSignals = 0
  Calls = {"switch", "pause", "continueEarly"}
  Timeouts = FALSE
SPECIFICATION FairSpec
INVARIANTS
  AllStop
  SigstopOwed
PROPERTIES
  PauseAnswered
