CONSTANTS
  Tid = {t1, t2, t3}
  Leader = t1
  Births = {t3}
  Exits = {}
  NoTid = NoTid
  Addr = {a}
  Rep = {}
  NoAddr = NoAddr
  MaxSuspend = 0
  MaxSignals = 0
  Calls = {"step", "switch", "delete"}
  Timeouts = FALSE
SPECIFICATION FairSpec
INVARIANTS
  TypeOK
  LiftedAlone
  NeverRunsPast
  StepStaysAStep
PROPERTIES
  StepAnswered
