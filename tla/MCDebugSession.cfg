CONSTANTS
  Messages <- MCMessages
  MaxMessages = 1
  Script <- MCScript
  MaxScripts = 1
  MaxEvents = 2
  MaxSessions = 2
  DetachOnAttach = TRUE
SPECIFICATION FairSpec
INVARIANTS
  TypeOK
  NeverEmptyCommand
PROPERTIES
  OneDebugLoop
  ScriptAfterPause
  StopReturns
  ExitReturns
CHECK_DEADLOCK FALSE
