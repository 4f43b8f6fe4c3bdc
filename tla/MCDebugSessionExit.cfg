CONSTANTS
  Messages <- MCMessages
  MaxMessages = 1
  Script <- MCScript
  MaxScripts = 1
  MaxEvents = 2
  MaxSessions = 2
  DetachOnAttach = TRUE
SPECIFICATION Spec
INVARIANTS
  StoppedForGood
CHECK_DEADLOCK FALSE
