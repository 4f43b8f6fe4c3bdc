CONSTANTS
  Program <- MCProgram
  Label = 5
  Hits <- MCHits
  Starts <- MCStarts
  MaxHits = 2
  Calls = {"abort", "run"}
SPECIFICATION FairSpec
INVARIANTS
  TypeOK
  MainInOrder
PROPERTIES
  FailsForAReason
  YieldHolds
  NobodyStuck
CHECK_DEADLOCK FALSE
