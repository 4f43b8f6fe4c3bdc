CONSTANTS
  Addr <- MCAddr
  Byte <- MCByte
  Images <- MCImages
  Int3 = 204
  Zero = 0
SPECIFICATION Spec
INVARIANTS
  TypeOK
  RecordsMatchMemory
PROPERTIES
  BreakpointsInvisible
  WriteTakesEffect
  TeardownRestores
