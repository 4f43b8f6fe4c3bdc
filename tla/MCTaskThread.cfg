CONSTANTS
  p1 = p1
  p2 = p2
  Producer <- MCProducer
  MaxPosts = 5
SPECIFICATION Spec
CHECK_DEADLOCK FALSE
INVARIANTS
  TypeOK
  StringsInOrder
PROPERTIES
  IsMailbox
  DestructorReturns
