SPECIFICATION FairSpec
CONSTANTS
  c1 = c1
  c2 = c2
  Callers <- MCCallers
  Lengths = {0, 1, 2, 3}
  ReadAheads = {1, 2}
INVARIANTS
  TypeOK
  ExceptionIsDelivered
PROPERTIES
  NextReturns
  DestructorReturns
