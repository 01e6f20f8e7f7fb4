SPECIFICATION FairSpec
CONSTANTS
  Consumers = {c1, c2, c3}
  Sizes <- MCSizes
  ReadAheads <- MCReadAheads
INVARIANTS
  TypeOK
  ReadAheadBound
  WorkerWakeupPending
PROPERTIES
  ImplementsRecordStream
  SomeCallerWakes
  NextReturns
  DestructorReturns
