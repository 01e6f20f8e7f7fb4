SPECIFICATION Spec
CONSTANTS
  WordSize = 2
  AppendBufferSize = 3
  RecordSizes = {0, 1, 2}
  MaxWrites = 2
  Failing <- MCFailing
INVARIANTS
  TypeOK
  AcknowledgedIsReadable
  ClosedBagIsExact
  NothingInvented
PROPERTIES
  ReadableStays
