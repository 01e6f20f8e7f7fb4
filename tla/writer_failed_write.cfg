SPECIFICATION Spec
CONSTANTS
  WordSize = 2
  AppendBufferSize = 3
  RecordSizes = {1}
  MaxWrites = 2
  Failing = {"write"}
INVARIANT
  WrittenIsRecoverable
