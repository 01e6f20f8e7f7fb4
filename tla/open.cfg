SPECIFICATION OpenSpec
CONSTANTS
  MaxShards = 3
  KnownPrefixes = {"", "posix:", "gs:"}
  Specs <- MCSpecs
  Stores <- MCStores
  MaxChanges = 2
INVARIANTS
  OpenTypeOK
  OkInOrder
  OwnLimits
