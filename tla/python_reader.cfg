SPECIFICATION Spec
CONSTANTS
  SizeModulus = 16
  Values = {"a", "b", "c", "d"}
  Bags <- MCBags
  SliceBounds <- MCBounds
  SliceSteps <- MCSteps
  MaxOps = 4
CHECK_DEADLOCK FALSE
INVARIANTS
  TypeOK
  ReaderIsList
  ReadsLikeList
  SearchesLikeList
