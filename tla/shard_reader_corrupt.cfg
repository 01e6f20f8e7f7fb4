SPECIFICATION Spec
CONSTANTS
  LimitsFiles <- MCWellFormed
  RecordsSizes = {3}
  Requests = {0, 1, 2, 3}
  Undecodables <- MCUndecodables
INVARIANT
  OkMeansDecompressed
