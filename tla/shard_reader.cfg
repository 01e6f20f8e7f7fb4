SPECIFICATION Spec
CONSTANTS
  LimitsFiles <- MCLimitsFiles
  RecordsSizes = {0, 2, 3}
  Requests = {0, 1, 2, 3}
  Undecodables <- MCUndecodables
INVARIANTS
  TypeOK
  ViewsAreRecords
  OkIsComplete
  BadLimitsShowNothing
