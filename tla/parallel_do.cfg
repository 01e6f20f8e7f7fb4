SPECIFICATION FairSpec
CONSTANTS
  MaxSize = 6
  NumTasks <- MCNumTasks
  MaxParallelisms <- MCMaxParallelisms
INVARIANTS
  TypeOK
  AtMostOnce
  OkMeansAll
PROPERTIES
  StopsOnFailure
  Returns
