SPECIFICATION Spec
CONSTANTS
  SizeModulus = 64
  Layouts = {"concatenated", "interleaved"}
  ShardSizes <- MCShardSizes
  MaxSlices = 2
  SliceStarts = {0, 1, 3, 4}
  SliceSteps <- MCSteps
  SliceLengths = {0, 1, 2, 3}
  RangeStarts = {0, 1, 2, 5}
  RangeCounts = {0, 1, 2, 3, 5}
  IndexLists <- MCIndexLists
INVARIANTS
  TypeOK
  SliceIsView
  ResultsAreWanted
  OkIsComplete
  AnswersFitView
