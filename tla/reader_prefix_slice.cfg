SPECIFICATION Spec
CONSTANTS
  SizeModulus = 64
  Layouts = {"concatenated", "interleaved"}
  ShardSizes <- MCShardSizes
  MaxSlices = 1
  SliceStarts = {0, 1}
  SliceSteps = {1, 2}
  SliceLengths = {0, 1, 2}
  RangeStarts = {0}
  RangeCounts = {0}
  IndexLists <- MCIndexLists
INVARIANT
  OnlyTheView
