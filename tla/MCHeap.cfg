SPECIFICATION Spec
CONSTANTS
  HEAP_START = 64
  HEAP_SIZE = 160
  HEADER = 16
  SLACK = 32
  WORD = 512
  Sizes = {0, 1, 38}
  TestSizes <- MCTestSizes
INVARIANTS IInv StatsAddUp EmptyIsWhole WalkMeetsList
PROPERTIES OwnersKeepBlocks DoubleFreeHarmless MemtestNeutral
