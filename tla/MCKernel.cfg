SPECIFICATION Spec
CONSTANTS
  SafeModes = {TRUE, FALSE}
  FS_SIZE = 38
  HEAP_START = 64
  HEAP_SIZE = 160
  HEADER = 16
  SLACK = 4
  WORD = 512
  TestSizes <- MCTestSizes
INVARIANTS TypeOK NeverFaults HandlersDoNotNest NothingLeftInService FsBlockKept
PROPERTIES KeyIsRead RequestsServed
