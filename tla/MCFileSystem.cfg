SPECIFICATION Spec
CONSTANTS
  MAX_FILES = 2
  MAX_FILE_SIZE = 2
  MAX_HANDLES = 2
  ShortNames = {"r", "w", "d"}
  LongNames = {"long"}
  README = "r"
  WELCOME = "w"
  DOCS = "d"
  README_TEXT <- MCReadme
  WELCOME_TEXT <- MCWelcome
  Bytes = {0, 1}
  Buffers <- MCBuffers
  WORD = 6
INVARIANTS TypeOK AccessInSlot UsedFilesCounted UniqueNames
PROPERTIES WritesIsolated UsedSizeFollows
