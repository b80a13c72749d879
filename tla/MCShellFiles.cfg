SPECIFICATION ShellSpec
CONSTANTS
  MAX_FILES = 3
  MAX_FILE_SIZE = 2
  MAX_HANDLES = 1
  ShortNames = {"r", "w", "d", "n"}
  LongNames = {}
  README = "r"
  WELCOME = "w"
  DOCS = "d"
  README_TEXT <- MCReadme
  WELCOME_TEXT <- MCWelcome
  DEFAULT_TEXT <- MCDefault
  Bytes = {0, 1, 2}
  Buffers <- MCBuffers
  CAT_MAX = 2
  EDIT_MAX = 2
  WORD = 6
INVARIANTS NoHandleLeak
PROPERTIES ImplementsFileStore
