SPECIFICATION ShellSpec
CONSTANTS
  WIDTH = 4
  HEIGHT = 3
  TAB = 2
  BYTE = 4
  Glyphs = {" ", "a", "b", ">"}
  Silent = {"back"}
  Colors = {"grey", "white", "cyan", "red", "green"}
  GREY = "grey"
  CYAN = "cyan"
  WHITE = "white"
  RED = "red"
  GREEN = "green"
  SHELL_BUFFER_SIZE = 5
  WORD_SIZE = 3
  shell_commands <- MCTable
  Dispatched <- MCDispatched
  CLEAR <- MCClear
  REBOOT <- MCReboot
  PROMPT <- MCPrompt
  GREETING <- MCGreeting
  Outputs <- MCOutputs
  Erase = {}
  MAX_KEYS = 5
INVARIANTS WordsFit
CHECK_DEADLOCK FALSE
