SPECIFICATION ShellSpec
CONSTANTS
  WIDTH = 4
  HEIGHT = 3
  TAB = 2
  BYTE = 4
  Glyphs = {" ", "a", "b", ">"}
  Silent = {"back"}
  Colors = {"grey", "white", "cyan", "red", "green"}
  GREY = "grey"
  CYAN = "cyan"
  WHITE = "white"
  RED = "red"
  GREEN = "green"
  SHELL_BUFFER_SIZE = 5
  WORD_SIZE = 4
  shell_commands <- MCTable
  Dispatched <- MCDispatched
  CLEAR <- MCClear
  REBOOT <- MCReboot
  PROMPT <- MCPrompt
  GREETING <- MCGreeting
  Outputs <- MCOutputs
  Erase = {"back", "del"}
  MAX_KEYS = 8
INVARIANTS ShellTypeOK LineOnScreen WordsOfTheLine
PROPERTIES CompletionKeepsTyped
CHECK_DEADLOCK FALSE
