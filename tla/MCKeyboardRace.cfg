SPECIFICATION Spec
CONSTANTS
  Letters = {"a", "b"}
  Silent = {}
  Shifts = {"LSHIFT"}
  Ctrls = {}
  MAX_CODES = 4
  SafeModes = {FALSE}
INVARIANT ReceivedInOrder
