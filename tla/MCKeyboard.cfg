SPECIFICATION Spec
CONSTANTS
  Letters = {"a", "b"}
  Silent = {"F1"}
  Shifts = {"LSHIFT"}
  Ctrls = {"LCTRL"}
  MAX_CODES = 4
  SafeModes = {TRUE, FALSE}
INVARIANTS TypeOK AtMostTwice
PROPERTIES ReceivesWhatIsTyped CallReturns
