SPECIFICATION HSpec
CONSTANTS
  WIDTH = 3
  HEIGHT = 2
  TAB = 2
  BYTE = 3
  Glyphs = {" ", "a"}
  Silent = {"back"}
  Colors = {"grey", "white"}
  GREY = "grey"
  MAX_GONE = 1
INVARIANTS TypeOK CursorShown
PROPERTIES ImplementsPaper
