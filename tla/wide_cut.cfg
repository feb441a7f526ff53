SPECIFICATION Spec
CONSTANTS
  Guids = {"A"}
  Loopback = "loopback"
  Aliases = {"lan"}
  Numeral <- MCNumeral
  IfIndices = {1}
  IfTexts = {"A"}
  NameW = 4
  DescW = 3
  MaxChars = 4
  Bits = 4
  MaxMoves = 0
CHECK_DEADLOCK FALSE
INVARIANT ColumnsLineUp
