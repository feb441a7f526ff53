SPECIFICATION Spec
CONSTANTS
  Guids = {"A", "B"}
  Loopback = "loopback"
  Aliases = {"lan", "2"}
  Numeral <- MCNumeral
  IfIndices = {1, 2}
  IfTexts = {"A", "loopback", "lan", "nic", "", "0", "1", "2", "9"}
  NameW = 4
  DescW = 3
  MaxChars = 4
  Bits = 4
  MaxMoves = 1
CHECK_DEADLOCK FALSE
INVARIANT TypeOK
INVARIANT RowSelectsDevice
INVARIANT ColumnsFit
INVARIANT FilterOnSharedNic
INVARIANT MaskMatchesPrefix
