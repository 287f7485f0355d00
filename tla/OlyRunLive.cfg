SPECIFICATION MCLiveRun
CONSTANTS
  a = a
  b = b
  w = w
  Trail = Trail
  NUL = NUL
  Junk = Junk
  NoText = NoText
  Lost = Lost
  MaxFaults = 1
  Chars <- MCChars
  Wide <- MCWide
  Sizes = {21}
  KeyMax = 2
  MaxDepth = 1
  Keys <- MCKeys
  Values <- MCValues
  MaxNodes = 3
  Size = 3
  KeyLen = 1
  ValueLen = 1
  TextLast = 12
  FreshDepths = {0}
  OutNodes = {"keyed", "keyless", "unusable"}
PROPERTIES RunEnds
\* A run returns.
CHECK_DEADLOCK FALSE
