SPECIFICATION MCRun
CONSTANTS
  a = a
  b = b
  w = w
  Trail = Trail
  NUL = NUL
  Junk = Junk
  NoText = NoText
  Lost = Lost
  MaxFaults = 1
  Chars <- MCChars
  Wide <- MCWide
  Sizes = {21}
  KeyMax = 2
  MaxDepth = 2
  Keys <- MCKeys
  Values <- MCMoreValues
  MaxNodes = 5
  Size = 5
  KeyLen = 1
  ValueLen = 1
  TextLast = 14
  FreshDepths = {0}
  OutNodes = {"keyed", "unusable"}
INVARIANTS RunType PassedAsWritten DepthFollowsDocument RelationsTrue
PROPERTIES TransferSpec
\* A run returns.
CHECK_DEADLOCK FALSE
