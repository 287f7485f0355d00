SPECIFICATION Spec
CONSTANTS
  a = a
  w = w
  Trail = Trail
  NUL = NUL
  Junk = Junk
  NoText = NoText
  Chars <- MCChars
  Wide <- MCWide
  Sizes = {27}
  KeyMax = 3
  MaxDepth = 2
  Keys <- MCKeys
  Values <- MCValues
  Nesting = 3
  MaxNodes = 4
INVARIANTS NodeAsGiven
