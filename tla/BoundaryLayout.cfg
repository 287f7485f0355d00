\* 25 is one byte over a multiple of three, as is the program's own size, 1024.
SPECIFICATION BoundarySpec
CONSTANTS
  a = a
  w = w
  Trail = Trail
  NUL = NUL
  Junk = Junk
  NoText = NoText
  Chars <- MCChars
  Wide <- MCWide
  Texts <- MCTexts
  Sizes = {25}
  MaxPuts = 3
INVARIANT NothingOverflows
