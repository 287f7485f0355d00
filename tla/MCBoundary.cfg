SPECIFICATION BoundarySpec
CONSTANTS
  a = a
  w = w
  Trail = Trail
  NUL = NUL
  Junk = Junk
  NoText = NoText
  Chars <- MCChars
  Wide <- MCWide
  Texts <- MCTexts
  Sizes = {15, 24, 26, 27}
  MaxPuts = 3
INVARIANTS ConversionFits LayoutHolds
PROPERTIES BatchSpec
