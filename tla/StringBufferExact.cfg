SPECIFICATION Spec
CONSTANTS
  a = a
  b = b
  NUL = NUL
  Junk = Junk
  Chars <- MCChars
  Strings <- MCStrings
  Word <- MCWord
  Last = 11
  Headrooms <- Exact
  DestSizes = {4, 5, 8}
  ReadsUnderReservation = FALSE
INVARIANTS ReserveAsserts
