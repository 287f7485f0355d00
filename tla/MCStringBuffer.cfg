SPECIFICATION LiveSpec
CONSTANTS
  a = a
  b = b
  NUL = NUL
  Junk = Junk
  Chars <- MCChars
  Strings <- MCStrings
  Word <- MCWord
  Last = 10
  Headrooms <- OneToThree
  DestSizes = {4, 5, 8}
  ReadsUnderReservation = FALSE
INVARIANTS TypeOK ReserveAsserts RegionsApart ReservationHolds UnreadIntact
PROPERTIES QueueSpec WritesInsideReservation RefusalEnds HeadIsRead
