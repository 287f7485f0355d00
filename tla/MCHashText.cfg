SPECIFICATION HashSpec
CONSTANTS
  Byte = 4
  Rates <- MCRates
  BadLens = {5}
  HashBits = 8
  MaxUpdate = 25
  MaxGiven = 30
  MaxOut = 20
  MaxHashed = 2
INVARIANTS NothingLost
PROPERTIES SpongeSpec ReadsAsWritten
