SPECIFICATION Spec
CONSTANTS
  a = a
  b = b
  Trail = Trail
  NUL = NUL
  Junk = Junk
  NoText = NoText
  Chars <- MCChars
  Wide = {}
  Sizes = {24}
  KeyMax = 2
  MaxDepth = 4
  Keys <- MCKeys
  Values <- MCValues
  MaxNodes = 3
INVARIANTS SequencesAsWritten
\* The stream ends, and so does the run when an enqueue fails.
CHECK_DEADLOCK FALSE
