SPECIFICATION Spec
CONSTANTS
  Texts <- MCTexts
  Empty = ""
  Matches <- MCMatches
  Reads <- MCReads
  Whole <- MCWhole
  ReadsHex <- MCReadsHex
  Fits <- MCFits
  XSecond <- MCXSecond
INVARIANTS TagsType
PROPERTIES InferredIsImported AcceptedIsOwn
\* A number that ICU cannot read ends the program, and so does a type that is NULL.
CHECK_DEADLOCK FALSE
