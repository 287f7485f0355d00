SPECIFICATION Spec
CONSTANTS
  Size = 3
  KeyLen = 1
  ValueLen = 1
  TextLast = 15
  MaxNodes = 6
  MaxDepth = 3
  FreshDepths = {0, 1}
  ReadsDrainedEnd = FALSE
INVARIANTS TypeOK StackMatchesDepth CrashCauses WaitingOwnTheirText TrueParent ParentDepth
PROPERTIES FifoSpec
\* The program stops on a failed assertion or a NULL pointer, and when the bound is met.
CHECK_DEADLOCK FALSE
