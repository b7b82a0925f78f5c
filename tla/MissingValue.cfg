SPECIFICATION SplitSpec
CONSTANTS
  MaxArgs = 2
INVARIANT ValuesAreWritten
CHECK_DEADLOCK FALSE
