SPECIFICATION SplitSpec
CONSTANTS
  MaxArgs = 4
INVARIANT SwitchesHonoured
INVARIANT NoTokenLost
CHECK_DEADLOCK FALSE
