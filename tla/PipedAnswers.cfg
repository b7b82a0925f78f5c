SPECIFICATION Spec
CONSTANTS
  MaxPrompts = 2
  MaxInput = 4
INVARIANT LinePerPrompt
CHECK_DEADLOCK FALSE
