SPECIFICATION Spec
CONSTANTS
  MaxPrompts = 2
  MaxInput = 4
INVARIANT PullHasItsYeses
INVARIANT TerminalLinePerPrompt
INVARIANT OneReader
PROPERTY CancelReturns
CHECK_DEADLOCK FALSE
