SPECIFICATION AdviceSpec
CONSTANTS
  Inputs <- MCInputs
  Apple = {3}
INVARIANT GenericWhenNoneLarge
