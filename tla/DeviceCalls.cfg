SPECIFICATION CallsSpec
CONSTANTS
  Udids = {u1, u2}
  None = None
INVARIANT RightDevice
INVARIANT AnswerComplete
INVARIANT CancelHasCause
INVARIANT SteadyShown
PROPERTY EveryCallEnds
