SPECIFICATION Spec
CONSTANTS
  Udids = {u1, u2}
  None = None
INVARIANT FirstErrorReported
