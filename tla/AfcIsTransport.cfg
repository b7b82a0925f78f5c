SPECIFICATION Spec
CONSTANTS
  Bundles = {b1}
  MaxTargets = 2
  Failures <- MCFailures
INVARIANT AfcIsTransport
CHECK_DEADLOCK FALSE
