SPECIFICATION Spec
CONSTANTS
  Bundles = {b1}
  MaxTargets = 2
  Failures <- MCFailures
INVARIANT SingleFlight
CHECK_DEADLOCK FALSE
