SPECIFICATION Spec
CONSTANTS
  Bundles = {b1}
  MaxTargets = 2
  Failures <- MCFailures
INVARIANT RefusalIsPolicy
CHECK_DEADLOCK FALSE
