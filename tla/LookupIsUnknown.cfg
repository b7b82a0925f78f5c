SPECIFICATION Spec
CONSTANTS
  Bundles = {b1}
  MaxTargets = 2
  Failures <- MCFailures
INVARIANT LookupIsUnknown
CHECK_DEADLOCK FALSE
