SPECIFICATION Spec
CONSTANTS
  Bundles = {b1, b2}
  MaxTargets = 2
  Failures <- MCFailures
INVARIANT ConnOwned
INVARIANT RowsTruthful
INVARIANT FewLateDials
INVARIANT SavedCoversTargets
PROPERTY RunEnds
PROPERTY SessionsClosed
CHECK_DEADLOCK FALSE
