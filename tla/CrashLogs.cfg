SPECIFICATION Spec
CONSTANTS
  r1 = r1
  r2 = r2
  star = star
  one = one
  none = none
  Calls = {c1}
  Commands <- MCCommands
  Reports <- MCReports
  Patterns = {star, one, none}
  Match <- MCMatch
  Star = star
  Empty = none
INVARIANT ConsentedDeletions
INVARIANT ConsentedOverwrites
INVARIANT CountsHold
INVARIANT EarlyCancelHarmless
PROPERTY CancelReturns
CHECK_DEADLOCK FALSE
