SPECIFICATION Spec
CONSTANTS
  Bundles = {b1, b2}
  Runs = {r1, r2}
  Calls = {c1}
  Device = Device
  CliTTL = 2
  McpTTL = 1
  ProbeTime = 1
  MaxProbes = 2
  MaxNow = 5
  MaxBack = 1
SYMMETRY MCSymmetry
PROPERTY VendedLately
PROPERTY LastAnswerCounts
