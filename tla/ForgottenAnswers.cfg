SPECIFICATION Spec
CONSTANTS
  Bundles = {b1, b2}
  Runs = {r1}
  Calls = {c1}
  Device = Device
  CliTTL = 3
  McpTTL = 2
  ProbeTime = 1
  MaxProbes = 2
  MaxNow = 3
  MaxBack = 0
PROPERTY RefusalExplained
