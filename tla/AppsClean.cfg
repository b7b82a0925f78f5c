SPECIFICATION Spec
CONSTANTS
  t1 = t1
  n1 = n1
  n2 = n2
  tdir = tdir
  ndir = ndir
  app = app
  apple = apple
  cyr = cyr
  Files <- MCFiles
  Kids <- MCKids
  Area <- MCArea
  Kid <- MCKid
  MaxAppOps = 1
  NoOp = NoOp
  Requests <- MCRequests
  Caches <- MCCaches
  Apple = {apple}
  NonAscii = {cyr}
  MaxNow = 3
  CliTTL = 2
  McpTTL = 1
INVARIANT GateSound
INVARIANT SessionScoped
INVARIANT ExitHonest
PROPERTY ImplementsContract
PROPERTY CancelReturns
CHECK_DEADLOCK FALSE
