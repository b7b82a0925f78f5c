SPECIFICATION Spec
CONSTANTS
  t1 = t1
  t2 = t2
  c1 = c1
  n1 = n1
  n2 = n2
  o1 = o1
  tdir = tdir
  cfile = cfile
  ndir = ndir
  odir = odir
  Files <- MCFiles
  Kids <- MCKids
  Area <- MCArea
  Kid <- MCKid
  MaxAppOps = 0
  NoOp = NoOp
CHECK_DEADLOCK FALSE
INVARIANT QuietRunLeavesNothing
