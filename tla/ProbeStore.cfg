SPECIFICATION Spec
CONSTANTS
  Procs = {p1, p2}
  Udids = {u1, u2}
  Docs = {d1, d2}
  Inodes = {i1, i2, i3}
  Chunks = 2
  MaxFaults = 1
  NoDoc = NoDoc
  NoFile = NoFile
  LoadErr = LoadErr
  NoInode = NoInode
INVARIANT FinalIntact
INVARIANT OrphansAreFaults
PROPERTY SnapshotReads
PROPERTY ImplementsCache
SYMMETRY Symmetry
