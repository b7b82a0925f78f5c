SPECIFICATION Spec
CONSTANTS
  Udids = {u1, u2}
INVARIANT TransportSurfaces
