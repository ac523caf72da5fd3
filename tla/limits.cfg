CONSTANTS
  i1 = i1
  i2 = i2
  r1 = r1
  r2 = r2
  r3 = r3
  r4 = r4
  None = None
  Instances = {i1, i2}
  Requests = {r1, r2, r3, r4}
  MaxRequests = 2
  Window = 3
  Second = 2
  Horizon = 3
  MaxRestarts = 1
SYMMETRY Symmetric
SPECIFICATION Spec
INVARIANTS WindowBound RetrySuffices FleetBound
