CONSTANTS
  n1 = n1
  n2 = n2
  x1 = x1
  x2 = x2
  x3 = x3
  i1 = i1
  i2 = i2
  f1 = f1
  None = None
  Creates = {n1, n2}
  Changes = {x1, x2, x3}
  Instances = {i1, i2}
  Alone = i1
  Flights = {f1}
  Capacity <- OneSeat
  MaxRestarts = 1
SYMMETRY Symmetry
SPECIFICATION Spec
INVARIANTS SeatsAddUp NoOversale ReportedIsStored
CHECK_DEADLOCK FALSE
