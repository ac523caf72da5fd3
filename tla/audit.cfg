CONSTANTS
  i1 = i1
  i2 = i2
  b1 = b1
  b2 = b2
  x1 = x1
  x2 = x2
  x3 = x3
  None = None
  Instances = {i1, i2}
  Batches = {b1, b2}
  Rows = {x1, x2, x3}
  MaxRows = 2
  MaxRestarts = 2
CONSTANT RowsOf <- MCRowsOf
CONSTANT KeyOf <- MCKeyOf
SYMMETRY Symmetric
SPECIFICATION Spec
INVARIANTS PersistedIsKept NoRowTwice OwnRowsLast
