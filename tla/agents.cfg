CONSTANTS
  a1 = a1
  i1 = i1
  i2 = i2
  v1 = v1
  v2 = v2
  d1 = d1
  d2 = d2
  u1 = u1
  None = None
  Creations = {a1}
  Instances = {i1, i2}
  ById = {v1}
  BySecret = {v2}
  Revokes = {d1, d2}
  Uses = {u1}
  MaxCrashes = 2
SYMMETRY Symmetric
SPECIFICATION Spec
INVARIANTS OneTimeReveal ActiveIsUsable RevokedIsGone RevokedIsUseless
