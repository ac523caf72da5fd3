CONSTANTS
  seeded = seeded
  added = added
  c1 = c1
  c2 = c2
  i1 = i1
  i2 = i2
  w1 = w1
  w2 = w2
  k1 = k1
  None = None
  Instances = {i1, i2}
  Ids = {seeded, added}
  Configs = {c1, c2}
  NoCredential = {c2}
  Writers = {w1, w2}
  Calls = {k1}
  MaxRestarts = 1
CONSTANT Seed <- MCSeed
SYMMETRY Symmetric
SPECIFICATION Spec
INVARIANTS TypeOK PolicyFollowsRegistry CheckedAgainstItsTarget AnswersStand
