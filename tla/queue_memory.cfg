SPECIFICATION Spec
CONSTANTS
  Calls = {c1, c2, c3}
  Admins = {a1, a2}
  Pollers = {}
  Tools = {x, y}
  Modes = {"hold", "token"}
  KvEnabled = FALSE
  None = None
SYMMETRY Symmetry
INVARIANTS TypeOK SingleUse DeniedNeverForwarded ForwardAudited
PROPERTIES ResolutionIsFinal KeepsPromise
