SPECIFICATION Spec
CONSTANTS
  Calls = {c1, c2, c3}
  Admins = {a1}
  Pollers = {}
  Tools = {x}
  Modes = {"queue", "token"}
  KvEnabled = TRUE
  None = None
INVARIANT SingleUse
