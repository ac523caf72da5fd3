SPECIFICATION Spec
CONSTANTS
  Calls = {c1, c2}
  Admins = {a1, a2}
  Pollers = {}
  Tools = {x, y}
  Modes = {"hold", "token"}
  KvEnabled = TRUE
  None = None
SYMMETRY Symmetry
INVARIANTS ForwardedWasApproved TokenOnlyIfApproved WaitingIsListed
