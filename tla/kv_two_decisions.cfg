SPECIFICATION FairSpec
CONSTANTS
  Calls = {c1}
  Admins = {a1, a2}
  Pollers = {}
  Tools = {x}
  Modes = {"hold"}
  KvEnabled = TRUE
  None = None
PROPERTY ResolutionIsFinal
