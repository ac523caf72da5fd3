SPECIFICATION FairSpec
CONSTANTS
  Calls = {c1, c2}
  Admins = {a1}
  Pollers = {g1}
  Tools = {x}
  Modes = {"allowed", "refused", "hold", "queue", "token"}
  KvEnabled = FALSE
  None = None
INVARIANT ApprovedComesWithToken
PROPERTIES EveryHandlerAnswers HeldCallHearsDecision
