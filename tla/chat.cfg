CONSTANTS
  t1 = t1
  t2 = t2
  c1 = c1
  None = None
  NoToken = NoToken
  Policy <- MCPolicy
  Callers = {t1, t2, c1}
  Turns = {t1, t2}
  Clients = {c1}
  Tokens <- MCTokens
  Setups <- MCSetups
  Raw <- MCRaw
  Scenes <- MCScenes
  Tools = {"search", "book"}
  Names = {"search", "book", "ghost", "none"}
  MaxPolls = 2
  MaxReinits = 1
  MaxCrashes = 1
SPECIFICATION FairSpec
INVARIANTS TypeOK AnsweredOnce GuardsAgree SaysWhatHappened TokenForItsCall
PROPERTIES TurnsEnd
