CONSTANTS
  a1 = a1
  a2 = a2
  d1 = d1
  read = read
  write = write
  None = None
  Creations = {a1, a2}
  Deletions = {d1}
  Scopes = {read, write}
  Declared = {read}
  Providers = {"auth0", "entra"}
  RetryLimit = 2
SPECIFICATION FairSpec
INVARIANTS TypeOK CreatedIsComplete FailureLeavesNothing
PROPERTIES CreationsEnd KeepsIdpPromise
