SPECIFICATION AuthFairSpec
CONSTANTS
  junk = junk
  NoToken = NoToken
  LastToken = 0
  Tokens <- MCTokens
  Garbage <- MCGarbage
  Clients = {c1}
  Expiration = 1
  MaxTime = 2
  Faults = {"write", "unlink", "rename"}
  MaxLines = 2
INVARIANTS RevokedRejected KeptWhileValid
PROPERTIES DeadTokensLeave DestructorReturns
