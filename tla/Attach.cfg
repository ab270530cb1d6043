CONSTANTS
  t1 = t1
  t2 = t2
  Docs <- MCDocs
  Tokens <- MCTokens
  Requests <- MCRequests
  MaxChanges = 3
  Empty = Empty
  Absent = Absent
  NoToken = NoToken
SPECIFICATION Spec
INVARIANTS
  TypeOK
  StoredTokensValidated
  ClosestSecretWins
  UrlAgreesWithId
  ExplicitCredentialWins
