CONSTANTS
  Clients = {c1, c2}
  Requests = {r1, r2}
  None = None
  Retries = 1
  MaxCopies = 1
SPECIFICATION FairSpec
INVARIANT TypeOK
PROPERTIES ImplementsRemoteCall OnlyRetriesComeBack CallsEnd
CHECK_DEADLOCK FALSE
