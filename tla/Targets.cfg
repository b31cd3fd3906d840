CONSTANTS
  Clients = {c1}
  Pids = {p1, p2}
  NoPid = NoPid
  Live = 2
  Patience = 1
SPECIFICATION TSpec
INVARIANTS CacheIsEvidence OneLatePoll
PROPERTIES ConnectsOnEvidence StaleTrustEnds TimeoutIsDue QueriesReturn
