SPECIFICATION Spec
CONSTANTS
  e1 = e1
  e2 = e2
  e3 = e3
  w1 = w1
  w2 = w2
  Workers <- TwoWorkers
  Endpoints <- TwoEndpoints
  Index <- TwoClients
  Kinds = {"ready", "notReady", "input", "disconnecting"}
  MatchIds = {1}
  MayStop = FALSE
  MaxMatches = 1
  MaxPlayers = 3
  MaxReports = 2
SYMMETRY SymmetricWorkers
INVARIANTS
  OneLoop
\* Clients may stop sending.
CHECK_DEADLOCK FALSE
