SPECIFICATION Spec
CONSTANTS
  e1 = e1
  e2 = e2
  e3 = e3
  w1 = w1
  w2 = w2
  Workers <- OneWorker
  Endpoints <- ThreeEndpoints
  Index <- Reconnecting
  Kinds = {"ready", "input", "disconnecting", "result"}
  MatchIds = {1, 2}
  MayStop = TRUE
  MaxMatches = 2
  MaxPlayers = 3
  MaxReports = 2
INVARIANTS
  TypeOK
  OneLoop
  EndReportedOnce
  NoZombies
  PingPhaseOnce
PROPERTIES
  ImplementsPhases
\* Clients may stop sending.
CHECK_DEADLOCK FALSE
