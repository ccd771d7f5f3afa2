SPECIFICATION Spec
CONSTANTS
  p1 = p1
  p2 = p2
  w1 = w1
  w2 = w2
  NoPlayer = NoPlayer
  Players <- MCPlayers
  Peers = {p2}
  Workers <- TwoWorkers
  ClientInput <- MCClientInput
  Datagrams <- AheadOnce
  MaxFrame = 2
  MinHistory = 0
  MissLimit = 1
  MaxPerPacket = 2
  PruneKeep = 2
SYMMETRY Symmetric
INVARIANTS
  StoredInputsSkipped
\* The match ends when every player is disconnected.
CHECK_DEADLOCK FALSE
