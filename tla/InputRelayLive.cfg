SPECIFICATION FairSpec
CONSTANTS
  p1 = p1
  p2 = p2
  w1 = w1
  w2 = w2
  NoPlayer = NoPlayer
  Players <- MCPlayers
  Peers = {p2}
  Workers <- OneWorker
  ClientInput <- MCClientInput
  Datagrams <- Ahead
  MaxFrame = 2
  MinHistory = 1
  MissLimit = 1
  MaxPerPacket = 1
  PruneKeep = 2
PROPERTIES
  EventuallyServed
\* The match ends when every player is disconnected.
CHECK_DEADLOCK FALSE
