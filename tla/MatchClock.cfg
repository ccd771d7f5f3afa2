SPECIFICATION Spec
CONSTANTS
  Interval = 2
  Works <- MCWorks
  Lates <- MCLates
  MaxWork = 10
  MaxLate = 1
  FrameTime = 2
  MaxPing = 4
  MaxRift = 20
  EarlyFrames = 4
  RiftPeriod = 3
  Scale = 4
  PingShare = 2
  RiftShare = 2
  Delay = 1
  Jitters <- MCJitters
  MaxJitter = 1
  MaxLost = 1
  Leads <- MCLeads
  Horizon = 20
INVARIANTS
  TypeOK
  ErrorBounded
  NoBurst
  FrameFollowsClock
  PingWithinSamples
  RiftNotExaggerated
  RiftPointsRight
PROPERTIES
  PauseBounded
CHECK_DEADLOCK FALSE
