SPECIFICATION MCTunedSpec
CONSTANTS
  a = a
  b = b
  c = c
  x = x
  y = y
  Node = {a, b, c}
  Link = {{a, b}, {b, c}}
  Distance <- MCDistance
  Id = {x}
  PriorityOf <- MCPriorityOf
  ExpiresAt <- MCExpiresAt
  MaxTtl = 3
  Origin <- MCOrigin
  InitTtl <- MCInitTtl
  Capacity = 2
  FalsePositives <- MCExactly
  Difficulties = {0, 1}
  ProofOf <- MCProofOf
  RateLimits <- MCTightLimits
  FrameBytes <- MCFrameBytes
  DiskFaults = TRUE
  MaxContacts = 2
  MaxDrops = 1
  MaxTime = 0
INVARIANT
  HopHorizon
PROPERTY
  PassesOnVerified
CHECK_DEADLOCK FALSE
