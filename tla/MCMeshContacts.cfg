SPECIFICATION MCSpec
CONSTANTS
  a = a
  b = b
  c = c
  x = x
  y = y
  Node = {a, b, c}
  Link = {{a, b}, {b, c}}
  Distance <- MCDistance
  Id = {x, y}
  PriorityOf <- MCPriorityOf
  ExpiresAt <- MCExpiresAt
  MaxTtl = 3
  Origin <- MCOrigin
  InitTtl <- MCInitTtl
  Capacity = 2
  FalsePositives <- MCExactly
  Difficulties = {0}
  ProofOf <- MCProofOf
  RateLimits <- MCLimits
  FrameBytes <- MCFrameBytes
  DiskFaults = FALSE
  Reader = {c}
  MaxContacts = 4
  MaxDrops = 4
  MaxTime = 1
INVARIANTS
  HopHorizon
  ContactConverges
PROPERTIES
  Reaches
  Shown
  WindowsExchange
CHECK_DEADLOCK FALSE
