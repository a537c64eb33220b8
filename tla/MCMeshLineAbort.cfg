SPECIFICATION Spec
CONSTANTS
  a = a
  b = b
  c = c
  x = x
  y = y
  Node = {a, b, c}
  Link = {{a, b}, {b, c}}
  Distance <- MCDistance
  Id = {y}
  PriorityOf <- MCPriorityOf
  ExpiresAt <- MCExpiresAt
  MaxTtl = 3
  Origin <- MCOrigin
  InitTtl <- MCInitTtl
  Capacity = 2
  FalsePositives <- MCExactly
  Difficulties = {0}
  ProofOf <- MCProofOf
  RateLimits <- MCLimits
  FrameBytes <- MCFrameBytes
  DiskFaults = FALSE
  MaxContacts = 2
  MaxDrops = 1
  MaxTime = 0
PROPERTY
  FloodsToEveryContact
CHECK_DEADLOCK FALSE
