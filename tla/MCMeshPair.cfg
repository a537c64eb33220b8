SPECIFICATION FairHistorySpec
CONSTANTS
  a = a
  b = b
  x = x
  y = y
  Node = {a, b}
  Link = {{a, b}}
  Distance <- MCDistance
  Id = {x, y}
  PriorityOf <- MCPriorityOf
  ExpiresAt <- MCExpiresAt
  MaxTtl = 2
  Origin <- MCOrigin
  InitTtl <- MCInitTtl
  Capacity = 1
  FalsePositives <- MCConfused
  Difficulties = {0}
  ProofOf <- MCProofOf
  RateLimits <- MCLimits
  FrameBytes <- MCFrameBytes
  DiskFaults = FALSE
  MaxContacts = 2
  MaxDrops = 1
  MaxTime = 1
INVARIANTS
  TypeOK
  ContactSynced
PROPERTY
  GossipDiesDown
CHECK_DEADLOCK FALSE
