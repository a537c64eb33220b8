SPECIFICATION Spec
CONSTANTS
  s = s
  n = n
  l = l
  Id = {s, n, l}
  PriorityOf <- MCPriorityOf
  ExpiresAt <- MCExpiresAt
  MaxTtl = 2
  Time = {0, 1}
  Capacities = {1, 2}
  MaxSeq = 4
  DiskFaults = TRUE
INVARIANT
  HeldIsOnDisk
