SPECIFICATION MCSpec
CONSTANTS
  Device = {a, b, c}
  Founder = a
  NoGroup = NoGroup
  Tolerance = 2
  MaxMembers = 2
  MaxCommits = 3
  MaxMessages = 3
  MaxRestarts = 2
INVARIANTS
  GroupsTypeOK
  KeepsOwnCommits
  KeysSealOnce
  ReadsOnce
  StillReadable
PROPERTIES
  Converges
CHECK_DEADLOCK FALSE
