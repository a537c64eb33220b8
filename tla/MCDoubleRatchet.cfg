SPECIFICATION Spec
CONSTANTS
  Alice = Alice
  Bob = Bob
  NoKey = NoKey
  MaxSkip = 2
  MaxSteps = 3
  MaxChain = 2
  MaxSent = 5
  MaxCopies = 2
INVARIANTS
  TypeOK
  OpensOnce
  ForwardSecret
  Aligned
  NothingLost
CHECK_DEADLOCK FALSE
