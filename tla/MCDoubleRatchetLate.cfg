SPECIFICATION Spec
CONSTANTS
  Alice = Alice
  Bob = Bob
  NoKey = NoKey
  MaxSkip = 3
  MaxSteps = 3
  MaxChain = 2
  MaxSent = 5
  MaxCopies = 1
CHECK_DEADLOCK FALSE
INVARIANT
  OutOfOrderHandled
