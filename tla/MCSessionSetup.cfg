SPECIFICATION SetupSpec
CONSTANTS
  Initiators = {i1, i2}
  Responders = {r1, r2}
  NoKey = NoKey
  Altered = Altered
  NoPool = NoPool
  InitialBatch = 1
  MaxKeys = 4
  MaxInitiations = 2
  MaxRestarts = 1
INVARIANTS
  OneSessionEach
  OtherEnd
  NoLoneInitiator
  PrekeysTypeOK
  AnswersOnce
  SameSession
  RefusedFairly
  SavedBundleAnswerable
PROPERTIES
  HandshakesPair
  FinishedGetsSession
  PrekeysPair
CHECK_DEADLOCK FALSE
