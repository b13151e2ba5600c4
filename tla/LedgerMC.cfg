SPECIFICATION Spec
CONSTANTS
  NumAccounts = 2
  BLOCK_REWARD = 2
  BlockBodies <- MCBodies
  Batches <- MCBatches
  initial_difficulty = 1
  hasController = TRUE
  min_difficulty = 1
  max_difficulty = 2
  MaxHeight = 5
INVARIANTS
  TypeOK
  OverdrawnByCoinbaseOnly
  SupplyBound
  NoReplay
  ReplayReproducesState
PROPERTIES
  DebitNeedsNonce
  BankSpec
