SPECIFICATION FairSpec
CONSTANTS
  NumAccounts = 2
  BLOCK_REWARD = 2
  Anomalous <- MCNone
  max_size = 2
  limit = 2
  Nodes = {1, 2}
  Txs <- MCTxs
  Losses <- MCLosses
  initial_difficulty = 1
  min_difficulty = 1
  max_difficulty = 1
  MaxBlocks = 3
  MaxInvalid = 1
INVARIANTS
  TypeOK
  LedgersReplay
  CommonBlockCommonHistory
PROPERTIES
  ScoreOnlyRises
  LeavesPoolConfirmed
  Convergence
