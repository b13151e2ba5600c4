SPECIFICATION Spec
CONSTANTS
  NumAccounts = 2
  BLOCK_REWARD = 2
  Anomalous <- MCNone
  max_size = 2
  limit = 2
  Nodes = {1, 2}
  Txs <- MCTxs
  Losses <- MCMarginal
  initial_difficulty = 1
  min_difficulty = 1
  max_difficulty = 2
  MaxBlocks = 3
  MaxInvalid = 1
INVARIANTS
  ChainsStayValid
