\* A client that pays twice, the second time with the higher fee.
SPECIFICATION FairSpec
CHECK_DEADLOCK FALSE
CONSTANTS
  NumAccounts = 2
  BLOCK_REWARD = 2
  Anomalous <- MCNone
  max_size = 2
  limit = 2
  Workers = {w1, w2}
  MiningWorkers = {w1}
  Miner = 1
  Txs <- MCPair
  Clients = "solvent"
  Route = "python"
  MaxEmpty = 2
PROPERTIES
  SubmittedIsMined
