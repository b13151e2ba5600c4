\* Careful clients; the server may come to rest once they are served.
SPECIFICATION FairSpec
CHECK_DEADLOCK FALSE
CONSTANTS
  NumAccounts = 2
  BLOCK_REWARD = 2
  Anomalous <- MCNone
  max_size = 2
  limit = 2
  Workers = {w1, w2}
  MiningWorkers = {w1}
  Miner = 1
  Txs <- MCSound
  Clients = "one at a time"
  Route = "python"
  MaxEmpty = 2
PROPERTIES
  SubmittedIsMined
