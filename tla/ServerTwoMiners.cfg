\* Two threads serve POST /mine.
SPECIFICATION Spec
CHECK_DEADLOCK FALSE
CONSTANTS
  NumAccounts = 2
  BLOCK_REWARD = 2
  Anomalous <- MCNone
  max_size = 1
  limit = 2
  Workers = {w1, w2}
  MiningWorkers = {w1, w2}
  Miner = 1
  Txs <- MCPair
  Clients = "solvent"
  Route = "http"
  MaxEmpty = 2
INVARIANTS
  AppliedAtomically
