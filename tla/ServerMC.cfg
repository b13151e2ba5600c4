\* Any clients, one thread that mines.  An idle server waits for requests:
\* that nobody sends one, or only ones the bound excludes, is no deadlock.
SPECIFICATION Spec
CHECK_DEADLOCK FALSE
CONSTANTS
  NumAccounts = 2
  BLOCK_REWARD = 2
  Anomalous <- MCAnomalous
  max_size = 1
  limit = 2
  Workers = {w1, w2}
  MiningWorkers = {w1}
  Miner = 1
  Txs <- MCTxs
  Clients = "anything"
  Route = "python"
  MaxEmpty = 2
INVARIANTS
  TypeOK
  AppliedAtomically
  NoNegativeRead
  PoolBounded
PROPERTIES
  LeavesPoolConfirmed
  BankSpec
