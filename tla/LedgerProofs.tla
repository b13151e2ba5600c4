---------------------------- MODULE LedgerProofs ----------------------------
(***************************************************************************)
(* What holds of a ledger for every number of accounts, every reward, every *)
(* set of offered blocks and batches and every bound on the height.         *)
(***************************************************************************)
EXTENDS Ledger, BlockchainProofs

(* The inductive invariant. *)
IInv ==
  /\ TypeOK /\ OverdrawnByCoinbaseOnly /\ SupplyBound /\ NoReplay
  /\ ReplayReproducesState

-----------------------------------------------------------------------------
(* The blocks a ledger commits are well typed, whatever their transactions. *)

LEMMA CandidateType ==
  ASSUME TypeOK, NEW b \in Candidates
  PROVE  b \in Block
<1>1. PICK txs \in Batches, miner \in Accounts, sealed \in BOOLEAN :
        b = Candidate(txs, miner, sealed)
  BY DEF Candidates
<1>2. CandidateBody(txs, miner) \in Seq(Transaction)
  BY BatchesAssumption, CandidateBodyType
<1>3. /\ FreshHash \in Nat /\ height + 1 \in Nat /\ last_block.hash \in Int
  <2>1. last_block \in Block /\ Len(chain) \in Nat
    BY DEF TypeOK, last_block
  <2>2. last_block.hash \in Int
    BY <2>1 DEF Block
  <2> QED BY <2>1, <2>2 DEF FreshHash, height
<1> QED BY <1>1, <1>2, <1>3 DEF Candidate, Block

LEMMA OfferedType ==
  ASSUME TypeOK, NEW b \in Offered
  PROVE  b \in Block
<1>1. /\ FreshHash \in Nat /\ 0..MaxHeight \subseteq Nat
      /\ 0..(Len(chain) + 1) \subseteq Int
  BY HeightAssumption DEF TypeOK, FreshHash
<1> QED BY <1>1, BodiesAssumption DEF Offered, Block

(* So a step commits a block, or it changes nothing. *)
LEMMA StepCommits ==
  ASSUME TypeOK, [Next]_vars
  PROVE  UNCHANGED vars \/ \E b \in Block : Commit(b)
<1>1. CASE AddBlock
  BY <1>1, OfferedType DEF AddBlock, Reject
<1>2. CASE Mine
  BY <1>2, CandidateType DEF Mine, Reject
<1> QED BY <1>1, <1>2 DEF Next

-----------------------------------------------------------------------------
(* What committing a block does. *)

LEMMA CommitEffect ==
  ASSUME TypeOK, NEW b \in Block, Commit(b)
  PROVE  /\ b.transactions \in Seq(Transaction)
         /\ acct \in AccountState /\ acct' \in AccountState
         /\ acct' = ApplyBlock(acct, b.transactions)
         /\ ValidTransactions(acct, b.transactions)
         /\ \A a \in Accounts :
              /\ Moved(acct, acct', a, CoinbaseDebit(b.transactions, a))
              /\ \A owed \in Nat :
                   -owed <= balances[a] =>
                     -owed <= balances'[a] + CoinbaseDebit(b.transactions, a)
         /\ Total(balances') <= Total(balances) + BLOCK_REWARD
<1> DEFINE after == ApplyBlock(acct, b.transactions)
<1>1. acct \in AccountState /\ acct.balances = balances /\ acct.nonces = nonces
  BY DEF TypeOK, acct, AccountState
<1>2. b.transactions \in Seq(Transaction)
  BY DEF Block
<1>3. ValidTransactions(acct, b.transactions)
  BY DEF Commit, ValidBlock
<1>4. /\ after \in AccountState
      /\ \A a \in Accounts :
           /\ Moved(acct, after, a, CoinbaseDebit(b.transactions, a))
           /\ \A owed \in Nat :
                -owed <= acct.balances[a] =>
                  -owed <= after.balances[a] + CoinbaseDebit(b.transactions, a)
      /\ Total(after.balances) <= Total(acct.balances) + BLOCK_REWARD
  BY <1>1, <1>2, <1>3, ApplyValidated, IssuanceBound
<1>5. balances' = after.balances /\ nonces' = after.nonces
  BY DEF Commit
<1> HIDE DEF after
<1>6. acct' = after
  BY <1>4, <1>5 DEF acct, AccountState
<1> QED BY <1>1, <1>2, <1>3, <1>4, <1>5, <1>6 DEF after

LEMMA CommitTypeOK ==
  ASSUME TypeOK, NEW b \in Block, Commit(b)
  PROVE  TypeOK'
<1>1. balances' \in [Accounts -> Int] /\ nonces' \in [Accounts -> Nat]
  BY CommitEffect DEF acct, AccountState
<1>2. chain' \in Seq(Block) /\ Len(chain') = Len(chain) + 1
  BY DEF TypeOK, Commit
<1>3. Len(chain') \in 1..(MaxHeight + 1)
  BY <1>2, HeightAssumption DEF TypeOK, Commit, height
<1>4. difficulty' \in min_difficulty..max_difficulty
  BY DifficultyAssumption DEF TypeOK, Commit, Retuned, Clamp
<1> QED BY <1>1, <1>2, <1>3, <1>4 DEF TypeOK

(* What coinbases took from an account grows by what the new block takes.   *)
LEMMA DebitsType ==
  ASSUME TypeOK, NEW a \in Accounts
  PROVE  CoinbaseDebits(chain, a) \in Nat
<1> DEFINE f == [i \in 1..Len(chain) |-> CoinbaseDebit(chain[i].transactions, a)]
<1>1. Len(chain) \in Nat /\ Len(chain) \in 0..Len(chain)
      /\ \A i \in 1..Len(chain) : chain[i].transactions \in Seq(Transaction)
  <2>1. Len(chain) \in Nat /\ \A i \in 1..Len(chain) : chain[i] \in Block
    BY DEF TypeOK
  <2>2. \A b \in Block : b.transactions \in Seq(Transaction)
    BY DEF Block
  <2> QED BY <2>1, <2>2
<1>2. \A i \in 1..Len(chain) : f[i] \in Nat
  BY <1>1, LostSteps
<1>3. CoinbaseDebits(chain, a) = SumTrace(f, Len(chain))[Len(chain)]
  BY DEF CoinbaseDebits, Sum
<1> HIDE DEF f
<1> QED BY <1>1, <1>2, <1>3, SumNat

LEMMA NoDebits ==
  ASSUME chain = <<Genesis>>, NEW a \in Accounts
  PROVE  CoinbaseDebits(chain, a) = 0
<1> DEFINE f == [i \in 1..1 |-> CoinbaseDebit(chain[i].transactions, a)]
<1>1. Len(chain) = 1 /\ chain[1].transactions = <<>>
  BY DEF Genesis
<1>2. CoinbaseDebit(<<>>, a) = 0
  <2>1. <<>> \in Seq(Transaction) /\ Len(<<>>) = 0
    OBVIOUS
  <2> QED BY <2>1, LostSteps DEF CoinbaseDebit
<1>3. f[1] = 0
  BY <1>1, <1>2
<1>4. CoinbaseDebits(chain, a) = Sum(f, 1)
  BY <1>1 DEF CoinbaseDebits
<1> HIDE DEF f
<1>5. Sum(f, 1) = SumTrace(f, 1)[1] /\ SumTrace(f, 1)[1] = SumTrace(f, 1)[0] + f[1]
      /\ SumTrace(f, 1)[0] = 0
  <2>1. \A i \in 1..1 : f[i] \in Int
    BY <1>3
  <2>2. 1 \in Nat /\ 1 \in 1..1 /\ 1 - 1 = 0
    OBVIOUS
  <2> QED BY <2>1, <2>2, SumSteps
<1> QED BY <1>3, <1>4, <1>5

LEMMA CommitDebits ==
  ASSUME TypeOK, NEW b \in Block, Commit(b), NEW a \in Accounts
  PROVE  /\ CoinbaseDebits(chain, a)' =
              CoinbaseDebits(chain, a) + CoinbaseDebit(b.transactions, a)
         /\ CoinbaseDebit(b.transactions, a) \in Nat
<1> DEFINE n == Len(chain)
           f == [i \in 1..n |-> CoinbaseDebit(chain[i].transactions, a)]
           g == [i \in 1..(n+1) |-> CoinbaseDebit(chain'[i].transactions, a)]
<1>1. /\ n \in Nat /\ Len(chain') = n + 1 /\ chain'[n+1] = b
      /\ \A i \in 1..n : chain'[i] = chain[i] /\ chain[i] \in Block
  BY DEF TypeOK, Commit
<1>2. \A i \in 1..(n+1) : chain'[i].transactions \in Seq(Transaction)
  <2>1. \A i \in 1..(n+1) : chain'[i] \in Block
    <3>1. \A i \in 1..(n+1) : i \in 1..n \/ i = n + 1
      BY <1>1
    <3> QED BY <1>1, <3>1
  <2>2. \A c \in Block : c.transactions \in Seq(Transaction)
    BY DEF Block
  <2> QED BY <2>1, <2>2
<1>3. \A i \in 1..(n+1) : g[i] \in Nat
  BY <1>2, LostSteps
<1>4. \A i \in 1..n : g[i] = f[i]
  BY <1>1
<1>5. g[n+1] = CoinbaseDebit(b.transactions, a)
  BY <1>1
<1>6. Sum(g, n + 1) = Sum(f, n) + g[n+1]
  <2> HIDE DEF f, g, n
  <2> QED BY <1>1, <1>3, <1>4, SumAppend
<1>7. /\ CoinbaseDebits(chain, a) = Sum(f, n)
      /\ CoinbaseDebits(chain, a)' = Sum(g, n + 1)
  BY <1>1 DEF CoinbaseDebits
<1>8. n + 1 \in 1..(n+1)
  BY <1>1
<1> HIDE DEF f, g, n
<1> QED BY <1>3, <1>5, <1>6, <1>7, <1>8

LEMMA CommitOverdrawn ==
  ASSUME TypeOK, OverdrawnByCoinbaseOnly, NEW b \in Block, Commit(b)
  PROVE  OverdrawnByCoinbaseOnly'
<1> SUFFICES ASSUME NEW a \in Accounts
             PROVE  balances'[a] >= -CoinbaseDebits(chain, a)'
  BY DEF OverdrawnByCoinbaseOnly
<1>1. /\ CoinbaseDebits(chain, a)' =
           CoinbaseDebits(chain, a) + CoinbaseDebit(b.transactions, a)
      /\ CoinbaseDebit(b.transactions, a) \in Nat
      /\ CoinbaseDebits(chain, a) \in Nat
  BY CommitDebits, DebitsType
<1>2. balances[a] \in Int /\ balances'[a] \in Int
  BY CommitTypeOK DEF TypeOK
<1>3. -CoinbaseDebits(chain, a) <= balances[a]
  BY <1>1, <1>2 DEF OverdrawnByCoinbaseOnly
<1>4. -CoinbaseDebits(chain, a) <= balances'[a] + CoinbaseDebit(b.transactions, a)
  BY <1>1, <1>3, CommitEffect
<1> QED BY <1>1, <1>2, <1>4

LEMMA CommitSupply ==
  ASSUME TypeOK, SupplyBound, NEW b \in Block, Commit(b)
  PROVE  SupplyBound'
<1>1. Total(balances') <= Total(balances) + BLOCK_REWARD
  BY CommitEffect
<1>2. Total(balances) \in Int /\ Total(balances') \in Int
  BY CommitTypeOK, TotalType DEF TypeOK
<1>3. /\ height' = height + 1 /\ height \in Nat
  BY DEF TypeOK, Commit, height
<1>4. BLOCK_REWARD * (height + 1) = BLOCK_REWARD * height + BLOCK_REWARD
      /\ BLOCK_REWARD * height \in Int
  BY <1>3, RewardAssumption
<1>5. Total(balances) <= BLOCK_REWARD * height
  BY DEF SupplyBound
<1>6. Total(balances') <= BLOCK_REWARD * height'
  BY <1>1, <1>2, <1>3, <1>4, <1>5, RewardAssumption
<1> QED BY <1>6 DEF SupplyBound

-----------------------------------------------------------------------------
(* Replay protection *)

(* NoReplay, position by position. *)
Spent(p) == ConfirmedTx(p).nonce < nonces[ConfirmedTx(p).sender]

SameNonce(p, q) ==
  /\ ConfirmedTx(p).sender = ConfirmedTx(q).sender
  /\ ConfirmedTx(p).nonce = ConfirmedTx(q).nonce

LEMMA ConfirmedPositions ==
  ASSUME TypeOK
  PROVE  \A p : p \in Confirmed <=>
           \E i \in 1..Len(chain) : \E j \in 1..Len(chain[i].transactions) :
             p = <<i, j>> /\ ~IsCoinbase(chain[i].transactions[j])
BY DEF Confirmed

LEMMA CommitNoReplay ==
  ASSUME TypeOK, NoReplay, NEW b \in Block, Commit(b)
  PROVE  NoReplay'
<1> DEFINE n == Len(chain)
           txs == b.transactions
<1>1. /\ n \in Nat /\ Len(chain') = n + 1
      /\ chain'[n+1] = b
      /\ \A i \in 1..n : chain'[i] = chain[i] /\ chain[i] \in Block
  BY DEF TypeOK, Commit
<1>2. TypeOK'
  BY CommitTypeOK
<1>3. /\ nonces \in [Accounts -> Nat] /\ nonces' \in [Accounts -> Nat]
      /\ \A a \in Accounts : nonces'[a] >= nonces[a]
  <2>1. \A a \in Accounts : Moved(acct, acct', a, CoinbaseDebit(txs, a))
    BY CommitEffect
  <2> QED BY <1>2, <2>1 DEF Moved, acct, TypeOK
<1>4. \A j \in 1..Len(txs) : ~IsCoinbase(txs[j]) =>
        /\ nonces[txs[j].sender] <= txs[j].nonce
        /\ txs[j].nonce < nonces'[txs[j].sender]
        /\ \A k \in 1..Len(txs) :
             /\ ~IsCoinbase(txs[k])
             /\ txs[k].sender = txs[j].sender
             /\ txs[k].nonce = txs[j].nonce
             => k = j
  <2>1. /\ acct \in AccountState
        /\ ValidTransactions(acct, txs) /\ txs \in Seq(Transaction)
        /\ nonces' = ApplyBlock(acct, txs).nonces /\ nonces = acct.nonces
    BY CommitEffect DEF acct, Commit
  <2> HIDE DEF txs
  <2> QED BY <2>1, BlockNonces
(* a position of the longer chain is an old one or lies in the new block *)
<1>5. ASSUME NEW p \in Confirmed'
      PROVE  \/ /\ p \in Confirmed /\ ConfirmedTx(p)' = ConfirmedTx(p)
                /\ p[1] \in 1..n
             \/ \E j \in 1..Len(txs) : /\ p = <<n + 1, j>>
                                       /\ ConfirmedTx(p)' = txs[j]
                                       /\ ~IsCoinbase(txs[j])
  <2>0. PICK i \in 1..Len(chain') : \E j \in 1..Len(chain'[i].transactions) :
          p = <<i, j>> /\ ~IsCoinbase(chain'[i].transactions[j])
    BY <1>2 DEF Confirmed
  <2>1. PICK j \in 1..Len(chain'[i].transactions) :
          p = <<i, j>> /\ ~IsCoinbase(chain'[i].transactions[j])
    BY <2>0
  <2>2. CASE i = n + 1
    BY <2>1, <2>2, <1>1 DEF ConfirmedTx
  <2>3. CASE i # n + 1
    <3>1. i \in 1..n
      BY <1>1, <2>3
    <3>2. chain'[i] = chain[i]
      BY <1>1, <3>1
    <3>3. p \in Confirmed
      BY <2>1, <3>1, <3>2, ConfirmedPositions
    <3> QED BY <2>1, <3>1, <3>2, <3>3 DEF ConfirmedTx
  <2> QED BY <2>2, <2>3
(* both kinds have a sender with a nonce, and an integer nonce *)
<1>6. \A i \in 1..n : \A j \in 1..Len(chain[i].transactions) :
        chain[i].transactions[j] \in Transaction
  BY <1>1 DEF Block
<1>7. ASSUME NEW p \in Confirmed
      PROVE  /\ ConfirmedTx(p).sender \in Accounts /\ ConfirmedTx(p).nonce \in Nat
             /\ Spent(p)
  <2>0. PICK i \in 1..n : \E j \in 1..Len(chain[i].transactions) :
          p = <<i, j>> /\ ~IsCoinbase(chain[i].transactions[j])
    BY ConfirmedPositions
  <2>1. PICK j \in 1..Len(chain[i].transactions) :
          p = <<i, j>> /\ ~IsCoinbase(chain[i].transactions[j])
    BY <2>0
  <2>2. ConfirmedTx(p) \in Transaction /\ ~IsCoinbase(ConfirmedTx(p))
    BY <2>1, <1>6 DEF ConfirmedTx
  <2>3. Spent(p)
    BY DEF NoReplay, Spent
  <2> QED BY <2>2, <2>3 DEF Transaction, IsCoinbase
<1>8. \A j \in 1..Len(txs) : txs[j] \in Transaction
  BY DEF Block
<1>9. \A j \in 1..Len(txs) : ~IsCoinbase(txs[j]) =>
        txs[j].sender \in Accounts /\ txs[j].nonce \in Nat
  BY <1>8 DEF Transaction, IsCoinbase
<1>10. ASSUME NEW p \in Confirmed' PROVE Spent(p)'
  <2>1. CASE p \in Confirmed /\ ConfirmedTx(p)' = ConfirmedTx(p)
    <3>1. /\ ConfirmedTx(p).nonce < nonces[ConfirmedTx(p).sender]
          /\ ConfirmedTx(p).sender \in Accounts /\ ConfirmedTx(p).nonce \in Nat
      BY <1>7, <2>1 DEF Spent
    <3>2. /\ nonces'[ConfirmedTx(p).sender] >= nonces[ConfirmedTx(p).sender]
          /\ nonces'[ConfirmedTx(p).sender] \in Nat
          /\ nonces[ConfirmedTx(p).sender] \in Nat
      BY <1>3, <3>1
    <3> QED BY <2>1, <3>1, <3>2 DEF Spent
  <2>2. CASE \E j \in 1..Len(txs) : /\ p = <<n + 1, j>>
                                    /\ ConfirmedTx(p)' = txs[j]
                                    /\ ~IsCoinbase(txs[j])
    BY <2>2, <1>4 DEF Spent
  <2> QED BY <1>5, <2>1, <2>2
(* an old transfer and one of the new block differ in their nonces *)
<1>11. ASSUME NEW p \in Confirmed, NEW j \in 1..Len(txs), ~IsCoinbase(txs[j]),
              txs[j].sender = ConfirmedTx(p).sender
       PROVE  txs[j].nonce # ConfirmedTx(p).nonce
  <2>1. /\ ConfirmedTx(p).nonce < nonces[txs[j].sender]
        /\ nonces[txs[j].sender] <= txs[j].nonce
        /\ txs[j].sender \in Accounts
    BY <1>4, <1>7, <1>11 DEF Spent
  <2>2. /\ nonces[txs[j].sender] \in Nat /\ txs[j].nonce \in Nat
        /\ ConfirmedTx(p).nonce \in Nat
    BY <1>3, <1>7, <1>9, <1>11, <2>1
  <2> QED BY <2>1, <2>2
<1>12. ASSUME NEW p \in Confirmed', NEW q \in Confirmed', SameNonce(p, q)'
       PROVE  p = q
  <2>1. CASE /\ p \in Confirmed /\ ConfirmedTx(p)' = ConfirmedTx(p)
             /\ q \in Confirmed /\ ConfirmedTx(q)' = ConfirmedTx(q)
    BY <1>12, <2>1 DEF NoReplay, SameNonce
  <2>2. CASE /\ p \in Confirmed /\ ConfirmedTx(p)' = ConfirmedTx(p)
             /\ \E j \in 1..Len(txs) : /\ q = <<n + 1, j>>
                                       /\ ConfirmedTx(q)' = txs[j]
                                       /\ ~IsCoinbase(txs[j])
    BY <1>11, <1>12, <2>2 DEF SameNonce
  <2>3. CASE /\ q \in Confirmed /\ ConfirmedTx(q)' = ConfirmedTx(q)
             /\ \E j \in 1..Len(txs) : /\ p = <<n + 1, j>>
                                       /\ ConfirmedTx(p)' = txs[j]
                                       /\ ~IsCoinbase(txs[j])
    BY <1>11, <1>12, <2>3 DEF SameNonce
  <2>4. CASE /\ \E j \in 1..Len(txs) : /\ p = <<n + 1, j>>
                                       /\ ConfirmedTx(p)' = txs[j]
                                       /\ ~IsCoinbase(txs[j])
             /\ \E j \in 1..Len(txs) : /\ q = <<n + 1, j>>
                                       /\ ConfirmedTx(q)' = txs[j]
                                       /\ ~IsCoinbase(txs[j])
    BY <1>4, <1>12, <2>4 DEF SameNonce
  <2> QED BY <1>5, <2>1, <2>2, <2>3, <2>4
<1> QED BY <1>10, <1>12 DEF NoReplay, Spent, SameNonce

-----------------------------------------------------------------------------
(* The chain and the state beside it *)

LEMMA CommitReplays ==
  ASSUME TypeOK, ReplayReproducesState, NEW b \in Block, Commit(b)
  PROVE  ReplayReproducesState'
<1> DEFINE n == Len(chain)
<1>1. /\ chain \in Seq(Block) /\ n \in Nat /\ n >= 1
      /\ chain' = Append(chain, b) /\ Len(chain') = n + 1 /\ chain'[n+1] = b
      /\ \A i \in 1..n : chain'[i] = chain[i]
  BY DEF TypeOK, Commit
<1>2. /\ Replayable(chain) /\ acct = Replay(chain)[n]
      /\ \A i \in 2..n : chain[i].previous_hash = chain[i-1].hash /\ chain[i].sealed
  BY DEF ReplayReproducesState, IsValidChain
<1>3. LinksTo(b, chain[n]) /\ b.sealed /\ ValidTransactions(acct, b.transactions)
  BY DEF Commit, ValidBlock, last_block
<1>4. Replayable(chain')
  BY <1>1, <1>2, <1>3, ReplayableAppend
<1>5. acct' = Replay(chain')[Len(chain')]
  <2>1. acct' = ApplyBlock(acct, b.transactions)
    BY CommitEffect
  <2>2. Replay(chain')[n+1] = ApplyBlock(Replay(chain)[n], b.transactions)
    BY <1>1, ReplayAppend
  <2> QED BY <1>1, <1>2, <2>1, <2>2
<1>6. ASSUME NEW i \in 2..Len(chain')
      PROVE  chain'[i].previous_hash = chain'[i-1].hash /\ chain'[i].sealed
  <2>1. CASE i = n + 1
    <3>1. i - 1 = n /\ chain'[i-1] = chain[n] /\ chain'[i] = b
      BY <1>1, <2>1
    <3> QED BY <1>3, <3>1 DEF LinksTo
  <2>2. CASE i # n + 1
    <3>1. i \in 2..n /\ chain'[i-1] = chain[i-1] /\ chain'[i] = chain[i]
      BY <1>1, <2>2
    <3> QED BY <1>2, <3>1
  <2> QED BY <2>1, <2>2
<1> QED BY <1>4, <1>5, <1>6 DEF ReplayReproducesState, IsValidChain

-----------------------------------------------------------------------------
(* The inductive invariant *)

LEMMA InitIInv == Init => IInv
<1> SUFFICES ASSUME Init PROVE IInv
  OBVIOUS
<1>1. /\ chain = <<Genesis>> /\ Len(chain) = 1 /\ chain[1] = Genesis
      /\ balances = [a \in Accounts |-> 0] /\ nonces = [a \in Accounts |-> 0]
      /\ difficulty = initial_difficulty
  BY DEF Init, EmptyState
<1>2. Genesis \in Block
  BY DEF Genesis, Block
<1>3. TypeOK
  BY <1>1, <1>2, DifficultyAssumption, HeightAssumption DEF TypeOK
<1>4. OverdrawnByCoinbaseOnly
  <2> SUFFICES ASSUME NEW a \in Accounts PROVE balances[a] >= -CoinbaseDebits(chain, a)
    BY DEF OverdrawnByCoinbaseOnly
  <2>1. balances[a] = 0 /\ CoinbaseDebits(chain, a) \in Nat
    BY <1>1, <1>3, DebitsType
  <2> QED BY <2>1
<1>5. Total(balances) = 0
  <2> DEFINE t == SumTrace(balances, NumAccounts)
             S == {i \in 0..NumAccounts : t[i] = 0}
  <2>1. /\ NumAccounts \in Nat
        /\ \A i \in 1..NumAccounts : balances[i] = 0
    BY <1>1, NumAccountsAssumption DEF Accounts
  <2>2. t[0] = 0 /\ \A i \in 1..NumAccounts : t[i] = t[i-1] + balances[i]
    BY <2>1, SumSteps
  <2> HIDE DEF t
  <2>3. 0 \in S
    BY <2>1, <2>2
  <2>4. \A i \in 0..(NumAccounts-1) : i \in S => i + 1 \in S
    BY <2>1, <2>2
  <2> HIDE DEF S
  <2>5. \A i \in 0..NumAccounts : i \in S
    BY <2>1, <2>3, <2>4, UpTo
  <2> QED BY <2>1, <2>5 DEF S, t, Total, Sum
<1>6. SupplyBound
  <2>1. height = 0
    BY <1>1 DEF height
  <2>2. BLOCK_REWARD * 0 = 0
    BY RewardAssumption
  <2> QED BY <1>5, <2>1, <2>2 DEF SupplyBound
<1>7. NoReplay
  <2>1. Confirmed = {}
    BY <1>1, <1>3, ConfirmedPositions DEF Genesis
  <2> QED BY <2>1 DEF NoReplay
<1>8. ReplayReproducesState
  <2>1. Replayable(chain) /\ IsValidChain
    BY <1>1 DEF Replayable, IsValidChain
  <2>2. acct = EmptyState
    BY <1>1 DEF acct, EmptyState
  <2>3. Replay(chain)[1] = EmptyState
    BY <1>1, ReplayDef
  <2> QED BY <1>1, <2>1, <2>2, <2>3 DEF ReplayReproducesState
<1> QED BY <1>3, <1>4, <1>6, <1>7, <1>8 DEF IInv

LEMMA NextIInv == IInv /\ [Next]_vars => IInv'
<1> SUFFICES ASSUME IInv, [Next]_vars PROVE IInv'
  OBVIOUS
<1> USE DEF IInv
<1>1. CASE UNCHANGED vars
  <2>1. TypeOK'
    BY <1>1 DEF vars, TypeOK
  <2>2. OverdrawnByCoinbaseOnly'
    BY <1>1 DEF vars, OverdrawnByCoinbaseOnly, CoinbaseDebits
  <2>3. SupplyBound'
    BY <1>1 DEF vars, SupplyBound, height
  <2>4. NoReplay'
    BY <1>1 DEF vars, NoReplay, Confirmed, ConfirmedTx
  <2>5. ReplayReproducesState'
    BY <1>1 DEF vars, ReplayReproducesState, IsValidChain, acct
  <2> QED BY <2>1, <2>2, <2>3, <2>4, <2>5
<1>2. CASE \E b \in Block : Commit(b)
  <2>1. PICK b \in Block : Commit(b)
    BY <1>2
  <2>2. TypeOK'
    BY <2>1, CommitTypeOK
  <2>3. OverdrawnByCoinbaseOnly'
    BY <2>1, CommitOverdrawn
  <2>4. SupplyBound'
    BY <2>1, CommitSupply
  <2>5. NoReplay'
    BY <2>1, CommitNoReplay
  <2>6. ReplayReproducesState'
    BY <2>1, CommitReplays
  <2> QED BY <2>2, <2>3, <2>4, <2>5, <2>6
<1> QED BY <1>1, <1>2, StepCommits

(* The inductive invariant holds in every reachable state. *)
THEOREM Inductive == Spec => []IInv
<1> QED BY InitIInv, NextIInv, PTL DEF Spec

(* The variables keep their types, the difficulty its range.                *)
THEOREM TypeCorrect == Spec => []TypeOK
<1>1. IInv => TypeOK
  BY DEF IInv
<1> QED BY Inductive, <1>1, PTL

(* Whatever blocks are mined or imported, an account is below zero by no    *)
(* more than coinbases of negative amount have taken from it: no transfer   *)
(* overdraws.                                                               *)
THEOREM NoOverdraftByTransfer == Spec => []OverdrawnByCoinbaseOnly
<1>1. IInv => OverdrawnByCoinbaseOnly
  BY DEF IInv
<1> QED BY Inductive, <1>1, PTL

(* At most BLOCK_REWARD was issued for each block of the chain.             *)
THEOREM BoundedIssuance == Spec => []SupplyBound
<1>1. IInv => SupplyBound
  BY DEF IInv
<1> QED BY Inductive, <1>1, PTL

(* No transfer is confirmed twice, in one block or in two.                  *)
THEOREM ReplayProtection == Spec => []NoReplay
<1>1. IInv => NoReplay
  BY DEF IInv
<1> QED BY Inductive, <1>1, PTL

(* A new ledger fed with the blocks of the chain accepts them all and ends  *)
(* with the same balances and nonces.                                       *)
THEOREM Reproducible == Spec => []ReplayReproducesState
<1>1. IInv => ReplayReproducesState
  BY DEF IInv
<1> QED BY Inductive, <1>1, PTL

-----------------------------------------------------------------------------
(* Steps *)

LEMMA StepMoves ==
  ASSUME IInv, [Next]_vars
  PROVE  \A a \in Accounts :
           /\ nonces'[a] >= nonces[a]
           /\ balances'[a] < balances[a] - CoinbaseDebit(last_block'.transactions, a)
                => nonces'[a] > nonces[a]
<1> SUFFICES ASSUME NEW a \in Accounts
             PROVE  /\ nonces'[a] >= nonces[a]
                    /\ balances'[a] <
                          balances[a] - CoinbaseDebit(last_block'.transactions, a)
                         => nonces'[a] > nonces[a]
  OBVIOUS
<1>0. balances[a] \in Int /\ nonces[a] \in Nat
  BY DEF IInv, TypeOK
<1>1. CASE UNCHANGED vars
  <2>1. last_block' = last_block /\ last_block.transactions \in Seq(Transaction)
    <3>1. last_block' = last_block /\ last_block \in Block
      BY <1>1 DEF vars, last_block, IInv, TypeOK
    <3> QED BY <3>1 DEF Block
  <2>2. CoinbaseDebit(last_block'.transactions, a) \in Nat
    BY <2>1, LostSteps
  <2> QED BY <1>0, <1>1, <2>2 DEF vars
<1>2. CASE \E b \in Block : Commit(b)
  <2>1. PICK b \in Block : Commit(b)
    BY <1>2
  <2>2. last_block' = b
    BY <2>1 DEF IInv, TypeOK, Commit, last_block
  <2>3. /\ Moved(acct, acct', a, CoinbaseDebit(b.transactions, a))
        /\ CoinbaseDebit(b.transactions, a) \in Nat
    BY <2>1, CommitEffect, LostSteps DEF IInv
  <2>4. balances'[a] \in Int
    BY NextIInv DEF IInv, TypeOK
  <2> QED BY <1>0, <2>2, <2>3, <2>4 DEF Moved, acct
<1> QED BY <1>1, <1>2, StepCommits DEF IInv

(* Apart from what a new block's coinbases take from an account, money      *)
(* leaves it only with a transfer it signed.                                *)
THEOREM Custody == Spec => DebitNeedsNonce
<1>1. IInv /\ [Next]_vars =>
        [\A a \in Accounts :
           /\ nonces'[a] >= nonces[a]
           /\ balances'[a] < balances[a] - CoinbaseDebit(last_block'.transactions, a)
                => nonces'[a] > nonces[a]]_vars
  BY StepMoves
<1> QED BY Inductive, <1>1, PTL DEF Spec, DebitNeedsNonce

(* On the restored balances, committing a block is what Bank allows.        *)
LEMMA RestoredStep ==
  ASSUME IInv, NEW b \in Block, Commit(b)
  PROVE  /\ Restored' \in [Accounts -> Nat]
         /\ \A a \in Accounts : Restored'[a] < Restored[a] => nonces'[a] > nonces[a]
         /\ Total(Restored') <= Total(Restored) + BLOCK_REWARD
<1> DEFINE txs == b.transactions
           owed == [a \in Accounts |-> CoinbaseDebits(chain, a)]
           after == [a \in Accounts |-> owed[a] + CoinbaseDebit(txs, a)]
<1>1. /\ TypeOK /\ TypeOK' /\ OverdrawnByCoinbaseOnly'
  BY CommitTypeOK, CommitOverdrawn DEF IInv
<1>2. \A a \in Accounts :
        /\ CoinbaseDebits(chain, a) \in Nat /\ CoinbaseDebit(txs, a) \in Nat
        /\ CoinbaseDebits(chain, a)' = CoinbaseDebits(chain, a) + CoinbaseDebit(txs, a)
        /\ balances[a] \in Int /\ balances'[a] \in Int /\ nonces[a] \in Nat
        /\ balances'[a] >= -CoinbaseDebits(chain, a)'
  BY <1>1, CommitDebits, DebitsType DEF TypeOK, OverdrawnByCoinbaseOnly
<1>3. \A a \in Accounts :
        /\ Restored[a] = balances[a] + CoinbaseDebits(chain, a)
        /\ Restored'[a] = balances'[a] + (CoinbaseDebits(chain, a) + CoinbaseDebit(txs, a))
  BY <1>2 DEF Restored
<1> HIDE DEF txs
<1>4. Restored' \in [Accounts -> Nat]
  <2>1. \A a \in Accounts : balances'[a] + CoinbaseDebits(chain, a)' \in Nat
    <3> TAKE a \in Accounts
    <3> QED BY <1>2
  <2> QED BY <2>1 DEF Restored
<1>5. ASSUME NEW a \in Accounts, Restored'[a] < Restored[a]
      PROVE  nonces'[a] > nonces[a]
  <2>1. Moved(acct, acct', a, CoinbaseDebit(txs, a))
    BY <1>1, CommitEffect DEF txs
  <2>2. balances'[a] + CoinbaseDebit(txs, a) < balances[a]
    BY <1>2, <1>3, <1>5
  <2> QED BY <2>1, <2>2 DEF Moved, acct
<1>6. Total(Restored') <= Total(Restored) + BLOCK_REWARD
  <2>1. /\ txs \in Seq(Transaction) /\ ValidTransactions(acct, txs)
        /\ acct \in AccountState /\ acct' = ApplyBlock(acct, txs)
    BY <1>1, CommitEffect DEF txs
  <2>2. owed \in [Accounts -> Nat]
    BY <1>2
  <2>3. Total(GiveBack(ApplyBlock(acct, txs).balances, after))
          <= Total(GiveBack(acct.balances, owed)) + BLOCK_REWARD
    <3> HIDE DEF owed
    <3> QED BY <2>1, <2>2, RestoredIssuance
  <2>4. Restored = GiveBack(acct.balances, owed)
    BY DEF Restored, GiveBack, acct
  <2>5. Restored' = GiveBack(acct'.balances, after)
    BY <1>2 DEF Restored, GiveBack, acct
  <2> HIDE DEF owed, after
  <2> QED BY <2>1, <2>3, <2>4, <2>5
<1> QED BY <1>4, <1>5, <1>6

(* The ledger implements Bank on the restored balances: its initial state   *)
(* is one of Bank's, and each of its steps commits a block of Bank or       *)
(* leaves Bank's variables alone.                                           *)
THEOREM ImplementsBank == Spec => BankSpec
<1>1. Init => TheBank!Init
  <2> SUFFICES ASSUME Init PROVE TheBank!Init
    OBVIOUS
  <2>1. chain = <<Genesis>> /\ balances = [a \in Accounts |-> 0]
        /\ nonces = EmptyState.nonces
    BY DEF Init, EmptyState
  <2>2. \A a \in Accounts : CoinbaseDebits(chain, a) = 0
    BY <2>1, NoDebits
  <2>3. Restored = [a \in Accounts |-> 0]
    BY <2>1, <2>2 DEF Restored
  <2> QED BY <2>1, <2>3 DEF TheBank!Init, EmptyState, TheBank!EmptyState,
                            Accounts, TheBank!Accounts
<1>2. IInv /\ [Next]_vars => [TheBank!CommitBlock]_TheBank!vars
  <2> SUFFICES ASSUME IInv, [Next]_vars
               PROVE  TheBank!CommitBlock \/ UNCHANGED TheBank!vars
    OBVIOUS
  <2>1. CASE UNCHANGED vars
    BY <2>1 DEF vars, TheBank!vars, Restored, CoinbaseDebits
  <2>2. CASE \E b \in Block : Commit(b)
    <3>1. /\ Restored' \in [Accounts -> Nat]
          /\ \A a \in Accounts : Restored'[a] < Restored[a] => nonces'[a] > nonces[a]
          /\ Total(Restored') <= Total(Restored) + BLOCK_REWARD
      BY <2>2, RestoredStep
    <3>2. nonces' \in [Accounts -> Nat] /\ \A a \in Accounts : nonces'[a] >= nonces[a]
      BY NextIInv, StepMoves DEF IInv, TypeOK
    <3>3. /\ TheBank!Accounts = Accounts
          /\ \A f : TheBank!Total(f) = Total(f)
      BY DEF TheBank!Accounts, Accounts, TheBank!Total, Total,
             TheBank!Sum, Sum, TheBank!SumTrace, SumTrace
    <3> QED BY <3>1, <3>2, <3>3 DEF TheBank!CommitBlock
  <2> QED BY <2>1, <2>2, StepCommits DEF IInv
<1> QED BY Inductive, <1>1, <1>2, PTL DEF Spec, BankSpec, TheBank!Spec

=============================================================================
