---------------------------- MODULE ServerProofs ----------------------------
(***************************************************************************)
(* What holds of the server for every number of threads, every set of       *)
(* transactions and every size of the pool: some of it whatever the threads *)
(* do (IInv), some of it while at most one of them mines (OneMiner, Books-  *)
(* Kept).                                                                   *)
(***************************************************************************)
EXTENDS Server, BlockchainProofs

-----------------------------------------------------------------------------
(* Any number of threads that mine *)

(* The transactions as they arrive at the pool. *)
Arrivals == {Received(tx) : tx \in Txs}

Mining(w) == worker[w].pc \in {"candidate", "seal", "validate", "apply", "remove"}

(* What a thread carries from one step to the next. *)
Carries(w) ==
  /\ worker[w].pc \in {"idle", "add", "insert", "candidate", "seal",
                       "validate", "apply", "remove"}
  /\ worker[w].pc \in {"add", "insert"} => worker[w].tx \in Arrivals
  /\ At(w, "insert") => IsValid(worker[w].tx)
  /\ Mining(w) =>
       /\ w \in MiningWorkers
       /\ worker[w].txs \in Seq(Transaction)
       /\ \A i \in 1..Len(worker[w].txs) : IsValid(worker[w].txs[i])
  /\ worker[w].pc \in {"seal", "validate", "apply"} =>
       /\ worker[w].block.index \in Int /\ worker[w].block.previous_hash \in Int
       /\ worker[w].block.transactions = CandidateBody(worker[w].txs, Miner)
  /\ At(w, "apply") => worker[w].next \in 1..(Len(worker[w].block.transactions) + 1)
  /\ At(w, "remove") => \A i \in 1..Len(worker[w].txs) : InChain(worker[w].txs[i])

ChainBlock == [hash: Int, index: Int, previous_hash: Int, transactions: Seq(Transaction)]

(* The threads past the test of max_size, each with room to fill. *)
Inserting == {w \in Workers : At(w, "insert")}

RoomLeft == Len(pool.pending) + Cardinality(Inserting) <= max_size + Cardinality(Workers) - 1

(* The pool holds valid transactions, none of them twice. *)
PoolOK ==
  /\ pool.pending \in Seq(Arrivals) /\ pool.flagged \subseteq Arrivals
  /\ \A tx \in Pending(pool) : IsValid(tx)
  /\ \A i, j \in 1..Len(pool.pending) : pool.pending[i] = pool.pending[j] => i = j

ChainOK == chain \in Seq(ChainBlock) /\ Len(chain) >= 1

ThreadsOK ==
  worker = [w \in Workers |-> worker[w]] /\ \A w \in Workers : Carries(w)

IInv == acct \in AccountState /\ PoolOK /\ ChainOK /\ ThreadsOK /\ RoomLeft

LEMMA ArrivalsType == Arrivals \subseteq Transaction
<1> SUFFICES ASSUME NEW tx \in Txs PROVE Received(tx) \in Transaction
  BY DEF Arrivals
<1>1. tx \in Transaction
  BY ServerAssumption
<1> QED BY <1>1 DEF Received, Transaction

LEMMA IInvTypes == IInv => TypeOK
<1> SUFFICES ASSUME IInv PROVE TypeOK
  OBVIOUS
<1>1. Pending(pool) \cup pool.flagged \subseteq {Received(tx) : tx \in Txs}
  BY DEF IInv, PoolOK, Pending, Arrivals
<1>2. \A i \in 1..Len(chain) : chain[i].transactions \in Seq(Transaction)
  <2>1. \A i \in 1..Len(chain) : chain[i] \in ChainBlock
    BY DEF IInv, ChainOK
  <2> QED BY <2>1 DEF ChainBlock
<1> QED BY <1>1, <1>2 DEF IInv, PoolOK, ThreadsOK, Carries, TypeOK

-----------------------------------------------------------------------------
(* One thread moves *)

(* What is in the chain stays there. *)
LEMMA StaysInChain ==
  ASSUME ChainOK, chain' = chain \/ \E b \in ChainBlock : chain' = Append(chain, b)
  PROVE  ChainOK' /\ \A tx : InChain(tx) => InChain(tx)'
<1>1. CASE chain' = chain
  BY <1>1 DEF ChainOK, InChain
<1>2. CASE \E b \in ChainBlock : chain' = Append(chain, b)
  <2>1. PICK b \in ChainBlock : chain' = Append(chain, b)
    BY <1>2
  <2>2. /\ chain' \in Seq(ChainBlock) /\ Len(chain') = Len(chain) + 1
        /\ Len(chain) \in Nat /\ \A i \in 1..Len(chain) : chain'[i] = chain[i]
    BY <2>1 DEF ChainOK
  <2>3. ChainOK'
    BY <2>2 DEF ChainOK
  <2>4. ASSUME NEW tx, InChain(tx) PROVE InChain(tx)'
    <3>1. PICK i \in 1..Len(chain) : \E j \in 1..Len(chain[i].transactions) :
            chain[i].transactions[j] = tx
      BY <2>4 DEF InChain
    <3>2. i \in 1..Len(chain') /\ chain'[i] = chain[i]
      BY <2>2
    <3> QED BY <3>1, <3>2 DEF InChain
  <2> QED BY <2>3, <2>4
<1> QED BY <1>1, <1>2

(* The other threads go on carrying what they carried. *)
LEMMA OthersCarry ==
  ASSUME IInv, NEW w \in Workers, NEW s, Becomes(w, s),
         chain' = chain \/ \E b \in ChainBlock : chain' = Append(chain, b)
  PROVE  /\ worker' = [v \in Workers |-> worker'[v]]
         /\ worker'[w] = s
         /\ \A v \in Workers : v # w => worker'[v] = worker[v] /\ Carries(v)'
<1>1. worker' = [v \in Workers |-> IF v = w THEN s ELSE worker[v]]
  BY DEF IInv, ThreadsOK, Becomes
<1>2. ASSUME NEW v \in Workers, v # w PROVE worker'[v] = worker[v] /\ Carries(v)'
  <2>1. worker'[v] = worker[v]
    BY <1>1, <1>2
  <2>2. \A tx : InChain(tx) => InChain(tx)'
    BY StaysInChain DEF IInv
  <2>3. Carries(v)
    BY DEF IInv, ThreadsOK
  <2> QED BY <2>1, <2>2, <2>3 DEF Carries, Mining, At
<1> QED BY <1>1, <1>2

(* The room of the pool: the threads past the test of max_size have what    *)
(* they need between them.                                                  *)
LEMMA RoomKept ==
  ASSUME IInv, NEW w \in Workers, NEW s, Becomes(w, s), Len(pool'.pending) \in Nat,
         \/ s.pc # "insert" /\ Len(pool'.pending) <= Len(pool.pending)
         \/ /\ s.pc = "insert" /\ Len(pool.pending) < max_size
            /\ Len(pool'.pending) = Len(pool.pending)
         \/ /\ At(w, "insert") /\ s.pc # "insert"
            /\ Len(pool'.pending) <= Len(pool.pending) + 1
  PROVE  RoomLeft'
<1> DEFINE I == Inserting
           J == Inserting'
           n == Len(pool.pending)
           k == Len(pool'.pending)
           W == Cardinality(Workers)
<1>1. /\ IsFiniteSet(Workers) /\ W \in Nat /\ max_size \in Nat
  BY ServerAssumption, PoolAssumption, FS_CardinalityType
<1>2. /\ I \subseteq Workers /\ J \subseteq Workers
      /\ J = IF s.pc = "insert" THEN I \cup {w} ELSE I \ {w}
      /\ At(w, "insert") <=> w \in I
  <2>1. /\ worker'[w] = s
        /\ \A v \in Workers : v # w => worker'[v] = worker[v]
    BY DEF IInv, ThreadsOK, Becomes
  <2> QED BY <2>1 DEF Inserting, At
<1>3. /\ n \in Nat /\ k \in Nat /\ n + Cardinality(I) <= max_size + W - 1
  BY DEF IInv, PoolOK, RoomLeft
<1> HIDE DEF I, J, n, k, W
<1>4. /\ IsFiniteSet(I) /\ Cardinality(I) \in Nat /\ Cardinality(I) <= W
      /\ IsFiniteSet(J) /\ Cardinality(J) \in Nat /\ Cardinality(J) <= W
  BY <1>1, <1>2, FS_Subset, FS_CardinalityType DEF W
<1>5. k + Cardinality(J) <= max_size + W - 1
  <2>1. CASE s.pc # "insert" /\ k <= n
    <3>1. J \subseteq I
      BY <1>2, <2>1
    <3>2. Cardinality(J) <= Cardinality(I)
      BY <1>4, <3>1, FS_Subset
    <3> QED BY <1>1, <1>3, <1>4, <2>1, <3>2
  <2>2. CASE s.pc = "insert" /\ n < max_size /\ k = n
    BY <1>1, <1>3, <1>4, <2>2
  <2>3. CASE At(w, "insert") /\ s.pc # "insert" /\ k <= n + 1
    <3>1. w \in I /\ J = I \ {w}
      BY <1>2, <2>3
    <3>2. Cardinality(J) = Cardinality(I) - 1
      BY <1>4, <3>1, FS_RemoveElement
    <3> QED BY <1>1, <1>3, <1>4, <2>3, <3>2
  <2> QED BY <2>1, <2>2, <2>3 DEF n, k
<1> QED BY <1>5 DEF RoomLeft, I, J, n, k, W

LEMMA MoveKeeps ==
  ASSUME IInv, NEW w \in Workers, NEW s, Becomes(w, s), Carries(w)',
         chain' = chain \/ \E b \in ChainBlock : chain' = Append(chain, b),
         acct' \in AccountState, PoolOK',
         \/ s.pc # "insert" /\ Len(pool'.pending) <= Len(pool.pending)
         \/ /\ s.pc = "insert" /\ Len(pool.pending) < max_size
            /\ Len(pool'.pending) = Len(pool.pending)
         \/ /\ At(w, "insert") /\ s.pc # "insert"
            /\ Len(pool'.pending) <= Len(pool.pending) + 1
  PROVE  IInv'
<1>1. ChainOK'
  BY StaysInChain DEF IInv
<1>2. ThreadsOK'
  BY OthersCarry DEF ThreadsOK
<1>3. Len(pool'.pending) \in Nat
  BY DEF PoolOK
<1>4. RoomLeft'
  BY <1>3, RoomKept
<1> QED BY <1>1, <1>2, <1>4 DEF IInv

(* The block a thread has built. *)
LEMMA BlockLegal ==
  ASSUME IInv, NEW w \in Workers, worker[w].pc \in {"seal", "validate", "apply"}
  PROVE  /\ LegalBody(worker[w].block.transactions)
         /\ Len(worker[w].block.transactions) \in Nat
         /\ \A i \in 1..Len(worker[w].txs) :
              /\ i + 1 \in 1..Len(worker[w].block.transactions)
              /\ worker[w].block.transactions[i+1] = worker[w].txs[i]
<1> DEFINE txs == worker[w].txs
<1>1. /\ txs \in Seq(Transaction) /\ \A i \in 1..Len(txs) : IsValid(txs[i])
      /\ worker[w].block.transactions = CandidateBody(txs, Miner)
  BY DEF IInv, ThreadsOK, Carries, Mining
<1>2. Miner \in Accounts
  BY ServerAssumption
<1> HIDE DEF txs
<1>3. \A i \in 1..Len(txs) :
        txs[i].fee >= 0 /\ (IsCoinbase(txs[i]) => txs[i].amount >= 0)
  BY <1>1 DEF IsValid
<1>4. /\ LegalBody(CandidateBody(txs, Miner))
      /\ Len(CandidateBody(txs, Miner)) = Len(txs) + 1
      /\ \A i \in 1..Len(txs) : CandidateBody(txs, Miner)[i+1] = txs[i]
  BY <1>1, <1>2, <1>3, CandidateBodyLegal
<1>5. Len(txs) \in Nat
  BY <1>1
<1>6. \A i \in 1..Len(txs) : i + 1 \in 1..(Len(txs) + 1)
  BY <1>5
<1> QED BY <1>1, <1>4, <1>5, <1>6 DEF txs

LEMMA SubmitKeeps ==
  ASSUME IInv, NEW w \in Workers, NEW tx \in Txs, StartSubmit(w, tx)
  PROVE  IInv'
<1> DEFINE s == [pc |-> "add", sent |-> tx, tx |-> Received(tx)]
<1>1. Becomes(w, s) /\ chain' = chain /\ acct' = acct /\ pool' = pool
  BY DEF StartSubmit
<1>2. worker'[w] = s
  BY <1>1, OthersCarry
<1>3. Carries(w)'
  BY <1>2 DEF Carries, Mining, At, Arrivals
<1>4. PoolOK' /\ acct' \in AccountState
  BY <1>1 DEF IInv, PoolOK, Pending
<1>5. s.pc # "insert" /\ Len(pool'.pending) <= Len(pool.pending)
  BY <1>1 DEF IInv, PoolOK
<1> QED BY <1>1, <1>3, <1>4, <1>5, MoveKeeps

LEMMA TestKeeps ==
  ASSUME IInv, NEW w \in Workers, TestTx(w)
  PROVE  IInv'
<1> DEFINE tx == worker[w].tx
<1>1. /\ At(w, "add") /\ chain' = chain /\ acct' = acct /\ tx \in Arrivals
      /\ Len(pool.pending) \in Nat
  BY DEF TestTx, IInv, ThreadsOK, Carries, At, PoolOK
<1>2. CASE AcceptsTx(pool, tx)
  <2> DEFINE s == [pc |-> "insert", sent |-> worker[w].sent, tx |-> tx]
  <2>1. Becomes(w, s) /\ pool' = pool
    BY <1>2 DEF TestTx
  <2>2. worker'[w] = s
    BY <1>1, <2>1, OthersCarry
  <2>3. IsValid(tx) /\ Len(pool.pending) < max_size
    BY <1>2 DEF AcceptsTx
  <2> HIDE DEF tx
  <2>4. Carries(w)'
    BY <1>1, <2>2, <2>3 DEF Carries, Mining, At
  <2>5. PoolOK' /\ acct' \in AccountState
    BY <1>1, <2>1 DEF IInv, PoolOK, Pending
  <2>6. /\ s.pc = "insert" /\ Len(pool.pending) < max_size
        /\ Len(pool'.pending) = Len(pool.pending)
    BY <2>1, <2>3
  <2> QED BY <1>1, <2>1, <2>4, <2>5, <2>6, MoveKeeps
<1>3. CASE ~AcceptsTx(pool, tx)
  <2>1. Becomes(w, Idle) /\ pool' = AddTx(pool, tx)
    BY <1>3 DEF TestTx
  <2>2. worker'[w] = Idle
    BY <1>1, <2>1, OthersCarry
  <2>3. Carries(w)'
    BY <2>2 DEF Carries, Mining, At, Idle
  <2>4. pool'.pending = pool.pending /\ pool'.flagged \subseteq Arrivals
    BY <1>1, <1>3, <2>1 DEF AddTx, IInv, PoolOK
  <2>5. PoolOK' /\ acct' \in AccountState
    BY <1>1, <2>4 DEF IInv, PoolOK, Pending
  <2>6. Idle.pc # "insert" /\ Len(pool'.pending) <= Len(pool.pending)
    BY <1>1, <2>4 DEF Idle
  <2> QED BY <1>1, <2>1, <2>3, <2>5, <2>6, MoveKeeps
<1> QED BY <1>2, <1>3

LEMMA InsertKeeps ==
  ASSUME IInv, NEW w \in Workers, InsertTx(w)
  PROVE  IInv'
<1> DEFINE tx == worker[w].tx
<1>1. /\ At(w, "insert") /\ chain' = chain /\ acct' = acct
      /\ tx \in Arrivals /\ IsValid(tx)
  BY DEF InsertTx, IInv, ThreadsOK, Carries, At
<1>2. Becomes(w, Idle)
  BY DEF InsertTx
<1>3. worker'[w] = Idle
  BY <1>1, <1>2, OthersCarry
<1>4. Carries(w)'
  BY <1>3 DEF Carries, Mining, At, Idle
<1>5. /\ pool.pending \in Seq(Arrivals) /\ pool.flagged \subseteq Arrivals
      /\ \A i \in 1..Len(pool.pending) : IsValid(pool.pending[i])
      /\ \A i, j \in 1..Len(pool.pending) : pool.pending[i] = pool.pending[j] => i = j
  BY DEF IInv, PoolOK, Pending
<1>6. PoolOK' /\ Len(pool'.pending) <= Len(pool.pending) + 1
  <2>1. CASE tx \in Pending(pool)
    <3>1. pool' = pool
      BY <2>1 DEF InsertTx
    <3> QED BY <1>5, <3>1 DEF PoolOK, Pending
  <2>2. CASE tx \notin Pending(pool)
    <3>1. /\ pool'.pending = Append(pool.pending, tx)
          /\ pool'.flagged = pool.flagged
      BY <2>2 DEF InsertTx
    <3> HIDE DEF tx
    <3>2. /\ pool'.pending \in Seq(Arrivals)
          /\ Len(pool'.pending) = Len(pool.pending) + 1 /\ Len(pool.pending) \in Nat
          /\ pool'.pending[Len(pool.pending) + 1] = tx
          /\ \A i \in 1..Len(pool.pending) : pool'.pending[i] = pool.pending[i]
      BY <1>1, <1>5, <3>1
    <3>3. \A i \in 1..Len(pool.pending) : pool.pending[i] # tx
      BY <2>2 DEF Pending
    <3>4. \A i \in 1..Len(pool'.pending) :
            i \in 1..Len(pool.pending) \/ i = Len(pool.pending) + 1
      BY <3>2
    <3>5. \A i \in 1..Len(pool'.pending) : IsValid(pool'.pending[i])
      BY <1>1, <1>5, <3>2, <3>4
    <3>6. \A i, j \in 1..Len(pool'.pending) :
            pool'.pending[i] = pool'.pending[j] => i = j
      BY <1>5, <3>2, <3>3, <3>4
    <3> QED BY <1>5, <3>1, <3>2, <3>5, <3>6 DEF PoolOK, Pending
  <2> QED BY <2>1, <2>2
<1>7. acct' \in AccountState
  BY <1>1 DEF IInv
<1>8. Idle.pc # "insert"
  BY DEF Idle
<1> QED BY <1>1, <1>2, <1>4, <1>6, <1>7, <1>8, MoveKeeps

(* The steps of a mining thread that leave the pool alone. *)
LEMMA MinerMoves ==
  ASSUME IInv, NEW w \in Workers, NEW s, Becomes(w, s), Carries(w)',
         chain' = chain \/ \E b \in ChainBlock : chain' = Append(chain, b),
         acct' \in AccountState, pool' = pool, s.pc # "insert"
  PROVE  IInv'
<1>1. PoolOK' /\ Len(pool'.pending) <= Len(pool.pending)
  BY DEF IInv, PoolOK, Pending
<1> QED BY <1>1, MoveKeeps

LEMMA StartMineKeeps ==
  ASSUME IInv, NEW w \in Workers, StartMine(w)
  PROVE  IInv'
<1> DEFINE txs == Select(pool)
           s == [pc |-> "candidate", txs |-> txs]
<1>1. /\ w \in MiningWorkers /\ Becomes(w, s)
      /\ chain' = chain /\ acct' = acct /\ pool' = pool
  BY DEF StartMine
<1>2. txs \in Seq(Transaction) /\ \A i \in 1..Len(txs) : IsValid(txs[i])
  <2>1. pool.pending \in Seq(Pending(pool))
    BY DEF IInv, PoolOK, Pending
  <2>2. txs \in Seq(Pending(pool))
    BY <2>1, SelectType
  <2>3. Pending(pool) \subseteq Transaction /\ \A tx \in Pending(pool) : IsValid(tx)
    BY ArrivalsType DEF IInv, PoolOK, Pending
  <2> HIDE DEF txs
  <2>4. \A i \in 1..Len(txs) : txs[i] \in Pending(pool)
    BY <2>2
  <2>5. txs \in Seq(Transaction)
    BY <2>2, <2>3
  <2> QED BY <2>3, <2>4, <2>5
<1> HIDE DEF txs
<1>3. worker'[w] = s
  BY <1>1, OthersCarry
<1>4. Carries(w)'
  BY <1>1, <1>2, <1>3 DEF Carries, Mining, At
<1>5. acct' \in AccountState
  BY <1>1 DEF IInv
<1> QED BY <1>1, <1>4, <1>5, MinerMoves

LEMMA BuildKeeps ==
  ASSUME IInv, NEW w \in Workers, BuildCandidate(w)
  PROVE  IInv'
<1> DEFINE txs == worker[w].txs
           b == [index |-> LastBlock.index + 1, previous_hash |-> LastBlock.hash,
                 transactions |-> CandidateBody(txs, Miner)]
           s == [pc |-> "seal", txs |-> txs, block |-> b]
<1>1. /\ At(w, "candidate") /\ Becomes(w, s)
      /\ chain' = chain /\ acct' = acct /\ pool' = pool
  BY DEF BuildCandidate
<1>2. /\ w \in MiningWorkers /\ txs \in Seq(Transaction)
      /\ \A i \in 1..Len(txs) : IsValid(txs[i])
  BY <1>1 DEF IInv, ThreadsOK, Carries, Mining, At
<1>3. LastBlock.index + 1 \in Int /\ LastBlock.hash \in Int
  <2>1. LastBlock \in ChainBlock
    BY DEF IInv, ChainOK, LastBlock
  <2> QED BY <2>1 DEF ChainBlock
<1> HIDE DEF txs
<1>4. worker'[w] = s
  BY <1>1, OthersCarry
<1>5. Carries(w)'
  BY <1>2, <1>3, <1>4 DEF Carries, Mining, At
<1>6. acct' \in AccountState
  BY <1>1 DEF IInv
<1> QED BY <1>1, <1>5, <1>6, MinerMoves

LEMMA SealKeeps ==
  ASSUME IInv, NEW w \in Workers, NEW sealed \in BOOLEAN, Seal(w, sealed)
  PROVE  IInv'
<1> DEFINE s == [pc |-> "validate", txs |-> worker[w].txs, sealed |-> sealed,
                 block |-> worker[w].block]
<1>1. /\ At(w, "seal") /\ Becomes(w, s)
      /\ chain' = chain /\ acct' = acct /\ pool' = pool
  BY DEF Seal
<1>2. Carries(w)
  BY DEF IInv, ThreadsOK
<1>3. worker'[w] = s
  BY <1>1, OthersCarry
<1>4. Carries(w)'
  BY <1>1, <1>2, <1>3 DEF Carries, Mining, At
<1>5. acct' \in AccountState
  BY <1>1 DEF IInv
<1> QED BY <1>1, <1>4, <1>5, MinerMoves

LEMMA ValidateKeeps ==
  ASSUME IInv, NEW w \in Workers, Validate(w)
  PROVE  IInv'
<1> DEFINE s == [pc |-> "apply", txs |-> worker[w].txs,
                 block |-> worker[w].block, next |-> 1]
<1>1. /\ At(w, "validate") /\ (Becomes(w, s) \/ Becomes(w, Idle))
      /\ chain' = chain /\ acct' = acct /\ pool' = pool
  BY DEF Validate
<1>2. Carries(w)
  BY DEF IInv, ThreadsOK
<1>3. Len(worker[w].block.transactions) \in Nat
  BY <1>1, BlockLegal DEF At
<1>4. acct' \in AccountState
  BY <1>1 DEF IInv
<1>5. CASE Becomes(w, s)
  <2>1. worker'[w] = s
    BY <1>1, <1>5, OthersCarry
  <2>2. Carries(w)'
    BY <1>1, <1>2, <1>3, <2>1 DEF Carries, Mining, At
  <2> QED BY <1>1, <1>4, <1>5, <2>2, MinerMoves
<1>6. CASE Becomes(w, Idle)
  <2>1. worker'[w] = Idle
    BY <1>1, <1>6, OthersCarry
  <2>2. Carries(w)' /\ Idle.pc # "insert"
    BY <2>1 DEF Carries, Mining, At, Idle
  <2> QED BY <1>1, <1>4, <1>6, <2>2, MinerMoves
<1> QED BY <1>1, <1>5, <1>6

LEMMA ApplyKeeps ==
  ASSUME IInv, NEW w \in Workers, ApplyTx(w)
  PROVE  IInv'
<1> DEFINE k == worker[w].next
           txs == worker[w].block.transactions
           s == [pc |-> "apply", txs |-> worker[w].txs,
                 block |-> worker[w].block, next |-> k + 1]
<1>1. /\ At(w, "apply") /\ k <= Len(txs) /\ acct' = Apply(acct, txs[k])
      /\ Becomes(w, s) /\ chain' = chain /\ pool' = pool
  BY DEF ApplyTx
<1>2. Carries(w)
  BY DEF IInv, ThreadsOK
<1>3. LegalBody(txs) /\ Len(txs) \in Nat
  BY <1>1, BlockLegal DEF At
<1>4. k \in 1..(Len(txs) + 1)
  BY <1>1, <1>2 DEF Carries
<1>5. k \in 1..Len(txs) /\ k + 1 \in 1..(Len(txs) + 1)
  BY <1>1, <1>3, <1>4
<1>6. acct' \in AccountState
  <2>1. txs[k] \in Transaction
    BY <1>3, <1>5 DEF LegalBody
  <2> QED BY <1>1, <2>1, ApplyType DEF IInv
<1>7. worker'[w] = s
  BY <1>1, OthersCarry
<1>8. Carries(w)'
  BY <1>1, <1>2, <1>5, <1>7 DEF Carries, Mining, At
<1> QED BY <1>1, <1>6, <1>8, MinerMoves

LEMMA AppendKeeps ==
  ASSUME IInv, NEW w \in Workers, AppendBlock(w)
  PROVE  IInv'
<1> DEFINE b == worker[w].block
           c == [hash |-> Len(chain), index |-> b.index,
                 previous_hash |-> b.previous_hash, transactions |-> b.transactions]
<1>0. PICK txs : txs = worker[w].txs
  OBVIOUS
<1> DEFINE s == [pc |-> "remove", txs |-> txs]
<1>1. /\ At(w, "apply") /\ chain' = Append(chain, c) /\ Becomes(w, s)
      /\ acct' = acct /\ pool' = pool
  BY <1>0 DEF AppendBlock
<1>2. /\ b.index \in Int /\ b.previous_hash \in Int /\ w \in MiningWorkers
      /\ txs \in Seq(Transaction) /\ \A i \in 1..Len(txs) : IsValid(txs[i])
  BY <1>0, <1>1 DEF IInv, ThreadsOK, Carries, Mining, At
<1>3. /\ b.transactions \in Seq(Transaction)
      /\ \A i \in 1..Len(txs) :
           i + 1 \in 1..Len(b.transactions) /\ b.transactions[i+1] = txs[i]
  BY <1>0, <1>1, BlockLegal DEF At, LegalBody
<1>4. chain \in Seq(ChainBlock) /\ Len(chain) \in Nat
  BY DEF IInv, ChainOK
<1>5. c \in ChainBlock
  BY <1>2, <1>3, <1>4 DEF ChainBlock
<1>6. worker'[w] = s
  BY <1>1, <1>5, OthersCarry
<1>7. \A i \in 1..Len(txs) : InChain(txs[i])'
  <2> SUFFICES ASSUME NEW i \in 1..Len(txs)
               PROVE  \E k \in 1..Len(chain') : \E j \in 1..Len(chain'[k].transactions) :
                        chain'[k].transactions[j] = txs[i]
    BY DEF InChain
  <2>1. Len(chain) + 1 \in 1..Len(chain') /\ chain'[Len(chain)+1] = c
    BY <1>1, <1>4, <1>5
  <2>2. c.transactions = b.transactions
    OBVIOUS
  <2> HIDE DEF c, b
  <2> QED BY <1>3, <2>1, <2>2
<1> HIDE DEF b, c
<1>8. Carries(w)'
  BY <1>2, <1>6, <1>7 DEF Carries, Mining, At
<1>9. acct' \in AccountState
  BY <1>1 DEF IInv
<1> QED BY <1>1, <1>5, <1>8, <1>9, MinerMoves

LEMMA RemoveKeeps ==
  ASSUME IInv, NEW w \in Workers, RemoveSelected(w)
  PROVE  IInv'
<1> DEFINE p == RemoveConfirmed(pool, worker[w].txs)
<1>1. Becomes(w, Idle) /\ pool' = p /\ chain' = chain /\ acct' = acct
  BY DEF RemoveSelected
<1>2. worker'[w] = Idle
  BY <1>1, OthersCarry
<1>3. Carries(w)' /\ Idle.pc # "insert"
  BY <1>2 DEF Carries, Mining, At, Idle
<1>4. /\ pool.pending \in Seq(Arrivals) /\ pool.pending \in Seq(Pending(pool))
      /\ pool.flagged \subseteq Arrivals
      /\ \A tx \in Pending(pool) : IsValid(tx)
      /\ \A i, j \in 1..Len(pool.pending) : pool.pending[i] = pool.pending[j] => i = j
  BY DEF IInv, PoolOK, Pending
<1>5. /\ p.pending \in Seq(Arrivals) /\ p.pending \in Seq(Pending(pool))
      /\ p.flagged = pool.flagged /\ Len(p.pending) <= Len(pool.pending)
  BY <1>4, RemoveType
<1>6. \A i, j \in 1..Len(p.pending) : p.pending[i] = p.pending[j] => i = j
  BY <1>4, RemoveDistinct
<1> HIDE DEF p
<1>7. PoolOK'
  <2>1. Pending(p) \subseteq Pending(pool)
    <3>1. \A i \in 1..Len(p.pending) : p.pending[i] \in Pending(pool)
      BY <1>5
    <3> QED BY <3>1 DEF Pending
  <2>2. \A tx \in Pending(p) : IsValid(tx)
    BY <1>4, <2>1
  <2> QED BY <1>1, <1>4, <1>5, <1>6, <2>2 DEF PoolOK
<1>8. acct' \in AccountState
  BY <1>1 DEF IInv
<1> QED BY <1>1, <1>3, <1>5, <1>7, <1>8, MoveKeeps

LEMMA InitIInv == Init => IInv
<1> SUFFICES ASSUME Init PROVE IInv
  OBVIOUS
<1>1. /\ chain = <<Genesis>> /\ acct = EmptyState /\ pool = EmptyPool
      /\ worker = [w \in Workers |-> Idle]
  BY DEF Init
<1>2. acct \in AccountState
  BY <1>1 DEF EmptyState, AccountState
<1>3. ChainOK
  <2>1. Genesis \in ChainBlock
    BY DEF Genesis, ChainBlock
  <2> QED BY <1>1, <2>1 DEF ChainOK
<1>4. PoolOK
  BY <1>1 DEF PoolOK, EmptyPool, Pending
<1>5. ThreadsOK
  BY <1>1 DEF ThreadsOK, Carries, Mining, At, Idle
<1>6. RoomLeft
  <2>1. Inserting = {}
    BY <1>1 DEF Inserting, At, Idle
  <2>2. /\ Cardinality({}) = 0 /\ Cardinality(Workers) \in Nat
        /\ Cardinality(Workers) # 0
    BY ServerAssumption, FS_EmptySet, FS_CardinalityType
  <2>3. Len(pool.pending) = 0
    BY <1>1 DEF EmptyPool
  <2> QED BY <2>1, <2>2, <2>3, PoolAssumption DEF RoomLeft
<1> QED BY <1>2, <1>3, <1>4, <1>5, <1>6 DEF IInv

LEMMA NextIInv == IInv /\ [Next]_vars => IInv'
<1> SUFFICES ASSUME IInv, [Next]_vars PROVE IInv'
  OBVIOUS
<1>1. CASE UNCHANGED vars
  BY <1>1 DEF vars, IInv, PoolOK, Pending, ChainOK, ThreadsOK, Carries, Mining,
              At, InChain, RoomLeft, Inserting
<1>2. CASE \E w \in Workers : \E tx \in Txs : StartSubmit(w, tx)
  BY <1>2, SubmitKeeps
<1>3. CASE \E w \in Workers : TestTx(w) \/ InsertTx(w)
  BY <1>3, TestKeeps, InsertKeeps
<1>4. CASE \E w \in Workers : StartMine(w) \/ BuildCandidate(w)
  BY <1>4, StartMineKeeps, BuildKeeps
<1>5. CASE \E w \in Workers : (\E sealed \in BOOLEAN : Seal(w, sealed)) \/ Validate(w)
  BY <1>5, SealKeeps, ValidateKeeps
<1>6. CASE \E w \in Workers : ApplyTx(w) \/ AppendBlock(w) \/ RemoveSelected(w)
  BY <1>6, ApplyKeeps, AppendKeeps, RemoveKeeps
<1> QED BY <1>1, <1>2, <1>3, <1>4, <1>5, <1>6 DEF Next, Finish

(* The inductive invariant holds in every reachable state. *)
THEOREM Inductive == Spec => []IInv
<1> QED BY InitIInv, NextIInv, PTL DEF Spec

(* Whatever the threads do, the state keeps its types and the pool holds no *)
(* transaction twice.                                                       *)
THEOREM TypeCorrect == Spec => []TypeOK
<1> QED BY Inductive, IInvTypes, PTL

(* The pool outgrows max_size by less than the number of threads. *)
THEOREM PoolStaysBounded == Spec => []PoolBounded
<1>1. IInv => PoolBounded
  <2> SUFFICES ASSUME IInv PROVE PoolBounded
    OBVIOUS
  <2>1. IsFiniteSet(Workers) /\ Inserting \subseteq Workers
    BY ServerAssumption DEF Inserting
  <2>2. Cardinality(Inserting) \in Nat /\ Cardinality(Workers) \in Nat
    BY <2>1, FS_Subset, FS_CardinalityType
  <2>3. Len(pool.pending) \in Nat
    BY DEF IInv, PoolOK
  <2> QED BY <2>2, <2>3, PoolAssumption DEF IInv, RoomLeft, PoolBounded
<1> QED BY Inductive, <1>1, PTL

(* A transaction leaves the pool only when it is in the chain. *)
LEMMA PoolStep ==
  ASSUME IInv, [Next]_vars, NEW tx \in Pending(pool) \ Pending(pool')
  PROVE  InChain(tx)
<1>1. CASE \E w \in Workers : RemoveSelected(w)
  <2>1. PICK w \in Workers : RemoveSelected(w)
    BY <1>1
  <2>2. pool' = RemoveConfirmed(pool, worker[w].txs) /\ At(w, "remove")
    BY <2>1 DEF RemoveSelected
  <2>3. \E j \in 1..Len(worker[w].txs) : worker[w].txs[j] = tx
    BY <2>2, RemoveType DEF IInv, PoolOK
  <2> QED BY <2>2, <2>3 DEF IInv, ThreadsOK, Carries
<1>2. CASE \E w \in Workers : TestTx(w) \/ InsertTx(w)
  <2>1. PICK w \in Workers : TestTx(w) \/ InsertTx(w)
    BY <1>2
  <2>2. /\ pool.pending \in Seq(Arrivals)
        /\ At(w, "insert") => worker[w].tx \in Arrivals
    BY DEF IInv, PoolOK, ThreadsOK, Carries, At
  <2>3. CASE TestTx(w)
    <3>1. pool'.pending = pool.pending
      BY <2>3 DEF TestTx, AddTx
    <3> QED BY <3>1 DEF Pending
  <2>4. CASE InsertTx(w)
    <3>0. At(w, "insert") /\ worker[w].tx \in Arrivals
      BY <2>2, <2>4 DEF InsertTx
    <3>1. pool'.pending = pool.pending \/ pool'.pending = Append(pool.pending, worker[w].tx)
      BY <2>4 DEF InsertTx
    <3>2. Pending(pool) \subseteq Pending(pool')
      BY <2>2, <3>0, <3>1 DEF Pending
    <3> QED BY <3>2
  <2> QED BY <2>1, <2>3, <2>4
<1>3. CASE pool' = pool
  BY <1>3
<1> QED BY <1>1, <1>2, <1>3
      DEF Next, Finish, vars, StartSubmit, StartMine, BuildCandidate, Seal, Validate,
          ApplyTx, AppendBlock

(* So remove_confirmed, which drops what had been selected, never drops a   *)
(* transaction that was not mined.                                          *)
THEOREM NoTransactionLost == Spec => LeavesPoolConfirmed
<1>1. IInv /\ [Next]_vars => [\A tx \in Pending(pool) \ Pending(pool') : InChain(tx)]_vars
  BY PoolStep
<1> QED BY Inductive, <1>1, PTL DEF Spec, LeavesPoolConfirmed

-----------------------------------------------------------------------------
(* One thread that mines at a time *)

OneMiner == \A v, w \in MiningWorkers : v = w

(* The books are in order and, while a validated block is being applied,    *)
(* the balances and nonces are those books plus the transactions applied so *)
(* far: nothing else has touched them since the validation.                 *)
BooksKept ==
  /\ Replayable(chain)
  /\ Books \in AccountState /\ \A a \in Accounts : Books.balances[a] >= 0
  /\ Settled => acct = Books
  /\ \A w \in Workers : At(w, "apply") =>
       LET txs == worker[w].block.transactions
       IN /\ LinksTo(worker[w].block, LastBlock)
          /\ ValidTransactions(Books, txs)
          /\ acct = ApplyTrace(Books, txs)[worker[w].next - 1]

(* The thread at work on a block is alone: no other is past its validation. *)
LEMMA AloneAtWork ==
  ASSUME OneMiner, IInv, NEW w \in Workers, w \in MiningWorkers
  PROVE  \A v \in Workers : v # w => ~At(v, "apply")
BY DEF OneMiner, IInv, ThreadsOK, Carries, Mining, At

(* A step of a thread that is not applying a block, before or after. *)
LEMMA QuietStep ==
  ASSUME IInv, BooksKept, NEW w \in Workers, NEW s, Becomes(w, s),
         ~At(w, "apply"), s.pc # "apply", chain' = chain, acct' = acct
  PROVE  BooksKept'
<1>1. /\ worker'[w] = s
      /\ \A v \in Workers : v # w => worker'[v] = worker[v]
  BY OthersCarry
<1>2. Books' = Books /\ LastBlock' = LastBlock
  BY DEF Books, LastBlock
<1>3. Settled' => Settled
  BY <1>1 DEF Settled, At
<1>4. \A v \in Workers : At(v, "apply")' => At(v, "apply") /\ worker'[v] = worker[v]
  BY <1>1 DEF At
<1>5. Replayable(chain') /\ (Settled' => acct' = Books')
  BY <1>2, <1>3 DEF BooksKept
<1>6. Books' \in AccountState /\ \A a \in Accounts : Books'.balances[a] >= 0
  BY <1>2 DEF BooksKept
<1>7. ASSUME NEW v \in Workers, At(v, "apply")'
      PROVE  /\ LinksTo(worker'[v].block, LastBlock')
             /\ ValidTransactions(Books', worker'[v].block.transactions)
             /\ acct' = ApplyTrace(Books', worker'[v].block.transactions)[worker'[v].next - 1]
  BY <1>2, <1>4, <1>7 DEF BooksKept
<1> QED BY <1>5, <1>6, <1>7 DEF BooksKept

(* What is validated is validated against the books. *)
LEMMA ValidateBooks ==
  ASSUME OneMiner, IInv, BooksKept, NEW w \in Workers, Validate(w)
  PROVE  BooksKept'
<1> DEFINE s == [pc |-> "apply", txs |-> worker[w].txs,
                 block |-> worker[w].block, next |-> 1]
           txs == worker[w].block.transactions
<1>1. At(w, "validate") /\ chain' = chain /\ acct' = acct
  BY DEF Validate
<1>2. CASE ~ValidBlock(worker[w].block, worker[w].sealed)
  <2>1. Becomes(w, Idle)
    BY <1>2 DEF Validate
  <2> QED BY <1>1, <2>1, QuietStep DEF At, Idle
<1>3. CASE ValidBlock(worker[w].block, worker[w].sealed)
  <2>1. Becomes(w, s)
    BY <1>3 DEF Validate
  <2>2. /\ worker'[w] = s
        /\ \A v \in Workers : v # w => worker'[v] = worker[v]
    BY <1>1, <2>1, OthersCarry
  <2>3. w \in MiningWorkers
    BY <1>1 DEF IInv, ThreadsOK, Carries, Mining, At
  <2>4. \A v \in Workers : v # w => ~At(v, "apply")
    BY <2>3, AloneAtWork
  <2>5. acct = Books
    BY <1>1, <2>4 DEF BooksKept, Settled, At
  <2>6. LinksTo(worker[w].block, LastBlock) /\ ValidTransactions(acct, txs)
    BY <1>3 DEF ValidBlock
  <2>7. ApplyTrace(Books, txs)[0] = Books
    <3>1. Len(txs) \in Nat
      BY <1>1, BlockLegal DEF At
    <3> HIDE DEF txs
    <3> QED BY <3>1, ApplyTraceDef
  <2>8. Books' = Books /\ LastBlock' = LastBlock
    BY <1>1 DEF Books, LastBlock
  <2>9. \A v \in Workers : At(v, "apply")' => v = w
    BY <2>2, <2>4 DEF At
  <2>10. ~Settled'
    BY <2>2 DEF Settled, At
  <2>11. Replayable(chain') /\ Books' \in AccountState
         /\ \A a \in Accounts : Books'.balances[a] >= 0
    BY <1>1, <2>8 DEF BooksKept
  <2>12. /\ LinksTo(worker'[w].block, LastBlock')
         /\ ValidTransactions(Books', worker'[w].block.transactions)
         /\ acct' = ApplyTrace(Books', worker'[w].block.transactions)[worker'[w].next - 1]
    BY <1>1, <2>2, <2>5, <2>6, <2>7, <2>8
  <2> QED BY <2>9, <2>10, <2>11, <2>12 DEF BooksKept
<1> QED BY <1>2, <1>3

LEMMA ApplyBooks ==
  ASSUME OneMiner, IInv, BooksKept, NEW w \in Workers, ApplyTx(w)
  PROVE  BooksKept'
<1> DEFINE txs == worker[w].block.transactions
           k == worker[w].next
           s == [pc |-> "apply", txs |-> worker[w].txs,
                 block |-> worker[w].block, next |-> k + 1]
<1>1. /\ At(w, "apply") /\ chain' = chain /\ Becomes(w, s)
      /\ k <= Len(txs) /\ acct' = Apply(acct, txs[k])
  BY DEF ApplyTx
<1>2. /\ worker'[w] = s
      /\ \A v \in Workers : v # w => worker'[v] = worker[v]
  BY <1>1, OthersCarry
<1>3. w \in MiningWorkers /\ k \in 1..(Len(txs) + 1)
  BY <1>1 DEF IInv, ThreadsOK, Carries, Mining, At
<1>4. \A v \in Workers : v # w => ~At(v, "apply")
  BY <1>3, AloneAtWork
<1>5. /\ LinksTo(worker[w].block, LastBlock) /\ ValidTransactions(Books, txs)
      /\ acct = ApplyTrace(Books, txs)[k - 1]
  BY <1>1 DEF BooksKept
<1>6. Len(txs) \in Nat
  BY <1>1, BlockLegal DEF At
<1> HIDE DEF txs, k
<1>7. ApplyTrace(Books, txs)[k] = Apply(ApplyTrace(Books, txs)[k-1], txs[k])
  <2>1. k \in 0..Len(txs) /\ k # 0
    BY <1>1, <1>3, <1>6
  <2> QED BY <1>6, <2>1, ApplyTraceDef
<1>8. acct' = ApplyTrace(Books, txs)[(k + 1) - 1]
  BY <1>1, <1>3, <1>5, <1>7
<1>9. Books' = Books /\ LastBlock' = LastBlock
  BY <1>1 DEF Books, LastBlock
<1>10. \A v \in Workers : At(v, "apply")' => v = w
  BY <1>2, <1>4 DEF At
<1>11. ~Settled'
  BY <1>2 DEF Settled, At
<1>12. Replayable(chain') /\ Books' \in AccountState
       /\ \A a \in Accounts : Books'.balances[a] >= 0
  BY <1>1, <1>9 DEF BooksKept
<1>13. worker'[w].block.transactions = txs /\ worker'[w].next = k + 1
       /\ worker'[w].block = worker[w].block
  BY <1>2 DEF txs
<1>14. /\ LinksTo(worker'[w].block, LastBlock')
       /\ ValidTransactions(Books', worker'[w].block.transactions)
       /\ acct' = ApplyTrace(Books', worker'[w].block.transactions)[worker'[w].next - 1]
  BY <1>5, <1>8, <1>9, <1>13
<1> QED BY <1>10, <1>11, <1>12, <1>14 DEF BooksKept

(* When the block joins the chain the books catch up with the balances and  *)
(* nonces.                                                                  *)
LEMMA AppendBooks ==
  ASSUME OneMiner, IInv, BooksKept, NEW w \in Workers, AppendBlock(w)
  PROVE  /\ BooksKept'
         /\ \E txs : /\ LegalBody(txs) /\ ValidTransactions(Books, txs)
                    /\ Books' = ApplyBlock(Books, txs)
<1> DEFINE b == worker[w].block
           txs == b.transactions
           c == [hash |-> Len(chain), index |-> b.index,
                 previous_hash |-> b.previous_hash, transactions |-> b.transactions]
           s == [pc |-> "remove", txs |-> worker[w].txs]
           n == Len(chain)
<1>1. /\ At(w, "apply") /\ chain' = Append(chain, c) /\ acct' = acct
      /\ Becomes(w, s) /\ worker[w].next > Len(txs)
  BY DEF AppendBlock
<1>2. /\ w \in MiningWorkers /\ worker[w].next \in 1..(Len(txs) + 1)
      /\ b.index \in Int /\ b.previous_hash \in Int
  BY <1>1 DEF IInv, ThreadsOK, Carries, Mining, At
<1>3. LegalBody(txs) /\ Len(txs) \in Nat
  BY <1>1, BlockLegal DEF At
<1>4. chain \in Seq(ChainBlock) /\ n \in Nat /\ n >= 1
  BY DEF IInv, ChainOK
<1>5. c \in ChainBlock
  BY <1>2, <1>3, <1>4 DEF ChainBlock, LegalBody
<1>6. /\ LinksTo(b, LastBlock) /\ ValidTransactions(Books, txs)
      /\ acct = ApplyTrace(Books, txs)[worker[w].next - 1]
  BY <1>1 DEF BooksKept
<1>7. acct = ApplyBlock(Books, txs)
  <2> DEFINE k == worker[w].next
             m == Len(txs)
  <2>1. k \in 1..(m + 1) /\ k > m /\ m \in Nat
    BY <1>1, <1>2, <1>3
  <2>2. ApplyBlock(Books, txs) = ApplyTrace(Books, txs)[m]
    BY DEF ApplyBlock
  <2>3. acct = ApplyTrace(Books, txs)[k - 1]
    BY <1>6
  <2> HIDE DEF k, m
  <2>4. k - 1 = m
    BY <2>1
  <2> QED BY <2>2, <2>3, <2>4
<1>8. /\ worker'[w] = s
      /\ \A v \in Workers : v # w => worker'[v] = worker[v]
  BY <1>1, <1>5, OthersCarry
<1>9. \A v \in Workers : ~At(v, "apply")'
  <2>1. \A v \in Workers : v # w => ~At(v, "apply")
    BY <1>2, AloneAtWork
  <2> QED BY <1>8, <2>1 DEF At
<1>10. c.transactions = txs /\ LinksTo(c, chain[n])
  BY <1>6 DEF LinksTo, LastBlock
<1> HIDE DEF txs, c, n
<1>11. /\ Len(chain') = n + 1
       /\ Replay(chain')[n+1] = ApplyBlock(Replay(chain)[n], c.transactions)
  BY <1>1, <1>4, <1>5, ReplayAppend DEF n
<1>12. Books' = ApplyBlock(Books, txs)
  BY <1>10, <1>11 DEF Books, n
<1>13. Replayable(chain')
  <2>1. Replayable(chain) /\ ValidTransactions(Replay(chain)[n], c.transactions)
    BY <1>6, <1>10 DEF BooksKept, Books, n
  <2> QED BY <1>1, <1>4, <1>5, <1>10, <2>1, ReplayableAppend DEF n
<1>14. Books' \in AccountState /\ \A a \in Accounts : Books'.balances[a] >= 0
  <2>1. Books \in AccountState /\ \A a \in Accounts : Books.balances[a] >= 0
    BY DEF BooksKept
  <2> QED BY <1>3, <1>6, <1>12, <2>1, ApplyLegal
<1>15. BooksKept'
  BY <1>1, <1>7, <1>9, <1>12, <1>13, <1>14 DEF BooksKept
<1> QED BY <1>3, <1>6, <1>12, <1>15

(* The books change when a block joins the chain, and at no other time. *)
LEMMA NextBooks ==
  ASSUME OneMiner, IInv, BooksKept, [Next]_vars
  PROVE  /\ BooksKept'
         /\ \/ Books' = Books
            \/ \E txs : /\ LegalBody(txs) /\ ValidTransactions(Books, txs)
                       /\ Books' = ApplyBlock(Books, txs)
<1>1. CASE UNCHANGED vars
  BY <1>1 DEF vars, BooksKept, Books, Settled, At, LastBlock
<1>2. CASE \E w \in Workers : AppendBlock(w)
  BY <1>2, AppendBooks
<1>3. CASE \E w \in Workers : Validate(w) \/ ApplyTx(w)
  <2>1. Books' = Books
    BY <1>3 DEF Validate, ApplyTx, Books
  <2> QED BY <1>3, <2>1, ValidateBooks, ApplyBooks
<1>4. ASSUME NEW w \in Workers,
             \/ \E tx \in Txs : StartSubmit(w, tx)
             \/ TestTx(w) \/ InsertTx(w) \/ StartMine(w) \/ BuildCandidate(w)
             \/ \E sealed \in BOOLEAN : Seal(w, sealed)
             \/ RemoveSelected(w)
      PROVE  BooksKept' /\ Books' = Books
  <2>1. chain' = chain /\ acct' = acct /\ ~At(w, "apply")
    BY <1>4 DEF StartSubmit, TestTx, InsertTx, StartMine, BuildCandidate, Seal,
                RemoveSelected, At
  <2>2. \E s : Becomes(w, s) /\ s.pc # "apply"
    <3>1. CASE \E tx \in Txs : StartSubmit(w, tx)
      <4>1. PICK tx \in Txs : Becomes(w, [pc |-> "add", sent |-> tx, tx |-> Received(tx)])
        BY <3>1 DEF StartSubmit
      <4>2. [pc |-> "add", sent |-> tx, tx |-> Received(tx)].pc # "apply"
        OBVIOUS
      <4> QED BY <4>1, <4>2
    <3>2. CASE TestTx(w)
      <4> DEFINE s == [pc |-> "insert", sent |-> worker[w].sent, tx |-> worker[w].tx]
      <4>1. Becomes(w, s) \/ Becomes(w, Idle)
        BY <3>2 DEF TestTx
      <4>2. s.pc # "apply" /\ Idle.pc # "apply"
        BY DEF Idle
      <4> HIDE DEF s
      <4> QED BY <4>1, <4>2
    <3>3. CASE InsertTx(w) \/ RemoveSelected(w)
      <4>1. Becomes(w, Idle)
        BY <3>3 DEF InsertTx, RemoveSelected
      <4>2. Idle.pc # "apply"
        BY DEF Idle
      <4> QED BY <4>1, <4>2
    <3>4. CASE StartMine(w)
      <4> DEFINE s == [pc |-> "candidate", txs |-> Select(pool)]
      <4>1. Becomes(w, s)
        BY <3>4 DEF StartMine
      <4>2. s.pc # "apply"
        OBVIOUS
      <4> HIDE DEF s
      <4> QED BY <4>1, <4>2
    <3>5. CASE BuildCandidate(w)
      <4> DEFINE s == [pc |-> "seal", txs |-> worker[w].txs,
                       block |-> [index |-> LastBlock.index + 1,
                                  previous_hash |-> LastBlock.hash,
                                  transactions |-> CandidateBody(worker[w].txs, Miner)]]
      <4>1. Becomes(w, s)
        BY <3>5 DEF BuildCandidate
      <4>2. s.pc # "apply"
        OBVIOUS
      <4> HIDE DEF s
      <4> QED BY <4>1, <4>2
    <3>6. CASE \E sealed \in BOOLEAN : Seal(w, sealed)
      <4>0. PICK sealed \in BOOLEAN : Seal(w, sealed)
        BY <3>6
      <4> DEFINE s == [pc |-> "validate", txs |-> worker[w].txs, sealed |-> sealed,
                       block |-> worker[w].block]
      <4>1. Becomes(w, s)
        BY <4>0 DEF Seal
      <4>2. s.pc # "apply"
        OBVIOUS
      <4> HIDE DEF s
      <4> QED BY <4>1, <4>2
    <3> QED BY <1>4, <3>1, <3>2, <3>3, <3>4, <3>5, <3>6
  <2>3. Books' = Books
    BY <2>1 DEF Books
  <2> QED BY <2>1, <2>2, <2>3, QuietStep
<1> QED BY <1>1, <1>2, <1>3, <1>4 DEF Next, Finish

LEMMA InitBooks == Init => BooksKept
<1> SUFFICES ASSUME Init PROVE BooksKept
  OBVIOUS
<1>1. /\ chain = <<Genesis>> /\ Len(chain) = 1 /\ acct = EmptyState
      /\ worker = [w \in Workers |-> Idle]
  BY DEF Init
<1>2. Books = EmptyState
  <2>1. Replay(chain)[1] = EmptyState
    BY <1>1, ReplayDef
  <2> QED BY <1>1, <2>1 DEF Books
<1>3. EmptyState \in AccountState /\ \A a \in Accounts : EmptyState.balances[a] >= 0
  BY DEF EmptyState, AccountState
<1>4. Replayable(chain)
  BY <1>1 DEF Replayable
<1>5. \A w \in Workers : ~At(w, "apply")
  BY <1>1 DEF At, Idle
<1> QED BY <1>1, <1>2, <1>3, <1>4, <1>5 DEF BooksKept

LEMMA BooksInductive ==
  ASSUME OneMiner
  PROVE  Spec => [](IInv /\ BooksKept)
<1>1. Init => IInv /\ BooksKept
  BY InitIInv, InitBooks
<1>2. (IInv /\ BooksKept) /\ [Next]_vars => (IInv /\ BooksKept)'
  BY NextIInv, NextBooks
<1> QED BY <1>1, <1>2, PTL DEF Spec

(* With one mining thread a block is applied as if in one step: outside of  *)
(* it the balances and nonces are the replay of the chain.                  *)
THEOREM BlocksApplyAtomically == OneMiner => (Spec => []AppliedAtomically)
<1> SUFFICES ASSUME OneMiner PROVE Spec => []AppliedAtomically
  OBVIOUS
<1>1. IInv /\ BooksKept => AppliedAtomically
  BY DEF BooksKept, AppliedAtomically, Books
<1> QED BY BooksInductive, <1>1, PTL

(* And a client that reads a balance half way through never sees it below   *)
(* zero.                                                                    *)
THEOREM NoNegativeBalanceRead == OneMiner => (Spec => []NoNegativeRead)
<1> SUFFICES ASSUME OneMiner PROVE Spec => []NoNegativeRead
  OBVIOUS
<1>1. IInv /\ BooksKept => NoNegativeRead
  <2> SUFFICES ASSUME IInv, BooksKept PROVE NoNegativeRead
    OBVIOUS
  <2>1. CASE Settled
    BY <2>1 DEF BooksKept, NoNegativeRead
  <2>2. CASE ~Settled
    <3>1. PICK w \in Workers : At(w, "apply")
      BY <2>2 DEF Settled
    <3> DEFINE txs == worker[w].block.transactions
               k == worker[w].next
    <3>2. LegalBody(txs) /\ Len(txs) \in Nat /\ k \in 1..(Len(txs) + 1)
      BY <3>1, BlockLegal DEF At, IInv, ThreadsOK, Carries
    <3>3. /\ Books \in AccountState /\ \A a \in Accounts : Books.balances[a] >= 0
          /\ ValidTransactions(Books, txs)
          /\ acct = ApplyTrace(Books, txs)[k - 1]
      BY <3>1 DEF BooksKept
    <3> HIDE DEF txs, k
    <3>4. k - 1 \in 0..Len(txs)
      BY <3>2
    <3> QED BY <3>2, <3>3, <3>4, ApplyLegal DEF NoNegativeRead
  <2> QED BY <2>1, <2>2
<1> QED BY BooksInductive, <1>1, PTL

(* One mining thread and any number of others implement Bank: what joins    *)
(* the chain is what a ledger may do in one block.                          *)
THEOREM ImplementsBank == OneMiner => (Spec => BankSpec)
<1> SUFFICES ASSUME OneMiner PROVE Spec => BankSpec
  OBVIOUS
<1>1. Init => TheBank!Init
  <2> SUFFICES ASSUME Init PROVE TheBank!Init
    OBVIOUS
  <2>1. chain = <<Genesis>> /\ Len(chain) = 1
    BY DEF Init
  <2>2. Replay(chain)[1] = EmptyState
    BY <2>1, ReplayDef
  <2>3. Books = EmptyState
    BY <2>1, <2>2 DEF Books
  <2> QED BY <2>3 DEF TheBank!Init, TheBank!EmptyState, EmptyState,
                    TheBank!Accounts, Accounts
<1>2. (IInv /\ BooksKept) /\ [Next]_vars => [TheBank!CommitBlock]_TheBank!vars
  <2> SUFFICES ASSUME IInv, BooksKept, [Next]_vars
               PROVE  TheBank!CommitBlock \/ UNCHANGED TheBank!vars
    OBVIOUS
  <2>1. CASE Books' = Books
    BY <2>1 DEF TheBank!vars
  <2>2. CASE \E txs : /\ LegalBody(txs) /\ ValidTransactions(Books, txs)
                      /\ Books' = ApplyBlock(Books, txs)
    <3>1. PICK txs : /\ LegalBody(txs) /\ ValidTransactions(Books, txs)
                     /\ Books' = ApplyBlock(Books, txs)
      BY <2>2
    <3>2. Books \in AccountState /\ \A a \in Accounts : Books.balances[a] >= 0
      BY DEF BooksKept
    <3>3. /\ Books' \in AccountState /\ \A a \in Accounts : Books'.balances[a] >= 0
          /\ \A a \in Accounts : Moved(Books, Books', a, 0)
          /\ Total(Books'.balances) <= Total(Books.balances) + BLOCK_REWARD
      BY <3>1, <3>2, ApplyLegal, IssuanceBound DEF LegalBody
    <3>4. Books'.balances \in [Accounts -> Nat] /\ Books'.nonces \in [Accounts -> Nat]
      BY <3>3 DEF AccountState
    <3>5. /\ TheBank!Accounts = Accounts
          /\ \A f : TheBank!Total(f) = Total(f)
      BY DEF TheBank!Accounts, Accounts, TheBank!Total, Total,
             TheBank!Sum, Sum, TheBank!SumTrace, SumTrace
    <3>6. \A a \in Accounts :
            /\ Books'.nonces[a] >= Books.nonces[a]
            /\ Books'.balances[a] < Books.balances[a]
                 => Books'.nonces[a] > Books.nonces[a]
      <4> TAKE a \in Accounts
      <4>1. Books'.balances[a] \in Int
        BY <3>4
      <4> QED BY <3>3, <4>1 DEF Moved
    <3> QED BY <3>3, <3>4, <3>5, <3>6 DEF TheBank!CommitBlock
  <2> QED BY <2>1, <2>2, NextBooks
<1> QED BY BooksInductive, <1>1, <1>2, PTL DEF Spec, BankSpec, TheBank!Spec

=============================================================================
