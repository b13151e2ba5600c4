---------------------------- MODULE NetworkProofs ---------------------------
(***************************************************************************)
(* What holds of the nodes for every number of nodes and accounts, every    *)
(* set of transactions and losses, every limit of the difficulty and every  *)
(* bound on the blocks mined.                                               *)
(***************************************************************************)
EXTENDS Network, BlockchainProofs

-----------------------------------------------------------------------------
(* The inductive invariant *)

LedgerType == [chain: Seq(Block), acct: AccountState,
               difficulty: min_difficulty..max_difficulty, controlled: BOOLEAN]

(* A ledger that begins at the genesis block, is the replay of its chain    *)
(* and has no balance below zero, which is what makes the blocks it accepts *)
(* leave none below zero (ApplyLegal).                                      *)
Sound(l) ==
  /\ l \in LedgerType
  /\ Len(l.chain) >= 1 /\ l.chain[1] = Genesis
  /\ Replayable(l.chain)
  /\ l.acct = Replay(l.chain)[Len(l.chain)]
  /\ \A a \in Accounts : l.acct.balances[a] >= 0

(* Every block but the genesis block was mined by some node. *)
MinedBy(l, bs) == \A i \in 2..Len(l.chain) : l.chain[i] \in bs

(* Hashes are numbers given out one after the other: they tell blocks       *)
(* apart, from each other and from the genesis block.                       *)
HashesTell ==
  /\ IsFiniteSet(blocks)
  /\ \A b \in blocks : b.hash \in 1..Cardinality(blocks)
  /\ \A b, c \in blocks : b.hash = c.hash => b = c

(* Pools hold valid transactions only, so blocks have legal coinbases.      *)
Lawful ==
  /\ \A n \in Nodes : \A tx \in Pending(pool[n]) : IsValid(tx)
  /\ \A b \in blocks : LegalBody(b.transactions)

IInv ==
  /\ TypeOK /\ HashesTell /\ Lawful
  /\ \A n \in Nodes : Sound(ledger[n]) /\ MinedBy(ledger[n], blocks)

-----------------------------------------------------------------------------
(* Work and reputation *)

LEMMA QualityType ==
  ASSUME NEW loss \in Nat, NEW threshold \in Nat
  PROVE  WorkQuality(loss, threshold) \in 0..100
<1>1. CASE loss >= threshold
  BY <1>1 DEF WorkQuality
<1>2. CASE loss < threshold
  <2>1. \A a, d \in Nat : d > 0 /\ a <= 100 * d => a \div d \in 0..100
    OBVIOUS
  <2>2. 100 * (threshold - loss) \in Nat /\ 100 * (threshold - loss) <= 100 * threshold
    BY <1>2
  <2> QED BY <1>2, <2>1, <2>2 DEF WorkQuality
<1> QED BY <1>1, <1>2

(* A reputation stays within FLOOR..ONE whatever a miner does. *)
LEMMA ObservedType ==
  ASSUME NEW s \in ValidatorStats, NEW quality \in 0..100
  PROVE  /\ ObserveValidBlock(s, quality) \in ValidatorStats
         /\ ObserveInvalidBlock(s) \in ValidatorStats
<1>1. \A r \in Int : Bounded(r) \in FLOOR..ONE
  BY DEF Bounded, FLOOR, ONE
<1>2. s.reputation \in Int /\ s.accepted \in Nat /\ s.invalid \in Nat
  BY DEF ValidatorStats, FLOOR, ONE
<1> DEFINE sum == (ONE - DECAY) * ONE * s.reputation
                  + DECAY * (70 * quality + 30 * ONE)
<1>3. sum \in Int
  BY <1>2 DEF ONE, DECAY
<1> HIDE DEF sum
<1>4. sum \div (ONE * ONE) \in Int /\ s.reputation - PENALTY \in Int
  BY <1>2, <1>3 DEF ONE, PENALTY
<1>5. /\ Bounded(sum \div (ONE * ONE)) \in FLOOR..ONE
      /\ Bounded(s.reputation - PENALTY) \in FLOOR..ONE
  BY <1>1, <1>4
<1>6. ObserveValidBlock(s, quality) =
        [reputation |-> Bounded(sum \div (ONE * ONE)),
         accepted |-> s.accepted + 1, invalid |-> s.invalid]
  BY DEF ObserveValidBlock, sum
<1> QED BY <1>2, <1>5, <1>6 DEF ObserveInvalidBlock, ValidatorStats

(* A block scores more than nothing. *)
LEMMA BlockScores ==
  ASSUME NEW b \in Block
  PROVE  BlockScore(b) \in Int /\ BlockScore(b) > 0
<1>1. /\ b.difficulty \in Int /\ b.difficulty >= 1
      /\ b.proof.work_quality \in Int /\ b.proof.work_quality >= 0
  <2>1. /\ b.difficulty \in min_difficulty..max_difficulty
        /\ b.proof \in [loss: Nat, work_quality: 0..100]
    BY DEF Block
  <2>2. b.proof.work_quality \in 0..100
    BY <2>1
  <2>3. min_difficulty \in Nat \ {0} /\ max_difficulty \in Nat
    BY DifficultyAssumption
  <2> QED BY <2>1, <2>2, <2>3
<1>2. \A d, q \in Int : d >= 1 /\ q >= 100 => d * q \in Int /\ d * q > 0
  OBVIOUS
<1> QED BY <1>1, <1>2 DEF BlockScore

LEMMA ScoreTraceDef ==
  ASSUME NEW bs, Len(bs) \in Nat
  PROVE  ScoreTrace(bs) =
           [i \in 1..Len(bs) |->
              IF i = 1 THEN 0 ELSE ScoreTrace(bs)[i-1] + BlockScore(bs[i])]
<1> DEFINE S == {m \in Nat : \E g :
             g = [i \in 1..m |-> IF i = 1 THEN 0 ELSE g[i-1] + BlockScore(bs[i])]}
<1>1. 0 \in S
  <2>1. [i \in 1..0 |-> 0] =
          [i \in 1..0 |-> IF i = 1 THEN 0
                          ELSE [j \in 1..0 |-> 0][i-1] + BlockScore(bs[i])]
    OBVIOUS
  <2> QED BY <2>1
<1>2. ASSUME NEW m \in Nat, m \in S PROVE m + 1 \in S
  <2>1. PICK g : g = [i \in 1..m |-> IF i = 1 THEN 0
                                     ELSE g[i-1] + BlockScore(bs[i])]
    BY <1>2
  <2> DEFINE new == IF m = 0 THEN 0 ELSE g[m] + BlockScore(bs[m+1])
             h == [i \in 1..(m+1) |-> IF i = m + 1 THEN new ELSE g[i]]
  <2>2. \A i \in 1..(m+1) :
          h[i] = IF i = 1 THEN 0 ELSE h[i-1] + BlockScore(bs[i])
    <3> SUFFICES ASSUME NEW i \in 1..(m+1)
                 PROVE  h[i] = IF i = 1 THEN 0 ELSE h[i-1] + BlockScore(bs[i])
      OBVIOUS
    <3>1. CASE i = m + 1
      BY <3>1
    <3>2. CASE i # m + 1
      <4>1. i \in 1..m /\ h[i] = g[i] /\ (i # 1 => h[i-1] = g[i-1])
        BY <3>2
      <4> HIDE DEF h
      <4> QED BY <2>1, <4>1
    <3> QED BY <3>1, <3>2
  <2>3. h = [i \in 1..(m+1) |-> IF i = 1 THEN 0 ELSE h[i-1] + BlockScore(bs[i])]
    <3> HIDE DEF h
    <3>1. h = [i \in 1..(m+1) |-> h[i]] BY DEF h
    <3> QED BY <2>2, <3>1
  <2> HIDE DEF h
  <2> QED BY <2>3
<1> HIDE DEF S
<1>3. Len(bs) \in S
  BY <1>1, <1>2, SetInduction
<1> QED BY <1>3 DEF S, ScoreTrace

(* A longer chain that begins with this one scores more: by induction over  *)
(* the positions up to Len(bs), at which the two score the same.            *)
LEMMA ScoreAppend ==
  ASSUME NEW bs \in Seq(Block), Len(bs) >= 1, NEW b \in Block
  PROVE  UsefulWorkScore(Append(bs, b)) > UsefulWorkScore(bs)
<1> DEFINE cs == Append(bs, b)
           n == Len(bs)
           s == ScoreTrace(bs)
           t == ScoreTrace(cs)
           S == {i \in 0..n : i = 0 \/ (s[i] \in Int /\ t[i] = s[i])}
<1>1. /\ n \in Nat /\ n >= 1 /\ Len(cs) = n + 1 /\ cs[n+1] = b
      /\ \A i \in 1..n : cs[i] = bs[i] /\ bs[i] \in Block
  OBVIOUS
<1>2. \A i \in 1..n : s[i] = IF i = 1 THEN 0 ELSE s[i-1] + BlockScore(bs[i])
  BY <1>1, ScoreTraceDef
<1>3. \A i \in 1..(n+1) : t[i] = IF i = 1 THEN 0 ELSE t[i-1] + BlockScore(cs[i])
  <2> HIDE DEF cs
  <2> QED BY <1>1, ScoreTraceDef
<1> HIDE DEF cs, s, t
<1>4. 0 \in S
  BY <1>1
<1>5. \A i \in 0..(n-1) : i \in S => i + 1 \in S
  <2> SUFFICES ASSUME NEW i \in 0..(n-1), i = 0 \/ (s[i] \in Int /\ t[i] = s[i])
               PROVE  s[i+1] \in Int /\ t[i+1] = s[i+1]
    BY <1>1
  <2>0. i + 1 \in 1..n /\ i + 1 \in 1..(n+1) /\ (i + 1) - 1 = i
    BY <1>1
  <2>1. cs[i+1] = bs[i+1] /\ bs[i+1] \in Block
    BY <1>1, <2>0
  <2>2. /\ s[i+1] = IF i + 1 = 1 THEN 0 ELSE s[i] + BlockScore(bs[i+1])
        /\ t[i+1] = IF i + 1 = 1 THEN 0 ELSE t[i] + BlockScore(bs[i+1])
    <3>1. s[i+1] = IF i + 1 = 1 THEN 0 ELSE s[(i+1)-1] + BlockScore(bs[i+1])
      BY <1>2, <2>0, Zenon
    <3>2. t[i+1] = IF i + 1 = 1 THEN 0 ELSE t[(i+1)-1] + BlockScore(cs[i+1])
      BY <1>3, <2>0, Zenon
    <3> QED BY <2>0, <2>1, <3>1, <3>2, Zenon
  <2>3. BlockScore(bs[i+1]) \in Int
    BY <2>1, BlockScores
  <2> QED BY <2>2, <2>3
<1> HIDE DEF S
<1>6. \A i \in 0..n : i \in S
  BY <1>1, <1>4, <1>5, UpTo
<1>7. s[n] \in Int /\ t[n] = s[n]
  BY <1>1, <1>6 DEF S
<1>8. t[n+1] = t[n] + BlockScore(b)
  <2>1. n + 1 \in 1..(n+1) /\ (n + 1) - 1 = n /\ n + 1 # 1
    BY <1>1
  <2> QED BY <1>1, <1>3, <2>1
<1>9. t[n+1] > s[n]
  BY <1>7, <1>8, BlockScores
<1> QED BY <1>1, <1>9 DEF UsefulWorkScore, s, t, cs

-----------------------------------------------------------------------------
(* One block more *)

(* What becomes of a sound ledger when it takes a legal block. *)
LEMMA AppendedSound ==
  ASSUME NEW l, Sound(l), NEW b \in Block, LegalBody(b.transactions),
         LinksTo(b, LastBlock(l)), ValidTransactions(l.acct, b.transactions)
  PROVE  /\ Sound(Committed(l, b))
         /\ Committed(l, b).chain = Append(l.chain, b)
         /\ Len(Committed(l, b).chain) = Len(l.chain) + 1
         /\ LastBlock(Committed(l, b)) = b
         /\ \A i \in 1..Len(l.chain) : Committed(l, b).chain[i] = l.chain[i]
<1> DEFINE n == Len(l.chain)
           c == Committed(l, b)
           after == ApplyBlock(l.acct, b.transactions)
<1>1. /\ l.chain \in Seq(Block) /\ n \in Nat /\ n >= 1 /\ l.chain[1] = Genesis
      /\ l.acct \in AccountState /\ l.difficulty \in min_difficulty..max_difficulty
      /\ l.controlled \in BOOLEAN
      /\ Replayable(l.chain) /\ l.acct = Replay(l.chain)[n]
      /\ \A a \in Accounts : l.acct.balances[a] >= 0
  BY DEF Sound, LedgerType
<1>2. /\ c.chain = Append(l.chain, b) /\ c.acct = after
      /\ c.difficulty = Retuned(l, b) /\ c.controlled = l.controlled
      /\ c = [chain |-> c.chain, acct |-> c.acct,
              difficulty |-> c.difficulty, controlled |-> c.controlled]
  BY DEF Committed
<1> HIDE DEF c, after
<1>3. /\ c.chain \in Seq(Block) /\ Len(c.chain) = n + 1 /\ c.chain[n+1] = b
      /\ \A i \in 1..n : c.chain[i] = l.chain[i]
  BY <1>1, <1>2
<1>4. after \in AccountState /\ \A a \in Accounts : after.balances[a] >= 0
  BY <1>1, ApplyLegal DEF after
<1>5. Retuned(l, b) \in min_difficulty..max_difficulty
  BY <1>1 DEF Retuned, Block
<1>6. c \in LedgerType
  BY <1>1, <1>2, <1>3, <1>4, <1>5 DEF LedgerType
<1>7. Replayable(c.chain)
  BY <1>1, <1>2, ReplayableAppend DEF LastBlock
<1>8. c.acct = Replay(c.chain)[Len(c.chain)]
  <2>1. Replay(c.chain)[n+1] = ApplyBlock(Replay(l.chain)[n], b.transactions)
    BY <1>1, <1>2, ReplayAppend
  <2> QED BY <1>1, <1>2, <1>3, <2>1 DEF after
<1>9. Sound(c)
  BY <1>1, <1>2, <1>3, <1>4, <1>6, <1>7, <1>8 DEF Sound
<1> QED BY <1>2, <1>3, <1>9 DEF c, LastBlock

-----------------------------------------------------------------------------
(* Steps *)

(* The block a node mines. *)
LEMMA NewBlockLegal ==
  ASSUME IInv, NEW n \in Nodes, NEW loss \in Losses, NEW move \in {-1, 0, 1}
  PROVE  /\ NewBlock(n, loss, move) \in Block
         /\ LegalBody(NewBlock(n, loss, move).transactions)
         /\ NewBlock(n, loss, move).hash = Cardinality(blocks) + 1
         /\ \A i \in 1..Len(Selected(n)) :
              /\ i + 1 \in 1..Len(NewBlock(n, loss, move).transactions)
              /\ NewBlock(n, loss, move).transactions[i+1] = Selected(n)[i]
<1> DEFINE l == ledger[n]
           txs == Selected(n)
           body == CandidateBody(txs, n)
           old == LastBlock(l)
           moved == Clamp(old.retuned + move)
           proof == SealedProof(loss, stats[n][n].reputation)
<1>1. n \in Accounts /\ loss \in Nat /\ Cardinality(blocks) + 1 \in Nat
  BY NodesAssumption, LossAssumption, FS_CardinalityType DEF IInv, HashesTell
<1>2. Sound(l) /\ l.difficulty \in min_difficulty..max_difficulty
  BY DEF IInv, Sound, LedgerType
<1>3. old \in Block
  BY <1>2 DEF Sound, LedgerType, LastBlock
<1>4. /\ old.index + 1 \in Nat /\ old.hash \in Int
      /\ old.retuned \in min_difficulty..max_difficulty
  BY <1>3 DEF Block
<1>5. moved \in min_difficulty..max_difficulty
  <2>1. /\ min_difficulty \in Int /\ max_difficulty \in Int
        /\ min_difficulty <= max_difficulty
    BY DifficultyAssumption
  <2>2. \A d \in Int : Clamp(d) \in min_difficulty..max_difficulty
    BY <2>1 DEF Clamp
  <2>3. old.retuned + move \in Int
    BY <1>4, <2>1
  <2> QED BY <2>2, <2>3
<1>6. proof \in [loss: Nat, work_quality: 0..100]
  <2>1. stats[n][n].reputation \in FLOOR..ONE
    BY <1>1 DEF IInv, TypeOK, ValidatorStats
  <2>2. Threshold(stats[n][n].reputation) \in Nat
    BY <2>1 DEF Threshold, FLOOR, ONE
  <2> QED BY <1>1, <2>2, QualityType DEF SealedProof
<1>7. txs \in Seq(Transaction) /\ \A i \in 1..Len(txs) : IsValid(txs[i])
  <2>1. pool[n].pending \in Seq(Transaction)
    BY DEF IInv, TypeOK
  <2>2. pool[n].pending \in Seq(Pending(pool[n]))
    BY <2>1 DEF Pending
  <2>3. txs \in Seq(Transaction) /\ txs \in Seq(Pending(pool[n]))
    BY <2>1, <2>2, SelectType DEF Selected
  <2>4. \A i \in 1..Len(txs) : txs[i] \in Pending(pool[n])
    BY <2>3
  <2> QED BY <2>3, <2>4 DEF IInv, Lawful
<1> HIDE DEF txs
<1>8. LegalBody(body) /\ Len(body) = Len(txs) + 1
      /\ \A i \in 1..Len(txs) : body[i+1] = txs[i]
  <2>1. \A i \in 1..Len(txs) :
          txs[i].fee >= 0 /\ (IsCoinbase(txs[i]) => txs[i].amount >= 0)
    BY <1>7 DEF IsValid
  <2> QED BY <1>1, <1>7, <2>1, CandidateBodyLegal
<1> HIDE DEF body, moved, proof, old, l
<1>9. NewBlock(n, loss, move) =
        [hash |-> Cardinality(blocks) + 1, index |-> old.index + 1,
         previous_hash |-> old.hash, transactions |-> body,
         difficulty |-> l.difficulty, miner |-> n, retuned |-> moved,
         proof |-> proof]
  BY DEF NewBlock, body, moved, proof, old, l, txs
<1>10. NewBlock(n, loss, move) \in Block
  BY <1>1, <1>2, <1>4, <1>5, <1>6, <1>8, <1>9 DEF Block, LegalBody
<1>11. \A i \in 1..Len(txs) : i + 1 \in 1..Len(body)
  BY <1>7, <1>8
<1> QED BY <1>8, <1>9, <1>10, <1>11 DEF txs

(* A block joins the chain of one node: mined there, or imported. *)
LEMMA Extends ==
  ASSUME IInv, NEW n \in Nodes, NEW b \in Block, LegalBody(b.transactions),
         ValidBlock(n, b), ledger' = [ledger EXCEPT ![n] = Committed(@, b)],
         blocks \subseteq blocks', b \in blocks'
  PROVE  /\ ledger' \in [Nodes -> LedgerType]
         /\ \A m \in Nodes : Sound(ledger'[m]) /\ MinedBy(ledger'[m], blocks')
<1>1. /\ ledger \in [Nodes -> LedgerType]
      /\ \A m \in Nodes : Sound(ledger[m]) /\ MinedBy(ledger[m], blocks)
  BY DEF IInv, TypeOK, LedgerType
<1> DEFINE c == Committed(ledger[n], b)
<1>2. /\ Sound(c) /\ Len(c.chain) = Len(ledger[n].chain) + 1 /\ LastBlock(c) = b
      /\ \A i \in 1..Len(ledger[n].chain) : c.chain[i] = ledger[n].chain[i]
  BY <1>1, AppendedSound DEF ValidBlock
<1>3. Len(ledger[n].chain) \in Nat
  BY <1>1 DEF LedgerType
<1> HIDE DEF c
<1>4. MinedBy(c, blocks')
  <2> SUFFICES ASSUME NEW i \in 2..Len(c.chain) PROVE c.chain[i] \in blocks'
    BY DEF MinedBy
  <2>1. CASE i = Len(c.chain)
    BY <1>2, <2>1 DEF LastBlock
  <2>2. CASE i # Len(c.chain)
    <3>1. i \in 2..Len(ledger[n].chain) /\ c.chain[i] = ledger[n].chain[i]
      BY <1>2, <1>3, <2>2
    <3>2. ledger[n].chain[i] \in blocks
      BY <1>1, <3>1 DEF MinedBy
    <3> QED BY <3>1, <3>2
  <2> QED BY <2>1, <2>2
<1>5. \A m \in Nodes : ledger'[m] = IF m = n THEN c ELSE ledger[m]
  BY <1>1 DEF c
<1>6. \A m \in Nodes : MinedBy(ledger[m], blocks')
  BY <1>1 DEF MinedBy
<1>7. c \in LedgerType
  BY <1>2 DEF Sound
<1>8. ledger' \in [Nodes -> LedgerType]
  BY <1>1, <1>7 DEF c
<1> QED BY <1>1, <1>2, <1>4, <1>5, <1>6, <1>8

(* Confirmed transactions leave a pool, and nothing else happens to it. *)
LEMMA PoolAfter ==
  ASSUME IInv, NEW n \in Nodes, NEW txs,
         pool' = [pool EXCEPT ![n] = RemoveConfirmed(@, txs)]
  PROVE  /\ pool' \in [Nodes -> [pending: Seq(Transaction), flagged: SUBSET Txs]]
         /\ \A m \in Nodes : \A tx \in Pending(pool'[m]) : IsValid(tx)
<1> DEFINE p == RemoveConfirmed(pool[n], txs)
<1>1. /\ pool \in [Nodes -> [pending: Seq(Transaction), flagged: SUBSET Txs]]
      /\ pool[n].pending \in Seq(Transaction) /\ pool[n].flagged \subseteq Txs
  BY DEF IInv, TypeOK
<1>2. pool[n].pending \in Seq(Pending(pool[n]))
  BY <1>1 DEF Pending
<1>3. /\ p.pending \in Seq(Transaction) /\ p.pending \in Seq(Pending(pool[n]))
      /\ p.flagged \subseteq Txs
  BY <1>1, <1>2, RemoveType
<1>4. p = [pending |-> p.pending, flagged |-> p.flagged]
  BY DEF RemoveConfirmed
<1> HIDE DEF p
<1>5. p \in [pending: Seq(Transaction), flagged: SUBSET Txs]
  BY <1>3, <1>4
<1>6. \A m \in Nodes : pool'[m] = IF m = n THEN p ELSE pool[m]
  BY <1>1 DEF p
<1>7. Pending(p) \subseteq Pending(pool[n])
  BY <1>3 DEF Pending
<1>8. pool' \in [Nodes -> [pending: Seq(Transaction), flagged: SUBSET Txs]]
  BY <1>1, <1>5 DEF p
<1> QED BY <1>6, <1>7, <1>8 DEF IInv, Lawful

(* A node's opinion of a miner stays an opinion. *)
LEMMA StatsAfter ==
  ASSUME TypeOK, NEW n \in Nodes, NEW b \in Block
  PROVE  /\ Rewarded(n, b) \in [Nodes -> [Accounts -> ValidatorStats]]
         /\ [stats EXCEPT ![n][b.miner] = ObserveInvalidBlock(@)]
              \in [Nodes -> [Accounts -> ValidatorStats]]
<1>1. /\ stats \in [Nodes -> [Accounts -> ValidatorStats]]
      /\ b.miner \in Accounts /\ b.proof.work_quality \in 0..100
  BY DEF TypeOK, Block
<1>2. stats[n][b.miner] \in ValidatorStats
  BY <1>1
<1>3. /\ ObserveValidBlock(stats[n][b.miner], b.proof.work_quality) \in ValidatorStats
      /\ ObserveInvalidBlock(stats[n][b.miner]) \in ValidatorStats
  BY <1>1, <1>2, ObservedType
<1> QED BY <1>1, <1>3 DEF Rewarded

LEMMA MineKeeps ==
  ASSUME IInv, NEW n \in Nodes, NEW loss \in Losses, NEW move \in {-1, 0, 1},
         MineBlock(n, loss, move)
  PROVE  IInv'
<1> DEFINE b == NewBlock(n, loss, move)
           k == Cardinality(blocks)
<1>1. /\ b \in Block /\ LegalBody(b.transactions) /\ b.hash = k + 1
  BY NewBlockLegal
<1>2. /\ k < MaxBlocks /\ ValidBlock(n, b)
      /\ ledger' = [ledger EXCEPT ![n] = Committed(@, b)]
      /\ pool' = [pool EXCEPT ![n] = RemoveConfirmed(@, Selected(n))]
      /\ stats' = Rewarded(n, b)
      /\ blocks' = blocks \cup {b}
  BY DEF MineBlock
<1> HIDE DEF b
<1>3. /\ ledger' \in [Nodes -> LedgerType]
      /\ \A m \in Nodes : Sound(ledger'[m]) /\ MinedBy(ledger'[m], blocks')
  BY <1>1, <1>2, Extends
<1>4. /\ pool' \in [Nodes -> [pending: Seq(Transaction), flagged: SUBSET Txs]]
      /\ \A m \in Nodes : \A tx \in Pending(pool'[m]) : IsValid(tx)
  BY <1>2, PoolAfter
<1>5. stats' \in [Nodes -> [Accounts -> ValidatorStats]]
  BY <1>1, <1>2, StatsAfter DEF IInv
<1>6. /\ IsFiniteSet(blocks) /\ k \in Nat
      /\ \A c \in blocks : c.hash \in 1..k
      /\ \A c, d \in blocks : c.hash = d.hash => c = d
  BY FS_CardinalityType DEF IInv, HashesTell
<1> HIDE DEF k
<1>7. b \notin blocks
  BY <1>1, <1>6
<1>8. IsFiniteSet(blocks') /\ Cardinality(blocks') = k + 1
  BY <1>2, <1>6, <1>7, FS_AddElement DEF k
<1>9. HashesTell'
  <2>1. \A c \in blocks' : c.hash \in 1..(k+1)
    BY <1>1, <1>2, <1>6
  <2>2. \A c, d \in blocks' : c.hash = d.hash => c = d
    BY <1>1, <1>2, <1>6
  <2> QED BY <1>8, <2>1, <2>2 DEF HashesTell
<1>10. blocks' \subseteq Block /\ Cardinality(blocks') <= MaxBlocks
  BY <1>1, <1>2, <1>6, <1>8, BoundAssumption DEF IInv, TypeOK
<1>11. TypeOK'
  BY <1>3, <1>4, <1>5, <1>10 DEF TypeOK, LedgerType
<1>12. Lawful'
  BY <1>1, <1>2, <1>4 DEF IInv, Lawful
<1> QED BY <1>3, <1>9, <1>11, <1>12 DEF IInv

LEMMA ImportKeeps ==
  ASSUME IInv, NEW n \in Nodes, NEW b \in blocks, ImportBlock(n, b)
  PROVE  IInv'
<1>1. b \in Block /\ LegalBody(b.transactions)
  BY DEF IInv, TypeOK, Lawful
<1>2. /\ ValidBlock(n, b)
      /\ ledger' = [ledger EXCEPT ![n] = Committed(@, b)]
      /\ pool' = [pool EXCEPT ![n] = RemoveConfirmed(@, b.transactions)]
      /\ stats' = Rewarded(n, b)
      /\ blocks' = blocks
  BY DEF ImportBlock
<1>3. /\ ledger' \in [Nodes -> LedgerType]
      /\ \A m \in Nodes : Sound(ledger'[m]) /\ MinedBy(ledger'[m], blocks')
  BY <1>1, <1>2, Extends
<1>4. /\ pool' \in [Nodes -> [pending: Seq(Transaction), flagged: SUBSET Txs]]
      /\ \A m \in Nodes : \A tx \in Pending(pool'[m]) : IsValid(tx)
  BY <1>2, PoolAfter
<1>5. stats' \in [Nodes -> [Accounts -> ValidatorStats]]
  BY <1>1, <1>2, StatsAfter DEF IInv
<1>6. TypeOK'
  BY <1>2, <1>3, <1>4, <1>5 DEF IInv, TypeOK, LedgerType
<1>7. HashesTell' /\ Lawful'
  BY <1>2, <1>4 DEF IInv, HashesTell, Lawful
<1> QED BY <1>3, <1>6, <1>7 DEF IInv

LEMMA SubmitKeeps ==
  ASSUME IInv, NEW n \in Nodes, NEW tx \in Txs, Submit(n, tx)
  PROVE  IInv'
<1> DEFINE p == AddTx(pool[n], tx)
<1>1. /\ pool \in [Nodes -> [pending: Seq(Transaction), flagged: SUBSET Txs]]
      /\ pool[n].pending \in Seq(Transaction) /\ pool[n].flagged \subseteq Txs
      /\ tx \in Transaction
  BY TxsAssumption DEF IInv, TypeOK
<1>2. /\ p.pending = pool[n].pending
           \/ (IsValid(tx) /\ p.pending = Append(pool[n].pending, tx))
      /\ p.flagged \subseteq Txs
      /\ p = [pending |-> p.pending, flagged |-> p.flagged]
  BY <1>1 DEF AddTx, AcceptsTx
<1> HIDE DEF p
<1>3. p.pending \in Seq(Transaction)
  BY <1>1, <1>2
<1>4. \A t \in Pending(p) : t \in Pending(pool[n]) \/ (t = tx /\ IsValid(tx))
  BY <1>1, <1>2 DEF Pending
<1>5. /\ pool' = [pool EXCEPT ![n] = p]
      /\ ledger' = ledger /\ stats' = stats /\ blocks' = blocks
  BY DEF Submit, p
<1>6. pool' \in [Nodes -> [pending: Seq(Transaction), flagged: SUBSET Txs]]
  BY <1>1, <1>2, <1>3, <1>5
<1>7. \A m \in Nodes : pool'[m] = IF m = n THEN p ELSE pool[m]
  BY <1>1, <1>5
<1>8. \A m \in Nodes : \A t \in Pending(pool'[m]) : IsValid(t)
  BY <1>4, <1>7 DEF IInv, Lawful
<1>9. TypeOK'
  BY <1>5, <1>6 DEF IInv, TypeOK
<1>10. HashesTell' /\ Lawful'
  BY <1>5, <1>8 DEF IInv, HashesTell, Lawful
<1> QED BY <1>5, <1>9, <1>10 DEF IInv

LEMMA RefuseKeeps ==
  ASSUME IInv, NEW n \in Nodes, NEW b \in blocks, RefuseBlock(n, b)
  PROVE  IInv'
<1>1. b \in Block
  BY DEF IInv, TypeOK
<1>2. /\ stats' = [stats EXCEPT ![n][b.miner] = ObserveInvalidBlock(@)]
      /\ ledger' = ledger /\ pool' = pool /\ blocks' = blocks
  BY DEF RefuseBlock
<1>3. stats' \in [Nodes -> [Accounts -> ValidatorStats]]
  BY <1>1, <1>2, StatsAfter DEF IInv
<1>4. TypeOK'
  BY <1>2, <1>3 DEF IInv, TypeOK
<1>5. HashesTell' /\ Lawful'
  BY <1>2 DEF IInv, HashesTell, Lawful
<1> QED BY <1>2, <1>4, <1>5 DEF IInv

(* The chain a node adopts is the chain of a peer, sound there already: the *)
(* new ledger arrives at the balances and nonces of the peer's.             *)
LEMMA ReconcileKeeps ==
  ASSUME IInv, NEW n \in Nodes, NEW m \in Nodes, Reconcile(n, ledger[m].chain)
  PROVE  IInv'
<1> DEFINE c == Replayed(ledger[m].chain)
<1>1. /\ ledger \in [Nodes -> LedgerType]
      /\ \A i \in Nodes : Sound(ledger[i]) /\ MinedBy(ledger[i], blocks)
  BY DEF IInv, TypeOK, LedgerType
<1>2. /\ ledger' = [ledger EXCEPT ![n] = c]
      /\ pool' = pool /\ stats' = stats /\ blocks' = blocks
  BY DEF Reconcile
<1>3. /\ c.chain = ledger[m].chain /\ c.acct = ledger[m].acct
      /\ c.difficulty = initial_difficulty /\ c.controlled = FALSE
      /\ c = [chain |-> c.chain, acct |-> c.acct,
              difficulty |-> c.difficulty, controlled |-> c.controlled]
  BY <1>1 DEF Replayed, Sound
<1> HIDE DEF c
<1>4. c \in LedgerType
  BY <1>1, <1>3, DifficultyAssumption DEF LedgerType
<1>5. Sound(c) /\ MinedBy(c, blocks)
  BY <1>1, <1>3, <1>4 DEF Sound, MinedBy
<1>6. ledger' \in [Nodes -> LedgerType]
  BY <1>1, <1>2, <1>4
<1>7. \A i \in Nodes : Sound(ledger'[i]) /\ MinedBy(ledger'[i], blocks')
  BY <1>1, <1>2, <1>5
<1>8. TypeOK'
  BY <1>2, <1>6 DEF IInv, TypeOK, LedgerType
<1>9. HashesTell' /\ Lawful'
  BY <1>2 DEF IInv, HashesTell, Lawful
<1> QED BY <1>7, <1>8, <1>9 DEF IInv

LEMMA InitIInv == Init => IInv
<1> SUFFICES ASSUME Init PROVE IInv
  OBVIOUS
<1>1. Genesis \in Block
  BY NumAccountsAssumption, DifficultyAssumption DEF Genesis, Block, Accounts
<1>2. EmptyState \in AccountState /\ \A a \in Accounts : EmptyState.balances[a] >= 0
  BY DEF EmptyState, AccountState
<1>3. /\ <<Genesis>> \in Seq(Block) /\ Len(<<Genesis>>) = 1
      /\ <<Genesis>>[1] = Genesis
  BY <1>1
<1>4. FreshLedger \in LedgerType
  BY <1>2, <1>3, DifficultyAssumption DEF FreshLedger, LedgerType
<1>5. Sound(FreshLedger)
  <2>1. Replayable(<<Genesis>>)
    BY <1>3 DEF Replayable
  <2>2. Replay(<<Genesis>>)[1] = EmptyState
    BY <1>3, ReplayDef
  <2> QED BY <1>2, <1>3, <1>4, <2>1, <2>2 DEF Sound, FreshLedger
<1>6. MinedBy(FreshLedger, {})
  BY <1>3 DEF MinedBy, FreshLedger
<1>7. InitialStats \in ValidatorStats
  BY DEF InitialStats, ValidatorStats, INITIAL_REPUTATION, FLOOR, ONE
<1>8. /\ EmptyPool \in [pending: Seq(Transaction), flagged: SUBSET Txs]
      /\ Pending(EmptyPool) = {}
  BY DEF EmptyPool, Pending
<1>9. IsFiniteSet({}) /\ Cardinality({}) = 0
  BY FS_EmptySet
<1>10. /\ ledger = [n \in Nodes |-> FreshLedger] /\ blocks = {}
       /\ pool = [n \in Nodes |-> EmptyPool]
       /\ stats = [n \in Nodes |-> [a \in Accounts |-> InitialStats]]
  BY DEF Init
<1>11. TypeOK
  BY <1>4, <1>7, <1>8, <1>9, <1>10, BoundAssumption DEF TypeOK, LedgerType
<1>12. HashesTell /\ Lawful
  BY <1>8, <1>9, <1>10 DEF HashesTell, Lawful
<1> QED BY <1>5, <1>6, <1>10, <1>11, <1>12 DEF IInv

LEMMA NextIInv == IInv /\ [Next]_vars => IInv'
<1> SUFFICES ASSUME IInv, [Next]_vars PROVE IInv'
  OBVIOUS
<1>1. CASE UNCHANGED vars
  BY <1>1 DEF vars, IInv, TypeOK, HashesTell, Lawful
<1>2. CASE \E n \in Nodes : \E tx \in Txs : Submit(n, tx)
  BY <1>2, SubmitKeeps
<1>3. CASE \E n \in Nodes : \E loss \in Losses : MineFails(n, loss)
  BY <1>1, <1>3 DEF MineFails, vars, IInv, TypeOK, HashesTell, Lawful
<1>4. CASE \E n \in Nodes : \E loss \in Losses : \E move \in {-1, 0, 1} :
             MineBlock(n, loss, move)
  BY <1>4, MineKeeps
<1>5. CASE \E n \in Nodes : \E b \in blocks : ImportBlock(n, b)
  BY <1>5, ImportKeeps
<1>6. CASE \E n \in Nodes : \E b \in blocks : RefuseBlock(n, b)
  BY <1>6, RefuseKeeps
<1>7. CASE \E n \in Nodes : \E m \in Nodes : Reconcile(n, ledger[m].chain)
  BY <1>7, ReconcileKeeps
<1> QED BY <1>1, <1>2, <1>3, <1>4, <1>5, <1>6, <1>7 DEF Next

(* The inductive invariant holds in every reachable state. *)
THEOREM Inductive == Spec => []IInv
<1> QED BY InitIInv, NextIInv, PTL DEF Spec

(* Ledgers, pools, opinions and blocks keep their types; reputations and    *)
(* difficulties keep within their limits.                                   *)
THEOREM TypeCorrect == Spec => []TypeOK
<1>1. IInv => TypeOK
  BY DEF IInv
<1> QED BY Inductive, <1>1, PTL

(* Mining, importing and switching chains in any order: every node's ledger *)
(* stays the replay of its chain.                                           *)
THEOREM EveryLedgerReplays == Spec => []LedgersReplay
<1>1. IInv => LedgersReplay
  BY DEF IInv, Sound, LedgersReplay
<1> QED BY Inductive, <1>1, PTL

(* No node's ledger ever holds a balance below zero. *)
THEOREM NoOverdraft ==
  Spec => [](\A n \in Nodes : \A a \in Accounts : ledger[n].acct.balances[a] >= 0)
<1>1. IInv => \A n \in Nodes : \A a \in Accounts : ledger[n].acct.balances[a] >= 0
  BY DEF IInv, Sound
<1> QED BY Inductive, <1>1, PTL

-----------------------------------------------------------------------------
(* Forks *)

(* In a chain whose links hold a block's index is its place. *)
LEMMA IndexIsPlace ==
  ASSUME NEW l, Sound(l)
  PROVE  \A i \in 1..Len(l.chain) : l.chain[i].index = i - 1
<1> DEFINE c == l.chain
           n == Len(c)
           S == {i \in 0..n : i = 0 \/ c[i].index = i - 1}
<1>1. n \in Nat /\ n >= 1 /\ c[1].index = 0
  BY DEF Sound, LedgerType, Genesis
<1>2. \A i \in 2..n : c[i].index = c[i-1].index + 1
  BY DEF Sound, Replayable, LinksTo
<1> HIDE DEF c
<1>3. 0 \in S
  BY <1>1
<1>4. \A i \in 0..(n-1) : i \in S => i + 1 \in S
  <2> SUFFICES ASSUME NEW i \in 0..(n-1), i = 0 \/ c[i].index = i - 1
               PROVE  c[i+1].index = (i + 1) - 1
    BY <1>1
  <2>1. CASE i = 0
    BY <1>1, <2>1
  <2>2. CASE i # 0
    <3>1. i + 1 \in 2..n /\ (i + 1) - 1 = i
      BY <1>1, <2>2
    <3>2. c[i+1].index = c[i].index + 1
      BY <1>2, <3>1
    <3> QED BY <2>2, <3>2
  <2> QED BY <2>1, <2>2
<1> HIDE DEF S
<1>5. \A i \in 0..n : i \in S
  BY <1>1, <1>3, <1>4, UpTo
<1> QED BY <1>5 DEF S, c

(* Blocks of two nodes' chains that have the same hash are the same block.  *)
LEMMA SameHashSameBlock ==
  ASSUME IInv, NEW n \in Nodes, NEW m \in Nodes,
         NEW i \in 1..Len(ledger[n].chain), NEW j \in 1..Len(ledger[m].chain),
         ledger[n].chain[i].hash = ledger[m].chain[j].hash
  PROVE  ledger[n].chain[i] = ledger[m].chain[j]
<1> DEFINE c == ledger[n].chain
           d == ledger[m].chain
<1>1. /\ c[1] = Genesis /\ d[1] = Genesis /\ Len(c) \in Nat /\ Len(d) \in Nat
      /\ \A k \in 2..Len(c) : c[k] \in blocks
      /\ \A k \in 2..Len(d) : d[k] \in blocks
  BY DEF IInv, Sound, LedgerType, MinedBy
<1>2. /\ Genesis.hash = 0
      /\ \A b \in blocks : b.hash # 0
      /\ \A a, b \in blocks : a.hash = b.hash => a = b
  <2>1. \A b \in blocks : b.hash \in 1..Cardinality(blocks)
    BY DEF IInv, HashesTell
  <2>2. Cardinality(blocks) \in Nat
    BY FS_CardinalityType DEF IInv, HashesTell
  <2> QED BY <2>1, <2>2 DEF IInv, HashesTell, Genesis
<1> HIDE DEF c, d
<1>3. c[i].hash = d[j].hash /\ i \in 1..Len(c) /\ j \in 1..Len(d)
  BY DEF c, d
<1>4. (i = 1 \/ i \in 2..Len(c)) /\ (j = 1 \/ j \in 2..Len(d))
  BY <1>1, <1>3
<1>5. c[i] = d[j]
  BY <1>1, <1>2, <1>3, <1>4
<1> QED BY <1>5 DEF c, d

(* So from a common block downwards two chains are the same: a link names   *)
(* its parent by the hash.                                                  *)
LEMMA CommonHistory ==
  ASSUME IInv, NEW n \in Nodes, NEW m \in Nodes,
         NEW i \in 1..Len(ledger[n].chain), NEW j \in 1..Len(ledger[m].chain),
         ledger[n].chain[i].hash = ledger[m].chain[j].hash
  PROVE  SubSeq(ledger[n].chain, 1, i) = SubSeq(ledger[m].chain, 1, j)
<1> DEFINE c == ledger[n].chain
           d == ledger[m].chain
<1>1. /\ c \in Seq(Block) /\ d \in Seq(Block)
      /\ Len(c) \in Nat /\ Len(d) \in Nat
      /\ \A k \in 2..Len(c) : c[k].previous_hash = c[k-1].hash
      /\ \A k \in 2..Len(d) : d[k].previous_hash = d[k-1].hash
  BY DEF IInv, Sound, LedgerType, Replayable, LinksTo
<1>2. c[i] = d[j]
  BY SameHashSameBlock
<1>3. i = j
  <2>1. c[i].index = i - 1 /\ d[j].index = j - 1
    BY IndexIsPlace DEF IInv
  <2> QED BY <1>2, <2>1
<1>4. \A p \in 1..Len(c) : \A q \in 1..Len(d) : c[p].hash = d[q].hash => c[p] = d[q]
  BY SameHashSameBlock
<1>5. i \in 1..Len(c) /\ i \in 1..Len(d)
  BY <1>3
<1> HIDE DEF c, d
<1> DEFINE S == {k \in 0..(i-1) : c[i-k] = d[i-k]}
<1>6. 0 \in S
  BY <1>1, <1>2, <1>3, <1>5
<1>7. \A k \in 0..((i-1)-1) : k \in S => k + 1 \in S
  <2> SUFFICES ASSUME NEW k \in 0..((i-1)-1), c[i-k] = d[i-k]
               PROVE  c[i-(k+1)] = d[i-(k+1)]
    BY <1>1, <1>5
  <2>1. /\ i - k \in 2..Len(c) /\ i - k \in 2..Len(d)
        /\ i - (k + 1) = (i - k) - 1
        /\ i - (k + 1) \in 1..Len(c) /\ i - (k + 1) \in 1..Len(d)
    <3>1. /\ i \in Nat /\ k \in Nat /\ k <= i - 2
          /\ Len(c) \in Nat /\ Len(d) \in Nat /\ i <= Len(c) /\ i <= Len(d)
      BY <1>1, <1>5
    <3> QED BY <3>1
  <2>2. c[(i-k)-1].hash = d[(i-k)-1].hash
    BY <1>1, <2>1
  <2> QED BY <1>4, <2>1, <2>2
<1> HIDE DEF S
<1>8. \A k \in 0..(i-1) : k \in S
  <2>1. i - 1 \in Nat
    BY <1>5
  <2> QED BY <1>6, <1>7, <2>1, UpTo
<1>9. \A p \in 1..i : c[p] = d[p]
  <2> TAKE p \in 1..i
  <2>1. i - p \in 0..(i-1) /\ i - (i - p) = p
    BY <1>5
  <2> QED BY <1>8, <2>1 DEF S
<1>10. SubSeq(c, 1, i) = SubSeq(d, 1, i)
  <2> DEFINE x == SubSeq(c, 1, i)
             y == SubSeq(d, 1, i)
  <2>1. /\ x = [p \in 1..i |-> x[p]] /\ \A p \in 1..i : x[p] = c[p]
    BY <1>1, <1>5
  <2>2. /\ y = [p \in 1..i |-> y[p]] /\ \A p \in 1..i : y[p] = d[p]
    BY <1>1, <1>5
  <2> HIDE DEF x, y
  <2>3. x = y
    BY <1>9, <2>1, <2>2
  <2> QED BY <2>3 DEF x, y
<1> QED BY <1>3, <1>10 DEF c, d

(* Two chains with a common block agree on everything before it.            *)
THEOREM ForksShareTheirPast == Spec => []CommonBlockCommonHistory
<1>1. IInv => CommonBlockCommonHistory
  BY CommonHistory DEF CommonBlockCommonHistory
<1> QED BY Inductive, <1>1, PTL

-----------------------------------------------------------------------------
(* Action properties *)

(* A step leaves the chain of a node alone, adds a block to it or replaces  *)
(* it by a heavier one.                                                     *)
LEMMA ScoreStep ==
  ASSUME IInv, [Next]_vars, NEW n \in Nodes, ledger'[n].chain # ledger[n].chain
  PROVE  UsefulWorkScore(ledger'[n].chain) > UsefulWorkScore(ledger[n].chain)
<1>1. /\ ledger \in [Nodes -> LedgerType]
      /\ \A m \in Nodes : Sound(ledger[m])
  BY DEF IInv, TypeOK, LedgerType
<1>2. ASSUME NEW m \in Nodes, NEW b \in Block,
             ledger' = [ledger EXCEPT ![m] = Committed(@, b)]
      PROVE  UsefulWorkScore(ledger'[n].chain) > UsefulWorkScore(ledger[n].chain)
  <2>1. n = m /\ ledger'[n].chain = Append(ledger[n].chain, b)
    BY <1>1, <1>2 DEF Committed
  <2>2. ledger[n].chain \in Seq(Block) /\ Len(ledger[n].chain) >= 1
    BY <1>1 DEF Sound, LedgerType
  <2> QED BY <2>1, <2>2, ScoreAppend
<1>3. CASE \E m \in Nodes : \E loss \in Losses : \E move \in {-1, 0, 1} :
             MineBlock(m, loss, move)
  BY <1>2, <1>3, NewBlockLegal DEF MineBlock
<1>4. CASE \E m \in Nodes : \E b \in blocks : ImportBlock(m, b)
  BY <1>2, <1>4 DEF ImportBlock, IInv, TypeOK
<1>5. CASE \E m \in Nodes : \E k \in Nodes : Reconcile(m, ledger[k].chain)
  <2>1. PICK m \in Nodes : \E k \in Nodes : Reconcile(m, ledger[k].chain)
    BY <1>5
  <2>2. PICK k \in Nodes : Reconcile(m, ledger[k].chain)
    BY <2>1
  <2>3. /\ Heavier(ledger[k].chain, ledger[m].chain)
        /\ ledger' = [ledger EXCEPT ![m] = Replayed(ledger[k].chain)]
    BY <2>2 DEF Reconcile
  <2>4. n = m /\ ledger'[n].chain = ledger[k].chain
    BY <1>1, <2>3 DEF Replayed
  <2> QED BY <2>3, <2>4 DEF Heavier
<1>6. CASE ledger' = ledger
  BY <1>6
<1> QED BY <1>3, <1>4, <1>5, <1>6
      DEF Next, vars, Submit, MineFails, RefuseBlock

(* Fork choice: a node never gives up useful work.                          *)
THEOREM NeverLessWork == Spec => ScoreOnlyRises
<1>1. IInv /\ [Next]_vars =>
        [\A n \in Nodes :
           ledger'[n].chain # ledger[n].chain =>
             UsefulWorkScore(ledger'[n].chain) > UsefulWorkScore(ledger[n].chain)]_vars
  BY ScoreStep
<1> QED BY Inductive, <1>1, PTL DEF Spec, ScoreOnlyRises

(* What a step takes out of a pool it puts into that node's chain.          *)
LEMMA PoolStep ==
  ASSUME IInv, [Next]_vars, NEW n \in Nodes,
         NEW tx \in Pending(pool[n]) \ Pending(pool'[n])
  PROVE  /\ Len(ledger'[n].chain) = Len(ledger[n].chain) + 1
         /\ \E i \in 1..Len(LastBlock(ledger'[n]).transactions) :
              LastBlock(ledger'[n]).transactions[i] = tx
<1>1. /\ ledger \in [Nodes -> LedgerType]
      /\ \A m \in Nodes : Sound(ledger[m])
      /\ pool \in [Nodes -> [pending: Seq(Transaction), flagged: SUBSET Txs]]
      /\ \A m \in Nodes : pool[m].pending \in Seq(Transaction)
  BY DEF IInv, TypeOK, LedgerType
<1>2. ASSUME NEW m \in Nodes, NEW b \in Block, NEW txs, LegalBody(b.transactions),
             ValidBlock(m, b), ledger' = [ledger EXCEPT ![m] = Committed(@, b)],
             pool' = [pool EXCEPT ![m] = RemoveConfirmed(@, txs)],
             \A i \in 1..Len(txs) : \E j \in 1..Len(b.transactions) :
               b.transactions[j] = txs[i]
      PROVE  /\ Len(ledger'[n].chain) = Len(ledger[n].chain) + 1
             /\ \E i \in 1..Len(LastBlock(ledger'[n]).transactions) :
                  LastBlock(ledger'[n]).transactions[i] = tx
  <2>1. /\ n = m /\ pool'[n] = RemoveConfirmed(pool[n], txs)
        /\ ledger'[n] = Committed(ledger[n], b)
    BY <1>1, <1>2
  <2>2. /\ Len(Committed(ledger[n], b).chain) = Len(ledger[n].chain) + 1
        /\ LastBlock(Committed(ledger[n], b)) = b
    BY <1>1, <1>2, <2>1, AppendedSound DEF ValidBlock
  <2>3. \E i \in 1..Len(txs) : txs[i] = tx
    BY <1>1, <2>1, RemoveType
  <2> QED BY <1>2, <2>1, <2>2, <2>3
<1>3. CASE \E m \in Nodes : \E loss \in Losses : \E move \in {-1, 0, 1} :
             MineBlock(m, loss, move)
  <2>1. PICK m \in Nodes, loss \in Losses, move \in {-1, 0, 1} :
          MineBlock(m, loss, move)
    BY <1>3
  <2> DEFINE b == NewBlock(m, loss, move)
  <2>2. /\ b \in Block /\ LegalBody(b.transactions)
        /\ \A i \in 1..Len(Selected(m)) :
             i + 1 \in 1..Len(b.transactions) /\ b.transactions[i+1] = Selected(m)[i]
    BY NewBlockLegal
  <2>3. /\ ValidBlock(m, b) /\ ledger' = [ledger EXCEPT ![m] = Committed(@, b)]
        /\ pool' = [pool EXCEPT ![m] = RemoveConfirmed(@, Selected(m))]
    BY <2>1 DEF MineBlock
  <2> HIDE DEF b
  <2>4. \A i \in 1..Len(Selected(m)) : \E j \in 1..Len(b.transactions) :
          b.transactions[j] = Selected(m)[i]
    BY <2>2
  <2> QED BY <1>2, <2>2, <2>3, <2>4
<1>4. CASE \E m \in Nodes : \E b \in blocks : ImportBlock(m, b)
  <2>1. PICK m \in Nodes, b \in blocks : ImportBlock(m, b)
    BY <1>4
  <2>2. b \in Block /\ LegalBody(b.transactions)
    BY DEF IInv, TypeOK, Lawful
  <2>3. \A i \in 1..Len(b.transactions) : \E j \in 1..Len(b.transactions) :
          b.transactions[j] = b.transactions[i]
    OBVIOUS
  <2> QED BY <1>2, <2>1, <2>2, <2>3 DEF ImportBlock
<1>5. CASE \E m \in Nodes : \E t \in Txs : Submit(m, t)
  <2>1. PICK m \in Nodes, t \in Txs : pool' = [pool EXCEPT ![m] = AddTx(@, t)]
    BY <1>5 DEF Submit
  <2>2. Pending(pool[m]) \subseteq Pending(AddTx(pool[m], t))
    <3>1. \/ AddTx(pool[m], t).pending = pool[m].pending
          \/ AddTx(pool[m], t).pending = Append(pool[m].pending, t)
      BY DEF AddTx
    <3>2. pool[m].pending \in Seq(Transaction) /\ t \in Transaction
      BY <1>1, TxsAssumption
    <3> QED BY <3>1, <3>2 DEF Pending
  <2>3. pool'[n] = pool[n] \/ (n = m /\ pool'[n] = AddTx(pool[m], t))
    BY <1>1, <2>1
  <2> QED BY <2>2, <2>3
<1>6. CASE pool' = pool
  BY <1>6
<1> QED BY <1>3, <1>4, <1>5, <1>6
      DEF Next, vars, MineFails, RefuseBlock, Reconcile

(* A pending transaction leaves the pool of a node only in the step that    *)
(* puts it into that node's chain.                                          *)
THEOREM NoTransactionLost == Spec => LeavesPoolConfirmed
<1>1. IInv /\ [Next]_vars =>
        [\A n \in Nodes : \A tx \in Pending(pool[n]) \ Pending(pool'[n]) :
           /\ Len(ledger'[n].chain) = Len(ledger[n].chain) + 1
           /\ \E i \in 1..Len(LastBlock(ledger'[n]).transactions) :
                LastBlock(ledger'[n]).transactions[i] = tx]_vars
  BY PoolStep
<1> QED BY Inductive, <1>1, PTL DEF Spec, LeavesPoolConfirmed

=============================================================================
