------------------------------- MODULE Ledger -------------------------------
(***************************************************************************)
(* The class Blockchain of src/neurochain/core/blockchain.py as a state     *)
(* machine: one ledger, the blocks offered to it by peers (add_block) and   *)
(* the batches of transactions it is asked to mine (mine).                  *)
(*                                                                          *)
(* The consensus engine is left open: the field `sealed` of a block is the  *)
(* verdict of consensus.validate on it, and seal() may return a block that  *)
(* misses the threshold.  Network.tla models the engine.  A block's hash,   *)
(* SHA-256 of its header, is a number no other block of the chain has.      *)
(***************************************************************************)
EXTENDS Blockchain

CONSTANTS
  \* the lists of transactions that blocks and mining requests carry
  BlockBodies, Batches,
  \* Blockchain(initial_difficulty); whether it has a difficulty_controller
  initial_difficulty, hasController,
  \* RLDifficultyController.min_difficulty and max_difficulty
  min_difficulty, max_difficulty,
  \* bound on the height of the chain
  MaxHeight

(* Any transactions, coinbases of any amount among them.                    *)
ASSUME BodiesAssumption == BlockBodies \subseteq Seq(Transaction)
ASSUME BatchesAssumption == Batches \subseteq Seq(Transaction)
ASSUME DifficultyAssumption ==
  /\ min_difficulty \in Int /\ max_difficulty \in Int
  /\ initial_difficulty \in min_difficulty..max_difficulty
  /\ hasController \in BOOLEAN
ASSUME HeightAssumption == MaxHeight \in Nat

VARIABLES
  chain,        \* self.chain, genesis first
  balances,     \* self.balances
  nonces,       \* self.nonces
  difficulty    \* self.difficulty

vars == <<chain, balances, nonces, difficulty>>

Block == [hash: Nat, index: Nat, previous_hash: Int,
          transactions: Seq(Transaction), sealed: BOOLEAN]

acct == [balances |-> balances, nonces |-> nonces]

last_block == chain[Len(chain)]

height == Len(chain) - 1

Genesis == [hash |-> 0, index |-> 0, previous_hash |-> -1,
            transactions |-> <<>>, sealed |-> TRUE]

FreshHash == Len(chain)

-----------------------------------------------------------------------------
(* validate_block: structure, consensus proof, transactions *)

ValidBlock(b) ==
  /\ LinksTo(b, last_block)
  /\ b.sealed
  /\ ValidTransactions(acct, b.transactions)

(* is_valid_chain examines the links and the proofs once more. *)
IsValidChain ==
  \A i \in 2..Len(chain) :
    chain[i].previous_hash = chain[i-1].hash /\ chain[i].sealed

-----------------------------------------------------------------------------
(* _retune_difficulty: the Q-learning controller moves the difficulty by    *)
(* one at most, within its limits; which move it picks depends on measured  *)
(* block times and is left open.                                            *)
Clamp_Below(d) == IF d < min_difficulty THEN min_difficulty ELSE d

Clamp(d) == IF d < min_difficulty THEN min_difficulty
            ELSE IF d > max_difficulty THEN max_difficulty ELSE d

Retuned(d) == IF hasController THEN {Clamp(d + move) : move \in {-1, 0, 1}}
              ELSE {d}

Init ==
  /\ chain = <<Genesis>>
  /\ balances = EmptyState.balances
  /\ nonces = EmptyState.nonces
  /\ difficulty = initial_difficulty

(* add_block once validate_block has returned. *)
Commit(b) ==
  /\ height < MaxHeight
  /\ ValidBlock(b)
  /\ LET after == ApplyBlock(acct, b.transactions)
     IN  balances' = after.balances /\ nonces' = after.nonces
  /\ chain' = Append(chain, b)
  /\ difficulty' \in Retuned(difficulty)

(* add_block when validate_block raises ValidationError, as it does for     *)
(* some of the blocks.                                                      *)
Reject(blocks) == ~(\A b \in blocks : ValidBlock(b)) /\ UNCHANGED vars

(* Blocks from elsewhere, with any index and any parent: one of the chain's *)
(* blocks, or one this ledger has never seen.                               *)
Offered ==
  [hash: {FreshHash}, index: 0..MaxHeight, previous_hash: 0..(Len(chain) + 1),
   transactions: BlockBodies, sealed: BOOLEAN]

AddBlock == (\E b \in Offered : Commit(b)) \/ Reject(Offered)

(* mine: create_candidate, seal, add_block. *)
Candidate(txs, miner, sealed) ==
  [hash |-> FreshHash, index |-> height + 1,
   previous_hash |-> last_block.hash,
   transactions |-> CandidateBody(txs, miner), sealed |-> sealed]

Candidates ==
  {Candidate(txs, miner, sealed) :
     txs \in Batches, miner \in Accounts, sealed \in BOOLEAN}

Mine == (\E b \in Candidates : Commit(b)) \/ Reject(Candidates)

Next == AddBlock \/ Mine

Spec == Init /\ [][Next]_vars

-----------------------------------------------------------------------------
(* Type invariant; the difficulty keeps within the controller's limits. *)
TypeOK ==
  /\ chain \in Seq(Block) /\ Len(chain) \in 1..(MaxHeight + 1)
  /\ balances \in [Accounts -> Int]
  /\ nonces \in [Accounts -> Nat]
  /\ difficulty \in min_difficulty..max_difficulty

(* What the chain's coinbases of negative amount took from an account, and  *)
(* the balances without them.                                               *)
CoinbaseDebits(blocks, a) ==
  Sum([i \in 1..Len(blocks) |-> CoinbaseDebit(blocks[i].transactions, a)],
      Len(blocks))

Restored == [a \in Accounts |-> balances[a] + CoinbaseDebits(chain, a)]

(* No overdraft by transfers.  The validator checks each transfer against a *)
(* working copy to which the block's coinbase is not credited, _apply       *)
(* replays the block with the coinbase applied where it stands: whatever    *)
(* the order of the transactions, an account is below zero by no more than  *)
(* negative coinbases have taken from it.                                   *)
OverdrawnByCoinbaseOnly ==
  \A a \in Accounts : balances[a] >= -CoinbaseDebits(chain, a)

(* Issuance: all the money there is was created by block rewards, at most   *)
(* BLOCK_REWARD a block; a coinbase collects fees, it does not create them. *)
SupplyBound == Total(balances) <= BLOCK_REWARD * height

(* The confirmed transfers, by block position and position in the block.    *)
Confirmed ==
  UNION {{i} \X {j \in 1..Len(chain[i].transactions) :
                   ~IsCoinbase(chain[i].transactions[j])} : i \in 1..Len(chain)}

ConfirmedTx(p) == chain[p[1]].transactions[p[2]]

(* Replay protection: no two confirmed transfers of one account carry the   *)
(* same nonce, and all of them are below the nonce the ledger expects next. *)
NoReplay ==
  \A p \in Confirmed :
    /\ ConfirmedTx(p).nonce < nonces[ConfirmedTx(p).sender]
    /\ \A q \in Confirmed :
         /\ ConfirmedTx(p).sender = ConfirmedTx(q).sender
         /\ ConfirmedTx(p).nonce = ConfirmedTx(q).nonce
         => p = q

(* A fresh ledger fed with the blocks of this chain accepts every one of    *)
(* them and reaches the same balances and nonces: what a joining node, and  *)
(* reconcile, rely on.                                                      *)
ReplayReproducesState ==
  Replayable(chain) /\ acct = Replay(chain)[Len(chain)] /\ IsValidChain

(* Custody: an account's balance falls, by more than the new block's        *)
(* coinbase takes from it, only in a step that confirms a transfer it       *)
(* signed, which advances its nonce; nonces never go back.                  *)
DebitNeedsNonce ==
  [][\A a \in Accounts :
       /\ nonces'[a] >= nonces[a]
       /\ balances'[a] < balances[a] - CoinbaseDebit(last_block'.transactions, a)
            => nonces'[a] > nonces[a]]_vars

(* The ledger keeps the promises of Bank on the balances that the accounts  *)
(* would have without the coinbases of negative amount.  On the balances it *)
(* reports it does not: such a coinbase debits without a nonce, and         *)
(* overdraws.                                                               *)
TheBank == INSTANCE Bank WITH balances <- Restored, nonces <- nonces
BankSpec == TheBank!Spec

=============================================================================
