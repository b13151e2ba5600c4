------------------------------- MODULE Server -------------------------------
(***************************************************************************)
(* src/neurochain/api/server.py: one node shared by threads.  The endpoints *)
(* are plain `def` functions, which FastAPI runs in a pool of threads with  *)
(* no lock around the node, so requests interleave between any two of the   *)
(* steps of Mempool.add, Node.mine_block and Blockchain.add_block below.    *)
(*                                                                          *)
(* The proof of a block is the verdict of the engine, drawn by Seal; the    *)
(* ledger's difficulty, its controller and the node's reputations, on which *)
(* nothing here depends, are left out.                                      *)
(***************************************************************************)
EXTENDS Mempool
LOCAL INSTANCE FiniteSetsExt

CONSTANTS
  \* the threads, and those of them that may serve POST /mine
  Workers, MiningWorkers,
  \* the account the server mines for
  Miner,
  \* the transactions clients submit; "anything" of these, what a "solvent"
  \* client can pay, or the same "one at a time"
  Txs, Clients,
  \* how they reach the node: "http", in POST /tx, or "python", by a call of
  \* Node.submit as in the tests and the examples
  Route,
  \* bound on the blocks mined from an empty pool
  MaxEmpty

ASSUME ServerAssumption ==
  /\ IsFiniteSet(Workers) /\ Workers # {}
  /\ MiningWorkers \subseteq Workers /\ Miner \in Accounts
  /\ Txs \subseteq Transaction /\ MaxEmpty \in Nat
  /\ Clients \in {"anything", "solvent", "one at a time"}
  /\ Route \in {"http", "python"}

VARIABLES
  chain, acct,  \* node.blockchain: chain; balances and nonces
  pool,         \* node.mempool
  worker        \* the request each thread is serving

vars == <<chain, acct, pool, worker>>

Genesis ==
  [hash |-> 0, index |-> 0, previous_hash |-> -1, transactions |-> <<>>]

Idle == [pc |-> "idle"]

Init ==
  /\ chain = <<Genesis>>
  /\ acct = EmptyState
  /\ pool = EmptyPool
  /\ worker = [w \in Workers |-> Idle]

Becomes(w, state) == worker' = [worker EXCEPT ![w] = state]

At(w, pc) == worker[w].pc = pc

LastBlock == chain[Len(chain)]

-----------------------------------------------------------------------------
(* POST /tx: Mempool.add, which tests first and inserts afterwards. *)

(* submit_tx rebuilds the transaction from a TxIn, which has no timestamp:  *)
(* the new timestamp is not the signed one, and the signature is void.      *)
Received(tx) ==
  [sender |-> tx.sender, recipient |-> tx.recipient, amount |-> tx.amount,
   fee |-> tx.fee, nonce |-> tx.nonce, signed |-> tx.signed /\ Route = "python"]

(* The transactions some client waits for: pending, or about to be. *)
Outstanding ==
  Pending(pool) \cup
  {worker[w].sent : w \in {v \in Workers : worker[v].pc \in {"add", "insert"}}}

(* A solvent client goes by the nonce and the balance that GET /balance     *)
(* reports, and by what it has submitted already.                           *)
Solvent(tx) ==
  LET own == {t \in Outstanding : t.sender = tx.sender}
  IN /\ tx.nonce = acct.nonces[tx.sender] + Cardinality(own)
     /\ acct.balances[tx.sender] >=
          MapThenSumSet(LAMBDA t : t.amount + t.fee, own \cup {tx})
     /\ Clients = "one at a time" => own = {}

StartSubmit(w, tx) ==
  /\ At(w, "idle")
  /\ Clients = "anything" \/ Solvent(tx)
  /\ Becomes(w, [pc |-> "add", sent |-> tx, tx |-> Received(tx)])
  /\ UNCHANGED <<chain, acct, pool>>

TestTx(w) ==
  /\ At(w, "add")
  /\ IF AcceptsTx(pool, worker[w].tx)
     THEN /\ Becomes(w, [pc |-> "insert", sent |-> worker[w].sent, tx |-> worker[w].tx])
          /\ UNCHANGED pool
     ELSE Becomes(w, Idle) /\ pool' = AddTx(pool, worker[w].tx)
  /\ UNCHANGED <<chain, acct>>

InsertTx_Again(w) ==
  /\ At(w, "insert")
  /\ pool' = [pool EXCEPT !.pending = Append(@, worker[w].tx)]
  /\ Becomes(w, Idle)
  /\ UNCHANGED <<chain, acct>>

(* self._pool[tx.txid] = tx: an entry of the same id keeps its place. *)
InsertTx(w) ==
  /\ At(w, "insert")
  /\ pool' = IF worker[w].tx \in Pending(pool) THEN pool
             ELSE [pending |-> Append(pool.pending, worker[w].tx),
                   flagged |-> pool.flagged]
  /\ Becomes(w, Idle)
  /\ UNCHANGED <<chain, acct>>

-----------------------------------------------------------------------------
(* POST /mine: Node.mine_block *)

EmptyBlocks == {i \in 2..Len(chain) : Len(chain[i].transactions) = 1}

StartMine(w) ==
  /\ At(w, "idle") /\ w \in MiningWorkers
  /\ Select(pool) = <<>> => Cardinality(EmptyBlocks) < MaxEmpty
  /\ Becomes(w, [pc |-> "candidate", txs |-> Select(pool)])
  /\ UNCHANGED <<chain, acct, pool>>

(* create_candidate reads the height and the last hash ... *)
BuildCandidate(w) ==
  /\ At(w, "candidate")
  /\ Becomes(w, [pc |-> "seal", txs |-> worker[w].txs,
                 block |-> [index |-> LastBlock.index + 1,
                            previous_hash |-> LastBlock.hash,
                            transactions |-> CandidateBody(worker[w].txs, Miner)]])
  /\ UNCHANGED <<chain, acct, pool>>

(* ... and seal then trains for seconds, with or without success.           *)
Seal(w, sealed) ==
  /\ At(w, "seal")
  /\ Becomes(w, [pc |-> "validate", txs |-> worker[w].txs, sealed |-> sealed,
                 block |-> worker[w].block])
  /\ UNCHANGED <<chain, acct, pool>>

(* add_block: validate_block raises, which ends the request, or returns ... *)
ValidBlock_ProofOnly(b, sealed) == LinksTo(b, LastBlock) /\ sealed

ValidBlock(b, sealed) ==
  LinksTo(b, LastBlock) /\ sealed /\ ValidTransactions(acct, b.transactions)

Validate(w) ==
  /\ At(w, "validate")
  /\ Becomes(w, IF ValidBlock(worker[w].block, worker[w].sealed)
                THEN [pc |-> "apply", txs |-> worker[w].txs,
                      block |-> worker[w].block, next |-> 1]
                ELSE Idle)
  /\ UNCHANGED <<chain, acct, pool>>

(* ... _apply goes through the transactions one by one ... *)
ApplyTx(w) ==
  /\ At(w, "apply")
  /\ worker[w].next <= Len(worker[w].block.transactions)
  /\ acct' = Apply(acct, worker[w].block.transactions[worker[w].next])
  /\ Becomes(w, [pc |-> "apply", txs |-> worker[w].txs,
                 block |-> worker[w].block, next |-> worker[w].next + 1])
  /\ UNCHANGED <<chain, pool>>

(* ... and the block joins the chain, under a hash no other block has.      *)
AppendBlock(w) ==
  /\ At(w, "apply")
  /\ worker[w].next > Len(worker[w].block.transactions)
  /\ LET b == worker[w].block
     IN chain' = Append(chain, [hash |-> Len(chain), index |-> b.index,
                                previous_hash |-> b.previous_hash,
                                transactions |-> b.transactions])
  /\ Becomes(w, [pc |-> "remove", txs |-> worker[w].txs])
  /\ UNCHANGED <<acct, pool>>

(* remove_confirmed drops what had been selected. *)
RemoveSelected(w) ==
  /\ At(w, "remove")
  /\ pool' = RemoveConfirmed(pool, worker[w].txs)
  /\ Becomes(w, Idle)
  /\ UNCHANGED <<chain, acct>>

-----------------------------------------------------------------------------
Finish(w) ==
  \/ TestTx(w) \/ InsertTx(w)
  \/ BuildCandidate(w) \/ (\E sealed \in BOOLEAN : Seal(w, sealed)) \/ Validate(w)
  \/ ApplyTx(w) \/ AppendBlock(w) \/ RemoveSelected(w)

Next ==
  \E w \in Workers :
    \/ \E tx \in Txs : StartSubmit(w, tx)
    \/ StartMine(w)
    \/ Finish(w)

Spec == Init /\ [][Next]_vars

(* A thread finishes the request it serves; blocks are asked for again and  *)
(* again; and as each candidate poses a new challenge (its coinbase carries *)
(* a new timestamp), training does not fail for ever.                       *)
FairSpec ==
  /\ Spec
  /\ \A w \in Workers : WF_vars(Finish(w))
  /\ \A w \in MiningWorkers : SF_vars(StartMine(w)) /\ SF_vars(Seal(w, TRUE))

-----------------------------------------------------------------------------
(* Type invariant; the pool holds no transaction twice. *)
TypeOK ==
  /\ acct \in AccountState
  /\ Pending(pool) \cup pool.flagged \subseteq {Received(tx) : tx \in Txs}
  /\ \A i, j \in 1..Len(pool.pending) : pool.pending[i] = pool.pending[j] => i = j
  /\ \A i \in 1..Len(chain) : chain[i].transactions \in Seq(Transaction)
  /\ \A w \in Workers :
       worker[w].pc \in {"idle", "add", "insert", "candidate", "seal",
                         "validate", "apply", "remove"}

(* Blocks are applied atomically: when no thread is between the validation  *)
(* of a block and its place in the chain, the balances and nonces are what  *)
(* the chain says, and the chain would be accepted by a new node.           *)
Settled == \A w \in Workers : ~At(w, "apply")

AppliedAtomically ==
  Settled => Replayable(chain) /\ acct = Replay(chain)[Len(chain)]

(* Threads or not, the node keeps the promises of Bank, if one goes by the  *)
(* books its chain amounts to: they change when a block joins the chain, in *)
(* one step, by what a ledger may do in one block.                          *)
Books == Replay(chain)[Len(chain)]

TheBank == INSTANCE Bank WITH balances <- Books.balances, nonces <- Books.nonces
BankSpec == TheBank!Spec

(* A client that reads a balance while a block is being applied may see it  *)
(* half way, but never below zero.                                          *)
NoNegativeRead == \A a \in Accounts : acct.balances[a] >= 0

(* The test of max_size and the insertion are apart: each other thread can  *)
(* slip in one transaction, no more.                                        *)
PoolBounded == Len(pool.pending) <= max_size + Cardinality(Workers) - 1

(* A transaction that leaves the pool is in the chain by then, though it    *)
(* may have come in after the block was selected.                           *)
InChain(tx) ==
  \E i \in 1..Len(chain) : \E j \in 1..Len(chain[i].transactions) :
    chain[i].transactions[j] = tx

LeavesPoolConfirmed ==
  [][\A tx \in Pending(pool) \ Pending(pool') : InChain(tx)]_vars

(* What a client submits is mined in the end. *)
SubmittedIsMined ==
  \A tx \in Txs : (\E w \in Workers : At(w, "add") /\ worker[w].sent = tx) ~> InChain(tx)

=============================================================================
