------------------------------- MODULE Network ------------------------------
(***************************************************************************)
(* The nodes of src/neurochain/network/node.py.  Each has a ledger, a       *)
(* mempool and its own opinion of every miner.  There are no sockets in the *)
(* code: peers hand each other blocks (import_block) and whole chains       *)
(* (reconcile), here in any order, late, twice or never.  The blocks are    *)
(* those the nodes themselves mined, unaltered.                             *)
(*                                                                          *)
(* A difficulty controller is deterministic: its generator is seeded, its   *)
(* inputs are timestamps in the chain.  What the controllers that followed  *)
(* a chain make of its last block is therefore a property of that block,    *)
(* b.retuned, which is drawn when the block is mined.                       *)
(***************************************************************************)
EXTENDS Mempool, Reputation, UsefulWork

CONSTANTS
  \* the nodes, each mining for the account of the same number
  Nodes,
  \* the transactions users submit, the losses that training may reach
  Txs, Losses,
  \* Node.initial_difficulty, the limits of RLDifficultyController
  initial_difficulty, min_difficulty, max_difficulty,
  \* bounds: blocks mined in all, bad marks a node gives a miner
  MaxBlocks, MaxInvalid

ASSUME NodesAssumption == Nodes \subseteq Accounts
ASSUME TxsAssumption == Txs \subseteq Transaction
ASSUME LossAssumption == Losses \subseteq Nat
ASSUME DifficultyAssumption ==
  /\ min_difficulty \in Nat \ {0} /\ max_difficulty \in Nat
  /\ initial_difficulty \in min_difficulty..max_difficulty
ASSUME BoundAssumption == MaxBlocks \in Nat

VARIABLES
  ledger,   \* node.blockchain
  pool,     \* node.mempool
  stats,    \* node.reputation_ledger.stats
  blocks    \* every block mined so far: the ones a peer may hand over

vars == <<ledger, pool, stats, blocks>>

Block == [hash: Nat, index: Nat, previous_hash: Int, transactions: Seq(Transaction),
          difficulty: min_difficulty..max_difficulty, miner: Accounts,
          retuned: min_difficulty..max_difficulty,
          proof: [loss: Nat, work_quality: 0..100]]

Genesis == [hash |-> 0, index |-> 0, previous_hash |-> -1, transactions |-> <<>>,
            difficulty |-> initial_difficulty, miner |-> 1,
            retuned |-> initial_difficulty,
            proof |-> [loss |-> 0, work_quality |-> 0]]

FreshLedger ==
  [chain |-> <<Genesis>>, acct |-> EmptyState,
   difficulty |-> initial_difficulty, controlled |-> TRUE]

Init ==
  /\ ledger = [n \in Nodes |-> FreshLedger]
  /\ pool = [n \in Nodes |-> EmptyPool]
  /\ stats = [n \in Nodes |-> [a \in Accounts |-> InitialStats]]
  /\ blocks = {}

-----------------------------------------------------------------------------
(* The ledger of a node: Blockchain.add_block, with the node's consensus.   *)

LastBlock(l) == l.chain[Len(l.chain)]

Clamp_Below(d) == IF d < min_difficulty THEN min_difficulty ELSE d

Clamp(d) == IF d < min_difficulty THEN min_difficulty
            ELSE IF d > max_difficulty THEN max_difficulty ELSE d

Retuned(l, b) == IF l.controlled THEN b.retuned ELSE l.difficulty

(* The verdict of node n's consensus engine on a block's proof. *)
Verdict(n, b) == ProofAccepted(b.proof, stats[n][b.miner].reputation)

ValidBlock_ProofOnly(n, b) == LinksTo(b, LastBlock(ledger[n])) /\ Verdict(n, b)

ValidBlock(n, b) ==
  /\ LinksTo(b, LastBlock(ledger[n]))
  /\ Verdict(n, b)
  /\ ValidTransactions(ledger[n].acct, b.transactions)

Committed(l, b) ==
  [chain |-> Append(l.chain, b), acct |-> ApplyBlock(l.acct, b.transactions),
   difficulty |-> Retuned(l, b), controlled |-> l.controlled]

Rewarded(n, b) ==
  [stats EXCEPT ![n][b.miner] = ObserveValidBlock(@, b.proof.work_quality)]

-----------------------------------------------------------------------------
(* submit *)
Submit(n, tx) ==
  /\ pool' = [pool EXCEPT ![n] = AddTx(@, tx)]
  /\ UNCHANGED <<ledger, stats, blocks>>

(* mine_block: select, create_candidate, seal, add_block and, unless that   *)
(* raised, remove_confirmed and the reward in reputation.                   *)
Selected(n) == Select(pool[n])

NewBlock(n, loss, move) ==
  LET l == ledger[n]
  IN [hash |-> Cardinality(blocks) + 1, index |-> LastBlock(l).index + 1,
      previous_hash |-> LastBlock(l).hash,
      transactions |-> CandidateBody(Selected(n), n),
      difficulty |-> l.difficulty, miner |-> n,
      retuned |-> Clamp(LastBlock(l).retuned + move),
      proof |-> SealedProof(loss, stats[n][n].reputation)]

MineBlock(n, loss, move) ==
  LET b == NewBlock(n, loss, move)
  IN /\ Cardinality(blocks) < MaxBlocks
     /\ ValidBlock(n, b)
     /\ ledger' = [ledger EXCEPT ![n] = Committed(@, b)]
     /\ pool' = [pool EXCEPT ![n] = RemoveConfirmed(@, Selected(n))]
     /\ stats' = Rewarded(n, b)
     /\ blocks' = blocks \cup {b}

(* The ValidationError of add_block leaves mine_block before it changed     *)
(* anything.                                                                *)
MineFails(n, loss) == ~ValidBlock(n, NewBlock(n, loss, 0)) /\ UNCHANGED vars

(* import_block *)
ImportBlock(n, b) ==
  /\ ValidBlock(n, b)
  /\ ledger' = [ledger EXCEPT ![n] = Committed(@, b)]
  /\ pool' = [pool EXCEPT ![n] = RemoveConfirmed(@, b.transactions)]
  /\ stats' = Rewarded(n, b)
  /\ UNCHANGED blocks

RefuseBlock(n, b) ==
  /\ ~ValidBlock(n, b)
  /\ stats[n][b.miner].invalid < MaxInvalid
  /\ stats' = [stats EXCEPT ![n][b.miner] = ObserveInvalidBlock(@)]
  /\ UNCHANGED <<ledger, pool, blocks>>

(* reconcile: replay the other chain on a new ledger, which has no          *)
(* difficulty controller, and keep that ledger if its score is higher.      *)
Acceptable(n, chain) ==
  Replayable(chain) /\ \A i \in 2..Len(chain) : Verdict(n, chain[i])

Replayed(chain) ==
  [chain |-> chain, acct |-> Replay(chain)[Len(chain)],
   difficulty |-> initial_difficulty, controlled |-> FALSE]

Heavier_OrEqual(chain, than) == UsefulWorkScore(chain) >= UsefulWorkScore(than)
Heavier_Longest(chain, than) == Len(chain) > Len(than)

Heavier(chain, than) == UsefulWorkScore(chain) > UsefulWorkScore(than)

Reconcile(n, chain) ==
  /\ Heavier(chain, ledger[n].chain)
  /\ Acceptable(n, chain)
  /\ ledger' = [ledger EXCEPT ![n] = Replayed(chain)]
  /\ UNCHANGED <<pool, stats, blocks>>

-----------------------------------------------------------------------------
Next ==
  \E n \in Nodes :
    \/ \E tx \in Txs : Submit(n, tx)
    \/ \E loss \in Losses :
         MineFails(n, loss) \/ \E move \in {-1, 0, 1} : MineBlock(n, loss, move)
    \/ \E b \in blocks : ImportBlock(n, b) \/ RefuseBlock(n, b)
    \/ \E m \in Nodes : Reconcile(n, ledger[m].chain)

Spec == Init /\ [][Next]_vars

(* Peers keep offering their chains: a node that could adopt a heavier one  *)
(* sooner or later does.                                                    *)
FairSpec ==
  /\ Spec
  /\ \A n \in Nodes : \A m \in Nodes \ {n} : WF_vars(Reconcile(n, ledger[m].chain))

-----------------------------------------------------------------------------
(* Type invariant; reputations stay within FLOOR..ONE.                      *)
TypeOK ==
  /\ ledger \in [Nodes -> [chain: Seq(Block), acct: AccountState,
                           difficulty: min_difficulty..max_difficulty,
                           controlled: BOOLEAN]]
  /\ pool \in [Nodes -> [pending: Seq(Transaction), flagged: SUBSET Txs]]
  /\ stats \in [Nodes -> [Accounts -> ValidatorStats]]
  /\ blocks \subseteq Block /\ Cardinality(blocks) <= MaxBlocks

(* Whatever mix of mining, importing and switching chains brought it about, *)
(* every node's ledger is the replay of its chain, links unbroken, with     *)
(* every transaction valid where it stands.                                 *)
LedgersReplay ==
  \A n \in Nodes :
    /\ Replayable(ledger[n].chain)
    /\ ledger[n].acct = Replay(ledger[n].chain)[Len(ledger[n].chain)]

(* Two chains with a common block agree on everything before it. *)
CommonBlockCommonHistory ==
  \A n, m \in Nodes :
    \A i \in 1..Len(ledger[n].chain), j \in 1..Len(ledger[m].chain) :
      ledger[n].chain[i].hash = ledger[m].chain[j].hash =>
        SubSeq(ledger[n].chain, 1, i) = SubSeq(ledger[m].chain, 1, j)

(* Fork choice: a node never gives up useful work.  A step that changes its *)
(* chain raises the score, be it an appended block or another chain.        *)
ScoreOnlyRises ==
  [][\A n \in Nodes :
       ledger'[n].chain # ledger[n].chain =>
         UsefulWorkScore(ledger'[n].chain) > UsefulWorkScore(ledger[n].chain)]_vars

(* A pending transaction leaves the pool of a node only in the step that    *)
(* puts it into that node's chain.                                          *)
LeavesPoolConfirmed ==
  [][\A n \in Nodes : \A tx \in Pending(pool[n]) \ Pending(pool'[n]) :
       /\ Len(ledger'[n].chain) = Len(ledger[n].chain) + 1
       /\ \E i \in 1..Len(LastBlock(ledger'[n]).transactions) :
            LastBlock(ledger'[n]).transactions[i] = tx]_vars

(* In the end nothing but its opinion of a miner keeps a node from a        *)
(* heavier chain: neither a link nor a transaction, nor the order in which  *)
(* it saw the blocks.  A low opinion does, for ever: the chain holds a      *)
(* block the node's engine rejects, and reconcile marks nobody up.          *)
Convergence ==
  <>[](\A n, m \in Nodes :
         UsefulWorkScore(ledger[n].chain) < UsefulWorkScore(ledger[m].chain) =>
           \E i \in 2..Len(ledger[m].chain) : ~Verdict(n, ledger[m].chain[i]))

(* is_valid_chain examines the links and the proofs of a node's own chain   *)
(* once more.  The node has validated each of these blocks when it took it: *)
(* the README's quickstart prints True.                                     *)
IsValidChain(n) ==
  \A i \in 2..Len(ledger[n].chain) :
    /\ ledger[n].chain[i].previous_hash = ledger[n].chain[i-1].hash
    /\ Verdict(n, ledger[n].chain[i])

ChainsStayValid == \A n \in Nodes : IsValidChain(n)

(* A deterministic difficulty generator keeps consensus reproducible across *)
(* nodes: two with the same chain mine at the same difficulty, whichever    *)
(* way each came by it.                                                     *)
SameChainSameDifficulty ==
  \A n, m \in Nodes :
    ledger[n].chain = ledger[m].chain => ledger[n].difficulty = ledger[m].difficulty

=============================================================================
