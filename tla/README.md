# NeuroChain in TLA+

A verification development for NeuroChain, the Python blockchain of this
repository: TLA+ modules of its ledger, mempool, nodes, API server, fee market,
contract machine, light client, signatures, consensus engine, difficulty
controller and update aggregation, TLC configurations that model-check them on
small instances, and TLAPS proofs of the results that matter most. Paths such as `core/blockchain.py` are
relative to `neurochain/`.

## 1. The system

| Component | Code | State | Operations | Talks to |
|---|---|---|---|---|
| Ledger | `core/blockchain.py`, `transaction.py`, `block.py` | chain, balances, nonces, difficulty | `create_candidate`, `mine`, `validate_block`, `add_block`, `is_valid_chain` | consensus engine (`seal`, `validate`), difficulty controller |
| Mempool | `network/mempool.py` | `_pool` in insertion order, `_flagged` | `add`, `select`, `remove_confirmed` | fraud detector |
| Node | `network/node.py` | a ledger, a mempool, a reputation ledger | `submit`, `mine_block`, `import_block`, `reconcile` | other nodes, by blocks and chains passed as objects |
| Proof-of-Useful-Intelligence | `consensus/…intelligence.py` | none of its own | `seal`, `validate` | reputation ledger, neural net |
| Reputation | `ai/validator_reputation.py` | per miner: reputation, counters | `observe_valid_block`, `observe_invalid_block` | read by consensus, written by the node |
| Adaptive difficulty | `ai/adaptive_difficulty.py` | Q-table, last decision, generator state | `next_difficulty` | called after each appended block |
| API server | `api/server.py` | one module-level node | `POST /tx`, `POST /mine`, `GET …` | clients, in threads |
| Fee market | `economics/fee_market.py` | `base_fee` | `update`, `quote`, `affordable`, `effective_fee` | no other component yet |
| NeuroVM, contracts | `vm/` | contract storage | `run`, four templates | no other component yet |
| Merkle, light client | `core/merkle.py`, `light_client.py` | none | roots, proofs, verification | blocks |
| Federated aggregation | `ai/federated.py` | none | `aggregate` and its methods | no other component yet |
| Fraud detection, neural net | `ai/fraud_detection.py`, `neural_net.py` | trained weights | `fit`, `is_anomalous`; `train`, `predict` | mempool; consensus |
| Crypto, wallet, CLI | `core/crypto.py`, `wallet.py`, `cli.py` | keys | sign, verify, hash | transactions |

What is hard here:

* **Two readings of a block.** `_validate_transactions` and `_apply` go through
  the same transactions with different books: the first does not credit the
  coinbase, the second credits it where it stands. The safety of all balances
  rests on the two agreeing.
* **A coinbase of any sign.** The validator bounds its amount from above only,
  and `_apply` adds it: a negative one takes money from an account that signed
  nothing. Everything else must hold around such blocks.
* **Order and repetition of messages.** A peer's block may come late, twice or
  before its parent, and `reconcile` swaps the whole ledger under the mempool.
* **Opinions in consensus.** The loss a proof must reach depends on the
  reputation the verifier gives the miner at that moment.
* **Threads.** The endpoints are plain functions, run by FastAPI in a thread
  pool, and nothing around the node is locked; seconds of training lie between
  the steps of a request.
* **Priorities against dependencies.** `select` orders by fee, the ledger
  demands nonces in sequence.
* **Integer rounding** in the fee controller.
* **Boundaries of pure algorithms.** Odd layers of a Merkle tree, the special
  cases of point addition, a parity that selects one of two points, trim and
  neighbour counts, weights by position after an update was dropped, the best
  of several training rounds, the reward of the decision before.
* **Failure halfway.** A contract call may write storage and fail afterwards, by
  a fault or because its gas ends, at any of its instructions.

## 2. The modules

    Blockchain            pure: transactions, validation, application, replay
      Bank                abstract: what a ledger promises its account holders
      Ledger              class Blockchain as a state machine; implements Bank
      Mempool             pure: the pool
        Network           several nodes  (with Reputation, UsefulWork)
        Server            one node, threads
    Reputation            pure: what a node thinks of a miner
    UsefulWork            pure: thresholds, verdicts, the fork-choice score
    FeeMarket             the base fee
    NeuroVM               the stack machine and the host that calls it
      Contracts           the four templates as programs
    MerkleTree            pure: roots and paths
      LightClient         pure: inclusion proofs for holders of headers
    Ecdsa                 pure: the curve, keys, signatures
    Sealing               pure: seal and validate (with UsefulWork)
    Federated             pure: the aggregation of updates
    AdaptiveDifficulty    pure: the Q-learning difficulty controller
      Calls               one call of these pure modules at a time
    MathLemmas, BlockchainProofs, LedgerProofs, NetworkProofs,
    ServerProofs, FeeMarketProofs, NeuroVMProofs, CallsProofs
                          lemmas, theorems and their proofs
    LedgerMC, NetworkMC, ServerMC, FeeMarketMC, ContractsMC, CallsMC
                          instances for TLC

**Blockchain.tla** keeps the pure part of `core/blockchain.py`. An address is a
number, a dictionary read with `.get(a, 0)` a total function, a signature check
the Boolean `signed`, an amount an integer (the code computes in floats, so
rounding of amounts, including the `round(…, 8)` of the coinbase test, is not
covered). The loops of `_validate_transactions` and `_apply` are recursive
functions over positions, `CheckTrace` and `ApplyTrace`; `ok` turns FALSE where
the code raises.

**Ledger.tla**: `AddBlock` is `add_block` of any block, with any index and any
parent, `Mine` is `mine`; both end in `Commit` (validation passes; balances,
nonces, chain and difficulty change together) or `Reject` (the exception). The
consensus verdict is the field `sealed`. Bodies are any transactions: coinbases
of negative amount too, which no `create_candidate` makes of valid transactions
but the validator accepts from a peer.

**Bank.tla** is the abstract specification: balances never negative, an
account's money leaves only when its nonce advances, nonces never go back, and
a block creates at most `BLOCK_REWARD`. The ledger keeps this on the balances
that the accounts would have without the negative coinbases in its chain
(`Restored` adds what these took, `CoinbaseDebits`), and the properties of
single balances count the same amount apart: `OverdrawnByCoinbaseOnly` says that
no account is further below zero than that, `DebitNeedsNonce` that a balance
falls by more than the new block's only with a signed transfer. So the
properties say exactly how far the code departs from the Bank.

**Network.tla**: each node has a ledger, a pool and its own `stats`. `Submit`,
`MineBlock`/`MineFails`, `ImportBlock`/`RefuseBlock` and `Reconcile` are the
methods of `Node`, each with everything it calls. There is no transport in the
code; any node may be handed any block ever mined, at any time and any number of
times, and any other node's chain. Blocks are those the nodes mined from their
pools, so none has a negative coinbase here. Reputations are whole hundredths, rounded
down. A sealed block carries its loss, in ten-thousandths of the base threshold
of its own difficulty; the seed, digest and binding-nonce checks hold on blocks
nobody altered, and only such blocks occur (Sealing has those checks).
A difficulty controller is deterministic: seeded, and fed with timestamps of the
chain. What the controllers that have followed a chain make of its last block is
therefore a field of that block, `retuned`, drawn when it is mined; a ledger
that `reconcile` built has no controller (`controlled`) and ignores it.

**Server.tla** cuts `Mempool.add` and `mine_block` where another thread can come
between: test and insertion; selection, candidate, training, validation, each
transaction of `_apply`, the append, the removal. `Received` is what `submit_tx`
makes of a request. Transactions reach the node by `Route`: `"http"` is
`POST /tx`, `"python"` a call of `Node.submit`, as in the tests and examples.
Since no signed transaction ever enters the pool through `POST /tx` (finding 2),
the passing runs use `"python"`, to see the node's own steps beyond that defect.
(An unsigned one from `COINBASE` does enter by either way, `transaction.py:70`;
every candidate with it has two coinbases and is refused. The Server runs submit
none.)
Difficulty and reputation, on which nothing there depends, are left out.
`BankSpec` maps this server to the abstract Bank: the bank's books are those of
the chain, replayed (`Books`). While a block is applied transaction by
transaction the books of the node run ahead of the bank's, and the append makes
the bank's step.

**FeeMarket.tla**: the constructor's checks are `Legal`, `update` is `Update`
with the report clamped first; `Delta` is the floor division of both branches.
Where `quote` or `effective_fee` raise, the operators give `Refused`.

**NeuroVM.tla**: `Exec(c, s)` is one iteration of the loop of `run`: end of the
code, backstop, gas, instruction. The pops and pushes of one instruction are one
change of the stack (`Pops`, `Pushed`); every way to fail raises the same
`Revert`, so which check comes first makes no difference. `Step` runs `Exec`;
`Call` starts the next call, on the storage that the previous one returned:
`run` does not store it, its callers do. Words have `WORD_BITS` bits instead of
256 (`WORD` is `TwoTo[WORD_BITS]`), the bitwise operators go by halves (`And`),
and the gas table is the code's. A returned `None` is -1.

**Contracts.tla**: the templates, with `Gate` for the `ASSERT PUSH 1 RETURN` they
share.

**MerkleTree.tla, LightClient.tla**: a hash is the tuple of what was hashed, so
hashes never collide; a transaction id is a tuple `<<id>>`. `Layer` and `Height`
are the loop that both `merkle_root` and `merkle_proof` run.

**Ecdsa.tla** has the code's algorithms on a curve y² = x³ + B given by its
constants, of prime order N below P and with P ≡ 3 modulo 4 as for secp256k1. A
message is the number of its hash; the nonce, which RFC 6979 derives from key
and message, is any number below N. `point_mul` has N rounds, of which those
after the last bit of the scalar change nothing. `AssociativityAssumption` is the
one classical fact about chords and tangents that is assumed of a curve; TLC
evaluates it on the small one.

**Sealing.tla**: training is the sequence of the losses after each round;
`LastRound` is where the loop of `seal` stops, `BestOf` what it ships. Weights
carry the challenge they were trained on and their loss there, hashes are what
was hashed, and `HasPrefix` says which binding hashes have the leading zero.
`validate` has the code's first exit too: any proof with the flag `genesis` is
accepted, in whichever block.

**Federated.tla**: vectors of whole numbers, means as a numerator vector over a
denominator; vectors to be clipped have a whole norm, so clipping is exact.

**AdaptiveDifficulty.tla**: the Q-table with exact fractions (whole multiples of
1/`unit`, which each update divides by 20), drifts that are whole powers of two,
exploration as an input.

**Calls.tla** is a machine with one variable, the last call of one of these
modules: its arguments and its result. Each action calls one function with every
argument of the sets that CallsMC gives.

Definitions named `X_Something` next to a definition `X` (`Clamp_Below`,
`Heavier_OrEqual`, …) are plausible bugs in X. They are no part of the model:
each replaces X in an experiment that shows that a property notices.

## 3. The runs

`tlc -config <cfg> <module>`, all with two workers in two minutes or less.

| Run | Config | Bounds | Shows |
|---|---|---|---|
| ledger | `LedgerMC.cfg` | 2 accounts, reward 2, height 5, 18 bodies, 7 batches | `OverdrawnByCoinbaseOnly`, `SupplyBound`, `NoReplay`, `ReplayReproducesState`, `DebitNeedsNonce`, and `BankSpec`: but for negative coinbases the ledger implements the bank |
| network | `NetworkMC.cfg` | 2 nodes, 3 blocks in all, 1 transaction, losses 5000 and 10700, difficulty 1, one bad mark per miner and node | `LedgersReplay`, `CommonBlockCommonHistory`, `ScoreOnlyRises`, `LeavesPoolConfirmed`, `Convergence` |
| server | `ServerMC.cfg` | 2 threads, one of which may mine; 5 transactions, pool of 1 | `AppliedAtomically`, `NoNegativeRead`, `PoolBounded`, `LeavesPoolConfirmed`, and `BankSpec`: the server too implements the bank |
| server_clients | `ServerClients.cfg` | the same threads; clients with one affordable transaction at a time | `SubmittedIsMined` |
| contracts | `ContractsMC.cfg` | words of 3 bits, stack of 2, 12 steps; 21 programs, 2 contexts, 3 gas limits | `AllOrNothing`, `GasBitesFirst`, `GasOnlyCutsShort`, `TemplatesDecide` |
| fee_market | `FeeMarketMC.cfg` | 96 settings (18 of them legal), first fees up to 12, 9 reports of gas | `EffectiveFloor`, `Feedback`, `QuoteOutlastsBlock`, `CongestionPasses` |
| calls | `CallsMC.cfg` | see below | `ProofsConvince`, `OnlyIncludedVerify`, `RootCommits`; `TrimmedWithinHonest`, `KrumNearHonest`, `NoWeightNoSay`; `MultipliesOnCurve`, `SignedIffVerified`; `SealedIffTrained`; `TriesEveryMove` |

Why the bounds are enough to be interesting. *ledger*: height 5 leaves room to
earn, spend, be debited, spend again and replay; the bodies put the coinbase
first, last, twice and nowhere, with too large, exact, too small and negative
amounts (one just before a transfer of the account it debits), make a transfer
spend what the same block brought, and break every rule of the validator once.
*network*: three blocks give a fork of one block against two, a block imported
before its parent and a block that arrives twice. A new miner's threshold is
10750: a block of loss 10700 passes at first, but not after the bad mark that an
early or repeated block costs its miner, nor after another block of low quality,
so nodes do refuse each other's chains, and their own next block, by opinion. The
difficulty stays at 1 here: it cancels out of every verdict, and scores still differ
by length and quality; run
`difficulty_forgotten` lets it move.
*server*: with a pool of one,
the second thread overfills it; each of the five transactions takes another path
through `add`. *fee_market*: the targets, limits and denominators include the
ones where the decrease rounds to zero and the maximal gas is three targets. *contracts*: the programs write and then fail in
each way the code knows, loop with and without filling the stack, and use the
storage as the templates' signers and arbiter would; the limits end calls
before, at and after their writes, and `GasOnlyCutsShort` replays every call
under each limit and under exactly its own price. No property depends on the
width of a word beyond the programs' own numbers. *calls*: blocks of one to nine
transactions have every pattern of odd layers up to four levels, and the mixed
lists include pairs that differ only by repeated last entries; the curve with
P = 19 and N = 13 is small enough for every point, multiplier up to 2N, nonce
and pair (r, s), and has points whose x-coordinate is 0 modulo N; batches have
three or five honest updates and up to two others, NaN and colluding ones
included, which puts Krum at its least n for f = 1 and 2; three losses (before
training and after each of two rounds) rise and fall around the thresholds of
two difficulties and three reputations; controllers make up to six decisions
(more would exceed TLC's integers). A sealed block is presented with each part
changed by itself, with its proof relabelled for another block, at each
difficulty, and with nothing but the flag of a genesis block.

`CHECK_DEADLOCK FALSE` in the Server configurations: a server to which nobody
sends a request stands still, and the bound `MaxEmpty` on empty blocks makes
every run end there.

**Fairness.** Network: a node that could adopt another's heavier chain sooner or
later does, i.e. peers keep offering chains (`reconcile` is the code's only way
to resolve a fork); nothing else is fair, mining may stop at any time. That does
not bring the nodes together: a node whose opinion of a miner is too low for one
block of the heavier chain refuses it for ever, and `reconcile` marks nobody up.
`Convergence` says that in the end nothing else keeps a node from a heavier
chain. Server:
a thread finishes what it has begun (weak fairness of `Finish`), `POST /mine` is
called again and again, and training does not fail for ever (strong fairness of
`StartMine` and of `Seal(w, TRUE)`): each candidate has a coinbase with a new
timestamp, hence a new challenge. FeeMarket: blocks keep
coming, so that in a stretch without demand an empty one does (weak fairness of
`Update(0)`).

### Disagreements between the code and what is said of it

Each is a run that TLC must find violated.

1. `ServerWedge.cfg`, **mempool_wedge**: a solvent client pays twice, the second
   time (nonce 1) with the higher fee. `select` puts it first, `add_block`
   refuses the block, the pool is unchanged, and so every later `mine_block`
   fails alike, for all the transactions of the batch.
2. `ServerPost.cfg`, **post_tx**: `TxIn` has no timestamp; the rebuilt
   transaction's payload is not the one that was signed, and `POST /tx` refuses
   every transaction.
3. `ServerTwoMiners.cfg`, **two_miners**: two requests validate against the same
   last block, apply both blocks and append both; the chain then holds two
   blocks of one index.
4. `NetworkRejudged.cfg`, **rejudged_chain**: a block of quality near 0 lowers
   its miner's reputation, the threshold falls with it, and `is_valid_chain`
   of the node's own chain returns False. The same dependence makes a peer
   refuse for ever a chain that its owner holds valid (run network reaches such
   states; `Convergence` is stated accordingly).
5. `NetworkDifficulty.cfg`, **difficulty_forgotten**: a node that adopted a
   chain by `reconcile` has no difficulty controller any more and mines at its
   initial difficulty; the node that it took the chain from mines at the
   difficulty the controller chose.

Also seen while modelling, and part of what the passing properties state: a
peer's block whose coinbase has a negative amount passes `_validate_transactions`
(`blockchain.py:97-106` bound it from above only), and `_apply` debits the
recipient, without its signature and below zero if need be, although
`blockchain.py:3-5` says that balances are validated; `OverdrawnByCoinbaseOnly`,
`DebitNeedsNonce` and `BankSpec` count exactly these debits apart. A block whose
proof carries the flag `genesis` is accepted without any work, at any height
(`proof_of_useful_intelligence.py:167`). `validate` recomputes the loss but reads
neither `val_loss` nor `threshold` nor `work_quality`, the last of which the fork
choice counts, and no hash in the proof covers the block's difficulty, which
counts too; `SealedIffTrained` states all three.

Further: the base fee does *not* fall on an emptier block once
it is below the denominator (`EffectiveFloor` states, and `RoundingFloor`
proves, what holds instead), while the docstring of `fee_market.py` says it
"falls when they run emptier"; and the minimal increase of one exceeds the
"at most 1 / denominator per block" of the class comment for small fees.
`BALANCE` looks its operand up under `hex(addr)`, which has no leading zeros, so
an account whose address starts with 0 reads as empty. Nothing in the machine
ties one contract's storage to the ledger. `import_block` counts a valid block
that arrives twice, or before its parent, against its miner. One NaN update
makes method "reputation" of `aggregate` fail unless the caller drops the
sender's weight too: `sanitize` excludes the update silently, the length check
does not. The fallback of `trimmed_mean` for `2 * k >= n` is never reached,
because trim is below 1/2. `sign` that met r = 0 or s = 0 would derive the same
nonce again and not return (`Signs`; of negligible probability on the real
curve). A fresh controller in a constant drift eases, holds and hardens in turn.

## 4. The proofs

`tlapm LedgerProofs.tla` and so on; every leaf is checked. All hold for any
value of the constants that meets the named assumptions.

**MathLemmas** has what the other modules need of numbers and groups and the
library does not have: induction over sets, powers in a finite group, and that
the order of an element divides the size of the group (`Lagrange`, by taking one
orbit after the other out of a set closed under the element). The numbers below
a prime are such a group under multiplication (`Euclid`, `PrimeGroup`), which
gives `Fermat`.

**BlockchainProofs** has the lemmas on the operators: what summing, minting and
transferring do to the total; that each iteration of validation computes the
account state which the same iteration of application reaches, up to the
coinbase not yet credited (`StepAgrees`, `TracesAgree`). Validation does not see
what a negative coinbase takes, so the two account states are compared up to the
sum of what coinbases have taken so far (`Moved`, `Lost`): for *any* body, a
validated block takes an account below zero by at most that (`ApplyValidated`),
creates at most the reward (`IssuanceBound`, and `RestoredIssuance` when what was
taken is given back, by `GiveBack`), and confirms for each account a run of
consecutive nonces (`BlockNonces`). Of a body without negative coinbases nothing
is lost (`NothingLost`), which is what the nodes' own blocks need
(`ApplyLegal`). Facts about the recursive functions are proved for each
position by taking the set of positions that fail and its least element
(`SetInduction` and `UpTo`, from `LeastNat`, in MathLemmas).

They also cover `Replay`, which is extended by a block at a time
(`ReplayAppend`, `ReplayableAppend`) and does not look beyond a prefix
(`ReplayPrefix`), and the pool: `select` returns transactions of the pool and
`remove_confirmed` keeps the others, in order and once each (`SelectType`,
`RemoveType`, `RemoveDistinct`).

**LedgerProofs**: any bodies and batches of transactions, coinbases of any
amount among them. The inductive invariant `IInv` joins `TypeOK`,
`OverdrawnByCoinbaseOnly`, `SupplyBound`, `NoReplay` and `ReplayReproducesState`.
It is needed because they lean on each other: the bound on the next block's
overdraft follows only from the agreement of validation and application started
from the bound so far, the uniqueness of nonces only from all confirmed ones
lying below the ledger's, and a replay goes on from the accounts of the chain so
far. From it: `TypeCorrect`, `NoOverdraftByTransfer`
(`OverdrawnByCoinbaseOnly`), `BoundedIssuance`, `ReplayProtection`,
`Reproducible`, the action property `Custody` (`DebitNeedsNonce`) and
`ImplementsBank` (`BankSpec`): under the mapping of balances to `Restored`,
initial states map to initial states, every step to a `CommitBlock` or a stutter.

**NetworkProofs**: any number of nodes, blocks and transactions. `IInv` is
`TypeOK` with three conjuncts. `Sound`, of each ledger: its chain starts at the
genesis block, links, replays to its accounts, has no overdraft, and every other
block of it was mined (`MinedBy`). `HashesTell`: hashes identify blocks. `Lawful`:
pools hold valid transactions and mined blocks legal bodies, without which
`BLOCK_REWARD` plus fees could be negative and `import_block` of an honest block
break a ledger. `ReconcileKeeps` is the step where all of it is needed at once: a
ledger is replaced by the replay of another node's chain. From it:
`TypeCorrect`, `EveryLedgerReplays` (`LedgersReplay`), `NoOverdraft`,
`ForksShareTheirPast` (`CommonBlockCommonHistory`; `CommonHistory` walks two
chains down from a common block, and needs that a block's index is its place,
`IndexIsPlace`), and the action properties `NeverLessWork` (`ScoreOnlyRises`;
`ScoreAppend` says what a block adds to the score) and `NoTransactionLost`
(`LeavesPoolConfirmed`).

**ServerProofs**: any number of threads. `IInv` says what a thread carries from
one step to the next (`Carries`) and counts who may still insert: the pool's
length and the threads between `add`'s test and its insertion together stay
within the limit plus the threads (`RoomLeft`). It holds with several miners too
and gives `TypeCorrect`, `PoolStaysBounded` and `NoTransactionLost`. What run
`two_miners` refutes has a hypothesis, `OneMiner`: at most one thread ever
serves `POST /mine`. Under it `BooksKept` is invariant: the node's accounts are
the books of the chain plus the transactions applied so far of the one block
that is being applied. The steps of the other threads leave books and accounts
alone (`QuietStep`), and no other thread is between validation and append
(`AloneAtWork`). Hence `BlocksApplyAtomically`, `NoNegativeBalanceRead` and
`ImplementsBank`.

**FeeMarketProofs**: `Division`, `DeltaMonotone` and `DeltaShare` bound the floor
division; `Rise` and `Fall` bound one update; `TypeCorrect`, `RoundingFloor`,
`FollowsOccupancy` and `QuoteIsGood` follow from `IInv`
(`TypeOK /\ EffectiveFloor`).

**NeuroVMProofs**: any word size, programs, contexts and limits.
*Words*: powers of two and the bitwise and satisfy their equations (`TwoToDef`,
`AndDef`); the result of every opcode is a word again (`ComputedWords`,
`PushedWords`; for OR because `a + b - (a AND b)` stays below the same power of
two, `AndBounds`). *Loop*: `ExecCases` splits an iteration into its six ways out,
and `ExecTypes` follows the types, the gas and the steps through each of them. *Gas*:
two runs of one call under different limits go abreast (`RunsAbreast`), in
states that are equal but for the gas, whose difference stays that of the
limits, until one cannot pay: nothing but the check in the loop reads the gas
(`GasUnseen`). *Host*: `IInv` adds to `TypeOK` that the machine is at a state of the
run of the last call (`OnItsRun`), so that what holds of runs holds of it. From
it: `TypeCorrect`, `LimitCutsOnly` (`GasOnlyCutsShort`), `StepsArePaid`
(`GasBitesFirst`); `FailureChangesNothing` (`AllOrNothing`) is inductive by
itself. *Templates*: a template is a test of instructions that neither jump nor
write (`Quiet`), and a gate. `Tested` says which stacks the test computes one
after the other; `TestedStep` and `TestedRun` show that a run is always at one
of them, or past the gate with the condition true (`Tracks`). Four
lemmas compute the stacks of the four templates, and `TemplatesRelease`
concludes `TemplatesDecide` under `TemplatesFit`: the stack has room for two
words (`MAX_STACK` is 1024), and time and value fit in a word (they have 256
bits; the machine would cut larger ones, and the templates then compare what is
left).

**CallsProofs**: blocks of every size. `LayersShrink` bounds each
layer by the one below, so the loop of `merkle_root` ends with one hash
(`HeightExists`); `PositionInLayer` keeps a transaction's position within its
layer, and `StepUp`, one step of a proof, carries the equality of the client's hash
with the hash at that position up to the root: `PathsReachTheRoot`,
`InclusionProven`. The way down is `StepDown`: since a hash tells what was
hashed, what leads to a hash of one layer stands in the layer below; a path that is
too long or too short ends at a hash of two where a transaction's own hash is
due. So `AcceptedIsIncluded` holds of *every* path, also of one no full node
makes. `RootIsUnique` goes down two trees at once: lists without repetition have
layers without repetition (`DistinctLayers`), and of such a layer the padding
can be told (`LayerBelow`). Of the calls themselves it proves
`EveryProofConvinces` (`ProofsConvince`), `OnlyIncludedConvince`
(`OnlyIncludedVerify`) and `HeaderCommits` (`RootCommits`), from
`BodiesAssumption`: bodies are sequences of transaction hashes `<<id>>`.

The same module has the other calls. *Difficulty*: `Learned` is the invariant of
the controller along a sequence of observations: no value is above zero, the
values of decisions never taken are zero, those of decisions followed by a drift
below zero (`LearnsMore`, from `CreditLowers`: half of a negative value, plus
half of a reward that is never positive, plus nine twentieths of a best value
that is never positive either). A greedy move with a negative value therefore
leaves no move untried (`GreedyExplores`): `EveryMoveTried` (`TriesEveryMove`),
from `ObservationsAssumption` (drifts are whole, exploration picks a move).
*Sealing*: `BestIsLeast` and `TrainingEnds` say where the search through the
rounds stops and what it ships, `ShippedIfTrained` that this meets the threshold
exactly if some round did, `NonceFound` that the nonce binds it; `SealSeals` names
the parts of the sealed block. A block that brings the sealed one's binding hash
is judged by what that hash ties together and by its loss (`JudgedByBinding`,
whatever the other parts are, since a hash tells what was hashed);
`VariantJudged` shows that every variant is such a block, or one with another
binding hash, or one with the genesis flag: `SealedExactlyIfTrained` (`SealedIffTrained`), from `SealingAssumption` (losses are
whole, and a nonce exists, without which the code's search would not end).
*Aggregation*: two batches that differ in the vector of one update are followed
through `sanitize` (`KeptAlike`): what is kept differs in one place, the place
whose weight is the update's (`WeightKept`, whether the caller's list has the
dropped updates or not). At weight zero that row adds nothing to any sum
(`WeightlessRow`): `WeightlessHaveNoSay` (`NoWeightNoSay`).
For the robust methods the rows that reach the aggregator are those of the
strangers that were finite, at most as many as were sent, and then all honest ones
(`KeptTail`, `CallsMixed`). `Sorted` is defined by ranks, so that a place r of
the sorted sequence can be reasoned about by counting: fewer than r positions
cannot hold all that comes first (`SortedAbove`), and among r positions one comes
last (`SortedBelow`). *Trimmed mean*: enough is trimmed at both ends
(`EnoughTrimmed`, where k is rounded down of the n left after `sanitize`), so what
survives in a column has an honest number below and one above it
(`SurvivorsWithin`), and so has its mean (`SumAtLeast`, `SumAtMost`):
`TrimmedTolerates` (`TrimmedWithinHonest`). *Krum*: an honest row has so many
honest neighbours that its score is at most n-f-2 honest diameters (`ScoreAtMost`);
of a stranger's neighbours at most o-1 are other strangers, so that n-2f-1 are at
least as far as the nearest honest row (`ScoreAtLeast`); the row selected has the
least score (`Selected`), hence `SelectedNear` and `KrumSelectsNear`
(`KrumNearHonest`). All three rest on `BatchesAssumption` (one dimension, honest
updates finite), `TasksAssumption` (whole parameters, of either sign) and
`ClippingAssumption` (vectors to be clipped have a whole norm, as the model needs).

*Curve*: `_inv` raises to the modulus less 2, which is the inverse by Fermat
(`PowIsPower`, `InverseModPrime`). The chord through two points, and the tangent
at one, meet the curve again where `point_add` says; that is an identity of
polynomials modulo P (`ThirdPoint`, `ChordOnCurve`, `TangentOnCurve`). So sums
are points of the curve (`AddOnCurve`), a point and its mirror image cancel
(`OppositeCancels`), and with the assumed associativity the points are a group
of N elements (`PointGroup`). By `Lagrange` N times a point is infinity, hence
scalars count modulo N (`MultipleReduced`), and as N is prime no smaller
multiple of a finite point is (`MultipleNotInf`). *Double-and-add*: `result`
plus the bits still to come times `addend` stays the product, through every
round (`DoubleAndAdd`): `DoubleAndAddMultiplies` (`MultipliesOnCurve`).
*Compressed keys*: as P % 4 = 3, the power (P + 1) / 4 of a square is a root of
it (`SquareRoot`), and the parity byte picks the right one of the two:
`DecompressCompressed`. *Signatures*: what `verify` computes is K times the
generator, with K the inverse of s times (hash plus r times key)
(`VerifiedPoint`). For what `sign` made, K is its nonce or, after the change to
the low s, minus its nonce, a point with the same abscissa
(`SignedThenVerified`); and where `verify` accepts, K is a nonce that yields the
signature (`VerifiedThenSigned`). Hence a signature is accepted exactly if some
nonce yields it, with s or with N - s: `SignaturesVerify` (`SignedIffVerified`).
These rest on `CurveAssumption`, `AssociativityAssumption` and `KeysAssumption`
(private keys are between 1 and N - 1, as key generation draws them).

**Only model-checked.** Liveness (`Convergence`, `SubmittedIsMined`,
`CongestionPasses`): TLAPS does not handle fairness and ENABLED here. That
`point_add` is associative is assumed: it is a fact of the mathematics, not of
the code, and its proof is a case analysis over rational functions of six
variables.
Induction theorems with an operator parameter are out of the provers' reach,
which is why the modules use recursive functions and no RECURSIVE operators, and
why the lemmas on them argue by least counterexample.

## 5. What is not modelled, and the plan

Not modelled: floating-point rounding (amounts, means, Q-values); gradient
descent and the autoencoder of the fraud detector, which are numerical
optimisation without control of their own (their outcomes are choices or
constants of the models); hash functions, HMAC and the derivation of nonces and
addresses; serialization; the command line and the examples, which only parse
and print. That the difficulty may rest at a value training never reaches
(`core/blockchain.py:152`) depends on that optimisation and has no property.

Every safety invariant and action property of the passing runs is now stated by
a theorem. What a next step would add: the associativity of `point_add` from the
equation of the curve, and the training loop with rounding.
