-------------------------------- MODULE Calls -------------------------------
(***************************************************************************)
(* The parts of NeuroChain that keep no state: light-client proofs, key and *)
(* signature arithmetic, sealing and validating a proof of useful work, the *)
(* aggregation of updates and the learning of a fresh difficulty            *)
(* controller.  One call at a time is made, with arguments from given sets; *)
(* the variable call holds its arguments and what came of it.               *)
(***************************************************************************)
EXTENDS LightClient, Federated, Ecdsa, Sealing, AdaptiveDifficulty

CONSTANTS
  \* light clients: the bodies of a full node, the ones a client mixes up
  Bodies, MixedBodies,
  \* aggregation: well-meant and other updates, what the caller asks for
  HonestBatches, OtherBatches, Tasks,
  \* signatures: private keys, hashed messages
  Keys, Messages,
  \* consensus: candidates, losses after a round, reputations of the miner
  Candidates, RoundLosses, Reputations,
  \* difficulty: sequences of observations [drift, explored]
  Observations

(* Bodies are sequences of transaction hashes (MerkleTree). *)
ASSUME BodiesAssumption ==
  \A txids \in Bodies \cup MixedBodies :
    /\ txids \in Seq({txids[i] : i \in 1..Len(txids)})
    /\ \A i \in 1..Len(txids) : txids[i] = <<txids[i][1]>>

(* All updates have the same dimension, and the well-meant ones are finite. *)
ASSUME BatchesAssumption ==
  /\ HonestBatches \cup OtherBatches \subseteq Seq([finite : BOOLEAN, at : Seq(Int)])
  /\ \A batch, other \in HonestBatches \cup OtherBatches :
       \A i \in 1..Len(batch), j \in 1..Len(other) :
         Len(batch[i].at) = Len(other[j].at)
  /\ \A batch \in HonestBatches : \A i \in 1..Len(batch) : batch[i].finite

(* The parameters are whole numbers, of either sign. *)
ASSUME TasksAssumption ==
  \A task \in Tasks :
    task.trim \in Int \X Int /\ task.num_byzantine \in Int /\ task.max_norm \in Int

(* Another vector of the same dimension. *)
Shifted(v) == [c \in DOMAIN v |-> v[c] + 7]

(* Clipping stays within whole numbers (Federated). *)
ASSUME ClippingAssumption ==
  \A task \in Tasks, batch \in HonestBatches \cup OtherBatches :
    \A i \in 1..Len(batch) :
      /\ ClipsExactly(batch[i].at, task.max_norm)
      /\ task.method = "reputation" => ClipsExactly(Shifted(batch[i].at), task.max_norm)

(* Training has a round, and the search for a nonce comes to an end. *)
ASSUME SealingAssumption ==
  /\ rounds \in Nat \ {0} /\ RoundLosses \subseteq Int
  /\ MaxDifficulty \in Nat /\ MaxNonce \in Nat /\ Reputations \subseteq Nat
  /\ \A candidate \in Candidates :
       /\ candidate = [previous_hash |-> candidate.previous_hash,
                       merkle_root |-> candidate.merkle_root,
                       difficulty |-> candidate.difficulty,
                       nonce |-> candidate.nonce, proof |-> candidate.proof]
       /\ candidate.difficulty \in 0..MaxDifficulty
       /\ \A loss \in RoundLosses :
            LET seed == challenge_seed(candidate)
                weights == [challenge |-> seed, loss |-> loss]
            IN \E nonce \in 0..MaxNonce : HasPrefix(Binding(weights, seed, nonce))

(* Exploration picks a move or leaves the choice to the Q-table. *)
ASSUME ObservationsAssumption ==
  Observations \subseteq Seq([drift : Int, explored : SUBSET Moves])

(* Keys are drawn from 1..(N-1), messages are the numbers of their hashes. *)
ASSUME KeysAssumption == Keys \subseteq 1..(N-1) /\ Messages \subseteq Nat

VARIABLE call

Idle == [op |-> "idle"]
Init == call = Idle

-----------------------------------------------------------------------------
(* A full node proves each transaction of a block. *)
ProveInclusion ==
  /\ call = Idle
  /\ \E txids \in Bodies : \E i \in 1..Len(txids) :
       LET block == [index |-> 1, txids |-> txids]
       IN call' = [op |-> "prove", block |-> block, txid |-> txids[i],
                   proof |-> build_inclusion_proof(block, txids[i])]

(* A client that holds one header is given a path made for a transaction of *)
(* another block, or for another transaction, under either block's root.    *)
CheckInclusion ==
  /\ call = Idle
  /\ \E txids, others \in MixedBodies : \E i, j \in 1..Len(others) :
     \E claimed \in {txids, others} :
       LET block == [index |-> 1, txids |-> txids]
           other == [index |-> 1, txids |-> others]
           proof == [txid |-> others[j], block_index |-> 1,
                     merkle_root |-> merkle_root(claimed),
                     path |-> build_inclusion_proof(other, others[i]).path]
       IN call' = [op |-> "check", block |-> block, other |-> other, proof |-> proof,
                   accepted |-> verify_against_header(proof, Header(block))]

AggregateUpdates ==
  /\ call = Idle
  /\ \E honest \in HonestBatches, others \in OtherBatches, task \in Tasks :
       call' = [op |-> "aggregate", honest |-> honest, others |-> others, task |-> task,
                result |-> aggregate(others \o honest, task)]

Multiply ==
  /\ call = Idle
  /\ \E k \in 0..(2*N), p \in Points :
       call' = [op |-> "multiply", k |-> k, p |-> p, result |-> point_mul(k, p)]

SignMessage ==
  /\ call = Idle
  /\ \E priv \in Keys, z \in Messages, k \in 1..(N-1) :
       /\ Signs(priv, z, k)
       /\ call' = [op |-> "sign", priv |-> priv, z |-> z, sig |-> sign(priv, z, k)]

VerifySignature ==
  /\ call = Idle
  /\ \E priv \in Keys, z \in Messages, sig \in (0..N) \X (0..N) :
       LET key == public_to_bytes(private_to_public(priv))
       IN call' = [op |-> "verify", priv |-> priv, z |-> z, sig |-> sig,
                   accepted |-> verify_hex(key, z, sig)]

(* A sealed block is presented as it is, with one part of it or of its      *)
(* proof changed, with its proof relabelled for another block, or with no   *)
(* more than the flag of a genesis block.                                   *)
Variants(block) ==
  { block, [block EXCEPT !.previous_hash = @ + 1], [block EXCEPT !.merkle_root = @ + 1],
    [block EXCEPT !.nonce = @ + 1], [block EXCEPT !.proof.algorithm = "other"],
    [block EXCEPT !.proof.challenge_seed = <<0, 0>>],
    [block EXCEPT !.proof.weights.loss = 0], [block EXCEPT !.proof.weights_digest.loss = 0],
    [block EXCEPT !.proof.binding_hash.nonce = @ + 1],
    [block EXCEPT !.previous_hash = @ + 1,
                  !.proof = [@ EXCEPT !.challenge_seed = <<block.previous_hash + 1,
                                                           block.merkle_root>>]],
    [block EXCEPT !.proof.val_loss = 0], [block EXCEPT !.proof.threshold = 0],
    [block EXCEPT !.proof.work_quality = 100],
    [block EXCEPT !.proof.genesis = TRUE], [block EXCEPT !.proof = [genesis |-> TRUE]] }
  \cup { [block EXCEPT !.difficulty = d] : d \in 0..MaxDifficulty }

ValidateSeal ==
  /\ call = Idle
  /\ \E candidate \in Candidates, losses \in [1..(rounds + 1) -> RoundLosses],
        r, v \in Reputations :
       LET sealed == seal(candidate, losses, r)
       IN \E block \in Variants(sealed) :
            call' = [op |-> "validate", sealed |-> sealed, losses |-> losses, block |-> block,
                     miner |-> r, verifier |-> v, accepted |-> validate(block, v)]

Retarget ==
  /\ call = Idle
  /\ \E observations \in Observations :
       call' = [op |-> "retarget", observations |-> observations,
                history |-> History(min_difficulty, observations)]

Return == call # Idle /\ call' = Idle

Next ==
  \/ ProveInclusion \/ CheckInclusion \/ AggregateUpdates
  \/ Multiply \/ SignMessage \/ VerifySignature
  \/ ValidateSeal \/ Retarget
  \/ Return

Spec == Init /\ [][Next]_call

-----------------------------------------------------------------------------
(* build_inclusion_proof: whatever the number of transactions, odd layers   *)
(* included, the proof of each of them satisfies a client that holds the    *)
(* block's header.                                                          *)
ProofsConvince ==
  call.op = "prove" => verify_against_header(call.proof, Header(call.block))

(* verify_against_header: a client accepts only transactions of the very    *)
(* block whose header it holds, whichever block the path was made for.      *)
OnlyIncludedVerify ==
  call.op = "check" /\ call.accepted => Includes(call.block, call.proof.txid)

NoRepeats(txids) == \A i, j \in 1..Len(txids) : txids[i] = txids[j] => i = j

(* merkle_root: a header stands for one list of transactions, if no list    *)
(* has a transaction twice.  (Lists that repeat their last transactions do  *)
(* share roots; the ledger's nonces keep them out of a chain.)              *)
RootCommits ==
  call.op = "check" =>
    LET txids == call.block.txids
        others == call.other.txids
    IN NoRepeats(txids) /\ NoRepeats(others) /\ merkle_root(txids) = merkle_root(others)
       => txids = others

-----------------------------------------------------------------------------
(* What the well-meaning validators sent, as sanitize leaves it. *)
Honest == sanitize(call.honest, call.task.max_norm)

(* trimmed_mean "tolerates up to trim Byzantine share": each coordinate of  *)
(* the aggregate lies between the least and the greatest honest one, even   *)
(* when some of the others are dropped for NaN and fewer values are trimmed.*)
TrimmedWithinHonest ==
  call.op = "aggregate" /\ call.task.method = "trimmed_mean" /\ call.result.ok
    /\ call.task.trim[2] * Len(call.others)
         <= call.task.trim[1] * (Len(call.others) + Len(call.honest))
  => \A c \in 1..Dimension(Honest) :
       /\ \E i \in 1..Len(Honest) :
            Honest[i][c] * call.result.den <= call.result.num[c]
       /\ \E i \in 1..Len(Honest) :
            call.result.num[c] <= Honest[i][c] * call.result.den

(* krum: with no more strangers than assumed, the selected update is within *)
(* a fixed factor of the honest diameter from some honest update, also when *)
(* strangers collude, whichever of them sanitize drops.                     *)
KrumNearHonest ==
  call.op = "aggregate" /\ call.task.method = "krum" /\ call.result.ok
    /\ Len(call.others) <= call.task.num_byzantine
  => LET f == call.task.num_byzantine
         n == Len(sanitize(call.others \o call.honest, call.task.max_norm))
     IN \E i, j, k \in 1..Len(Honest) :
          (n - 2*f - 1) * SquaredDistance(call.result.num, Honest[k])
            <= (n - f - 2) * SquaredDistance(Honest[i], Honest[j])

(* The weight that belongs to update i. *)
WeightOf(i, updates, weights) ==
  IF Len(weights) = Len(updates) THEN weights[i]
  ELSE weights[Len(Finite(SubSeq(updates, 1, i)))]

(* aggregate, method "reputation": a validator of weight 0 has no say as    *)
(* long as another has some: no vector of its own changes the result.       *)
(* Dropped updates must not shift the weights of those that stay, whether   *)
(* the caller passed a weight for each update or for each finite one.       *)
NoWeightNoSay ==
  call.op = "aggregate" /\ call.task.method = "reputation" /\ call.result.ok
    /\ SumOver(call.task.weights) # 0
  => LET updates == call.others \o call.honest
     IN \A i \in 1..Len(updates) :
          updates[i].finite /\ WeightOf(i, updates, call.task.weights) = 0 =>
            aggregate([updates EXCEPT ![i].at = Shifted(@)], call.task) = call.result

-----------------------------------------------------------------------------
(* The sum of k times p. *)
Multiple(k, p) ==
  LET sum[i \in 0..k] == IF i = 0 THEN INF ELSE point_add(sum[i-1], p)
  IN sum[k]

(* point_mul: double-and-add computes the k-fold sum, on the curve, for     *)
(* every k, beyond the order of the group too.                              *)
MultipliesOnCurve ==
  call.op = "multiply" =>
    call.result = Multiple(call.k, call.p) /\ call.result \in Points

(* sign, verify_hex: signatures are accepted, through the compressed key,   *)
(* and what is accepted is a signature of this message by this key under    *)
(* some nonce, s being determined up to its sign.                           *)
SignedIffVerified ==
  /\ call.op = "sign" =>
       verify_hex(public_to_bytes(private_to_public(call.priv)), call.z, call.sig)
  /\ call.op = "verify" =>
       ( call.accepted <=>
           \E k \in 1..(N-1) :
             /\ Signs(call.priv, call.z, k)
             /\ LET sig == sign(call.priv, call.z, k)
                IN call.sig \in {sig, <<sig[1], N - sig[2]>>} )

-----------------------------------------------------------------------------
(* What the binding hash of a proof ties together. *)
Tied(block) ==
  LET proof == block.proof
  IN <<block.previous_hash, block.merkle_root, block.nonce, proof.algorithm,
       proof.challenge_seed, proof.weights, proof.weights_digest, proof.binding_hash>>

(* seal and validate: a verifier of the miner's opinion accepts a block as  *)
(* it was sealed exactly if training met the threshold at some time, even   *)
(* if it got worse afterwards.  A changed block is accepted exactly if its  *)
(* proof claims to be a genesis block's, or if nothing the binding hash     *)
(* ties together was changed and the loss reached will do for the           *)
(* difficulty the block now has: the proof fits no other block, but the     *)
(* difficulty, val_loss, threshold and work_quality are not sealed.         *)
SealedIffTrained ==
  call.op = "validate" =>
    /\ call.block = call.sealed /\ call.verifier = call.miner =>
         ( call.accepted <=>
             \E i \in DOMAIN call.losses :
               call.losses[i] <= Required(call.sealed.difficulty, call.miner) )
    /\ call.accepted <=>
         \/ call.block.proof.genesis
         \/ /\ Tied(call.block) = Tied(call.sealed)
            /\ call.sealed.proof.weights.loss <= Required(call.block.difficulty, call.verifier)

-----------------------------------------------------------------------------
(* next_difficulty: a greedy decision repeats a move that was followed by a *)
(* drift off the target only when all three moves have been tried at this   *)
(* level of drift.                                                          *)
TriesEveryMove ==
  call.op = "retarget" =>
    LET decided == [i \in DOMAIN call.history |-> call.history[i].last]
        costly(i, k) == \E j \in 1..(k-1) :
          decided[j] = decided[i] /\ call.observations[j+1].drift # 0
    IN \A i \in DOMAIN call.history :
         call.observations[i].explored = {} /\ costly(i, i) =>
           \A move \in Moves : \E j \in 1..(i-1) : decided[j] = <<decided[i][1], move>>

=============================================================================
