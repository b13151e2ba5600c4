------------------------------ MODULE Sealing -------------------------------
(***************************************************************************)
(* Proof-of-Useful-Intelligence in detail: seal and validate of             *)
(* src/neurochain/consensus/proof_of_useful_intelligence.py, of which       *)
(* UsefulWork keeps the verdict only.                                       *)
(*                                                                          *)
(* Weights are [challenge, loss]: what they were trained on and the loss    *)
(* they reach there, once rounded; on any other challenge they do no better *)
(* than Untrained.  Losses are in units of                                  *)
(* BASE_THRESHOLD / (10000 * 10^MaxDifficulty), in which the threshold of   *)
(* each difficulty up to MaxDifficulty is whole.  A hash is what was        *)
(* hashed; HasPrefix tells which binding hashes start with pow_prefix.      *)
(***************************************************************************)
EXTENDS UsefulWork

CONSTANTS
  \* max(1, max_epochs // epochs_per_round)
  rounds,
  \* bounds: difficulties, nonces tried
  MaxDifficulty, MaxNonce,
  Untrained, HasPrefix(_)

challenge_seed(block) == <<block.previous_hash, block.merkle_root>>

(* _threshold, DECAY being 7/10 *)
Required(difficulty, reputation) ==
  7^difficulty * 10^(MaxDifficulty - difficulty) * Threshold(reputation)

dataset_loss(weights, seed) ==
  IF weights.challenge = seed THEN weights.loss ELSE Untrained

Binding(digest, seed, nonce) == [digest |-> digest, seed |-> seed, nonce |-> nonce]

find_binding_nonce(digest, seed) ==
  CHOOSE nonce \in 0..MaxNonce :
    /\ HasPrefix(Binding(digest, seed, nonce))
    /\ \A k \in 0..(nonce-1) : ~HasPrefix(Binding(digest, seed, k))

-----------------------------------------------------------------------------
(* seal.  losses[1] is the loss of the untrained model, losses[r+1] the one *)
(* after round r.  Training goes on until the best so far will do, but at   *)
(* least one round and at most all of them; the best weights are shipped.   *)
BestOf_Latest(losses, r) == r + 1

BestOf(losses, r) ==
  CHOOSE i \in 1..(r+1) :
    /\ \A j \in 1..(r+1) : losses[i] <= losses[j]
    /\ \A j \in 1..(i-1) : losses[j] # losses[i]

LastRound(losses, threshold) ==
  CHOOSE r \in 1..rounds :
    /\ r = rounds \/ losses[BestOf(losses, r)] <= threshold
    /\ \A k \in 1..(r-1) : losses[BestOf(losses, k)] > threshold

seal(block, losses, reputation) ==
  LET seed == challenge_seed(block)
      threshold == Required(block.difficulty, reputation)
      best == losses[BestOf(losses, LastRound(losses, threshold))]
      weights == [challenge |-> seed, loss |-> best]
      nonce == find_binding_nonce(weights, seed)
  IN [block EXCEPT
        !.nonce = nonce,
        !.proof = [algorithm |-> "useful-intelligence", challenge_seed |-> seed,
                   val_loss |-> best, threshold |-> threshold,
                   weights |-> weights, weights_digest |-> weights,
                   binding_hash |-> Binding(weights, seed, nonce),
                   work_quality |-> WorkQuality(best, threshold),
                   genesis |-> FALSE]]

-----------------------------------------------------------------------------
(* validate.  A proof that calls itself that of a genesis block is not      *)
(* looked at, in whichever block it comes.  Of any other, val_loss,         *)
(* threshold and work_quality are not read.  The tolerance of 1e-9 for the  *)
(* rounding of floats is left out.                                          *)
validate(block, reputation) ==
  LET proof == block.proof
      seed == proof.challenge_seed
      binding == Binding(proof.weights_digest, seed, block.nonce)
  IN \/ proof.genesis
     \/ /\ proof.algorithm = "useful-intelligence"
        /\ seed = challenge_seed(block)
        /\ proof.weights_digest = proof.weights
        /\ binding = proof.binding_hash /\ HasPrefix(binding)
        /\ dataset_loss(proof.weights, seed) <= Required(block.difficulty, reputation)

=============================================================================
