----------------------------- MODULE UsefulWork -----------------------------
(***************************************************************************)
(* The decisions of src/neurochain/consensus/proof_of_useful_intelligence.py *)
(* and the fork-choice score of src/neurochain/network/node.py.             *)
(*                                                                          *)
(* Training a model on the challenge is left out: a sealed block carries    *)
(* the loss its weights reach, in ten-thousandths of the base threshold     *)
(* BASE_THRESHOLD * DECAY^difficulty of its own difficulty, so that the     *)
(* difficulty cancels out of every comparison.  The challenge seed, the     *)
(* digest of the weights and the binding nonce are recomputed from the      *)
(* block itself and fit by construction on a block nobody altered.          *)
(***************************************************************************)
EXTENDS Integers, Sequences

(* The loss a miner of this reputation (in hundredths) must reach: up to    *)
(* 15% above the base.                                                      *)
Threshold(reputation) == 10000 + 15 * reputation

(* In hundredths: 100 far below the threshold, 0 at it or above.            *)
WorkQuality(loss, threshold) ==
  IF loss >= threshold THEN 0 ELSE (100 * (threshold - loss)) \div threshold

(* seal: the best loss found in the training rounds, above the threshold if *)
(* they did not suffice.                                                    *)
SealedProof(loss, reputation) ==
  [loss |-> loss, work_quality |-> WorkQuality(loss, Threshold(reputation))]

(* validate: the loss is recomputed and held against the threshold for the  *)
(* reputation the verifier itself gives the miner.                          *)
ProofAccepted(proof, reputation) == proof.loss <= Threshold(reputation)

(* useful_work_score: difficulty * (1 + work_quality) of each block but the *)
(* genesis block, in hundredths.                                            *)
BlockScore(b) == b.difficulty * (100 + b.proof.work_quality)

ScoreTrace(chain) ==
  LET score[i \in 1..Len(chain)] ==
        IF i = 1 THEN 0 ELSE score[i-1] + BlockScore(chain[i])
  IN score

UsefulWorkScore(chain) == ScoreTrace(chain)[Len(chain)]

=============================================================================
