---------------------------- MODULE LightClient -----------------------------
(***************************************************************************)
(* src/neurochain/core/light_client.py: a full node proves that a           *)
(* transaction is in a block, a client that keeps only headers checks it.   *)
(* Of a block, [index, txids], only what proofs are made of is kept.        *)
(***************************************************************************)
EXTENDS MerkleTree

(* Block.header, as far as a light client reads it. *)
Header(block) == [index |-> block.index, merkle_root |-> merkle_root(block.txids)]

(* build_inclusion_proof raises InclusionError for a transaction that is    *)
(* not in the block, and proves its first occurrence otherwise.             *)
Includes(block, txid) == \E i \in 1..Len(block.txids) : block.txids[i] = txid

FirstIndex(block, txid) ==
  CHOOSE i \in 0..(Len(block.txids) - 1) :
    /\ block.txids[i+1] = txid
    /\ \A j \in 1..i : block.txids[j] # txid

build_inclusion_proof(block, txid) ==
  [txid |-> txid, block_index |-> block.index,
   merkle_root |-> merkle_root(block.txids),
   path |-> merkle_proof(block.txids, FirstIndex(block, txid))]

verify_inclusion_OwnRoot(proof, trusted_root) ==
  verify_proof(proof.txid, proof.path, proof.merkle_root)

verify_inclusion(proof, trusted_root) ==
  /\ proof.merkle_root = trusted_root
  /\ verify_proof(proof.txid, proof.path, trusted_root)

verify_against_header(proof, header) ==
  verify_inclusion(proof, header.merkle_root)

=============================================================================
