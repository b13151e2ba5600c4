----------------------------- MODULE MerkleTree -----------------------------
(***************************************************************************)
(* src/neurochain/core/merkle.py: the tree over a block's transaction       *)
(* hashes.  A hash is the tuple of what was hashed, so two of them are      *)
(* equal only if their contents are; a transaction's own hash is a tuple    *)
(* <<id>>, which is the hash of nothing else.                               *)
(***************************************************************************)
EXTENDS Integers, Sequences

Hash(left, right) == <<left, right>>
EmptyHash == <<>>

(* An odd layer repeats its last hash. *)
Padded(layer) ==
  IF Len(layer) % 2 = 1 THEN Append(layer, layer[Len(layer)]) ELSE layer

NextLayer_LeftTwice(layer) ==
  [i \in 1..(Len(Padded(layer)) \div 2) |->
     Hash(Padded(layer)[2*i - 1], Padded(layer)[2*i - 1])]

NextLayer(layer) ==
  [i \in 1..(Len(Padded(layer)) \div 2) |->
     Hash(Padded(layer)[2*i - 1], Padded(layer)[2*i])]

(* The layers from the leaves upwards, up to the first that holds one hash. *)
Layer(tx_hashes) ==
  LET layer[h \in 0..Len(tx_hashes)] ==
        IF h = 0 THEN tx_hashes ELSE NextLayer(layer[h-1])
  IN layer

Height(tx_hashes) ==
  CHOOSE h \in 0..Len(tx_hashes) :
    /\ Len(Layer(tx_hashes)[h]) <= 1
    /\ \A k \in 0..(h-1) : Len(Layer(tx_hashes)[k]) > 1

merkle_root(tx_hashes) ==
  IF tx_hashes = <<>> THEN EmptyHash ELSE Layer(tx_hashes)[Height(tx_hashes)][1]

(* The sibling of position idx, counted from 0, and its side. *)
Step_SidesSwapped(layer, idx) ==
  IF idx % 2 = 0 THEN [side |-> "left", hash |-> Padded(layer)[idx + 2]]
                 ELSE [side |-> "right", hash |-> Padded(layer)[idx]]

Step(layer, idx) ==
  IF idx % 2 = 0 THEN [side |-> "right", hash |-> Padded(layer)[idx + 2]]
                 ELSE [side |-> "left", hash |-> Padded(layer)[idx]]

(* idx is halved from layer to layer. *)
Position(index, height) ==
  LET idx[h \in 0..height] == IF h = 0 THEN index ELSE idx[h-1] \div 2
  IN idx

merkle_proof(tx_hashes, index) ==
  [h \in 1..Height(tx_hashes) |->
     Step(Layer(tx_hashes)[h-1], Position(index, Height(tx_hashes))[h-1])]

Climb(leaf, proof) ==
  LET acc[h \in 0..Len(proof)] ==
        IF h = 0 THEN leaf
        ELSE IF proof[h].side = "right" THEN Hash(acc[h-1], proof[h].hash)
                                        ELSE Hash(proof[h].hash, acc[h-1])
  IN acc

verify_proof(leaf, proof, root) == Climb(leaf, proof)[Len(proof)] = root

=============================================================================
