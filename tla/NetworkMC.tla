------------------------------ MODULE NetworkMC -----------------------------
(* Small networks of Network: two nodes, each the miner of its own account. *)
EXTENDS Network

Tx(from, to, amount, fee, nonce) ==
  [sender |-> from, recipient |-> to, amount |-> amount, fee |-> fee,
   nonce |-> nonce, signed |-> TRUE]

MCTxs == { Tx(1, 2, 1, 1, 0) }

MCNone == {}

(* Half the threshold of a new miner, below every threshold; and just below  *)
(* the threshold of a new miner, above the one of a miner with a bad mark.  *)
MCLosses == { 5000, 10700 }

(* Just below the threshold of a miner in good standing. *)
MCMarginal == { 10700 }

=============================================================================
