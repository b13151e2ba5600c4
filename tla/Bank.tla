-------------------------------- MODULE Bank --------------------------------
(***************************************************************************)
(* What a ledger promises its account holders: no overdraft, nobody's money *)
(* leaves without a transfer that account signed (seen as an advance of its *)
(* nonce), nonces never go back, and a block creates at most BLOCK_REWARD   *)
(* of new money.                                                            *)
(***************************************************************************)
EXTENDS Blockchain

VARIABLES balances, nonces

vars == <<balances, nonces>>

Init == balances = EmptyState.balances /\ nonces = EmptyState.nonces

CommitBlock ==
  /\ balances' \in [Accounts -> Nat]
  /\ nonces' \in [Accounts -> Nat]
  /\ \A a \in Accounts : nonces'[a] >= nonces[a]
  /\ \A a \in Accounts : balances'[a] < balances[a] => nonces'[a] > nonces[a]
  /\ Total(balances') <= Total(balances) + BLOCK_REWARD

Spec == Init /\ [][CommitBlock]_vars

=============================================================================
