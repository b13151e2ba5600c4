----------------------------- MODULE Blockchain -----------------------------
(***************************************************************************)
(* The pure part of src/neurochain/core/blockchain.py: what makes a         *)
(* transaction valid, what validating a block's transactions computes, and  *)
(* what applying them does to the balances and the nonces.                  *)
(*                                                                          *)
(* Abstractions.  An address is a number of 1..NumAccounts; the dictionaries *)
(* balances and nonces, read with .get(address, 0), are functions on all    *)
(* the accounts with 0 for the absent ones.  Amounts are integers (the code *)
(* computes with floats).  The signature check, an ECDSA verification over  *)
(* the transaction's fields, is the Boolean field `signed`.                 *)
(***************************************************************************)
EXTENDS Integers, Sequences

CONSTANTS
  \* the number of addresses
  NumAccounts,
  \* the fixed part of a coinbase
  BLOCK_REWARD

ASSUME NumAccountsAssumption == NumAccounts \in Nat \ {0}
ASSUME RewardAssumption == BLOCK_REWARD \in Nat

Accounts == 1..NumAccounts

(* The pseudo-sender of a block reward; it is nobody's address. *)
COINBASE_SENDER == 0

Transaction ==
  [sender: Accounts \cup {COINBASE_SENDER}, recipient: Accounts,
   amount: Int, fee: Int, nonce: Nat, signed: BOOLEAN]

(* The ledger's account state: self.balances and self.nonces. *)
AccountState == [balances: [Accounts -> Int], nonces: [Accounts -> Nat]]

EmptyState ==
  [balances |-> [a \in Accounts |-> 0], nonces |-> [a \in Accounts |-> 0]]

-----------------------------------------------------------------------------
(* Transaction.is_coinbase and Transaction.is_valid *)

IsCoinbase(tx) == tx.sender = COINBASE_SENDER

(* Variants named X_... of a definition X are plausible bugs, not the code:  *)
(* each must make a property fail that holds of X.                          *)
IsValid_AnySign(tx) == IsCoinbase(tx) \/ tx.signed

IsValid(tx) == tx.amount >= 0 /\ tx.fee >= 0 /\ (IsCoinbase(tx) \/ tx.signed)

-----------------------------------------------------------------------------
(* f[1] + ... + f[n]; a recursive function, which proofs can use. *)
SumTrace(f, n) ==
  LET sum[i \in 0..n] == IF i = 0 THEN 0 ELSE sum[i-1] + f[i] IN sum

Sum(f, n) == SumTrace(f, n)[n]

(* The money in the system. *)
Total(bal) == Sum(bal, NumAccounts)

(* The fees a coinbase may collect: those of the block's transfers. *)
TransferFees(txs) ==
  [i \in 1..Len(txs) |-> IF IsCoinbase(txs[i]) THEN 0 ELSE txs[i].fee]

Fees(txs) == Sum(TransferFees(txs), Len(txs))

(* Money moved by a transfer: the sender pays amount and fee, the recipient *)
(* is credited the amount (sender = recipient pays the fee only).           *)
Transfer(bal, tx) ==
  [a \in Accounts |->
     bal[a] - (IF a = tx.sender THEN tx.amount + tx.fee ELSE 0)
            + (IF a = tx.recipient THEN tx.amount ELSE 0)]

Mint(bal, tx) == [bal EXCEPT ![tx.recipient] = @ + tx.amount]

(* One iteration of the loop of _apply. *)
NextNonces(nonces, tx) ==
  IF IsCoinbase(tx) THEN nonces ELSE [nonces EXCEPT ![tx.sender] = tx.nonce + 1]

Apply(acct, tx) ==
  [balances |-> IF IsCoinbase(tx) THEN Mint(acct.balances, tx)
                ELSE Transfer(acct.balances, tx),
   nonces   |-> NextNonces(acct.nonces, tx)]

(* _apply: the account states after each transaction, and after the last. *)
ApplyTrace(acct, txs) ==
  LET st[i \in 0..Len(txs)] ==
        IF i = 0 THEN acct ELSE Apply(st[i-1], txs[i])
  IN st

ApplyBlock(acct, txs) == ApplyTrace(acct, txs)[Len(txs)]

-----------------------------------------------------------------------------
(* One iteration of the loop of _validate_transactions, over the working    *)
(* copies of balances and nonces.  `ok` turns FALSE where the code raises;  *)
(* the reward bound `expected` is the same in every iteration.  A coinbase  *)
(* is not credited to the working balances.                                 *)
CoinbaseAccepted_Twice(w, tx, expected) == tx.amount <= expected
CoinbaseAccepted_AnyAmount(w, tx, expected) == ~w.seen

CoinbaseAccepted(w, tx, expected) == ~w.seen /\ tx.amount <= expected

TransferAccepted_AnyNonce(w, tx) ==
  IsValid(tx) /\ w.balances[tx.sender] >= tx.amount + tx.fee

TransferAccepted_Overdraft(w, tx) ==
  IsValid(tx) /\ tx.nonce = w.nonces[tx.sender]

TransferAccepted(w, tx) ==
  /\ IsValid(tx)
  /\ tx.nonce = w.nonces[tx.sender]
  /\ w.balances[tx.sender] >= tx.amount + tx.fee

Accepted(w, tx, expected) ==
  IF IsCoinbase(tx) THEN CoinbaseAccepted(w, tx, expected)
                    ELSE TransferAccepted(w, tx)

Check(w, tx, expected) ==
  [ok       |-> w.ok /\ Accepted(w, tx, expected),
   seen     |-> w.seen \/ IsCoinbase(tx),
   balances |-> IF IsCoinbase(tx) THEN w.balances ELSE Transfer(w.balances, tx),
   nonces   |-> NextNonces(w.nonces, tx)]

CheckTrace(acct, txs) ==
  LET w[i \in 0..Len(txs)] ==
        IF i = 0
        THEN [ok |-> TRUE, seen |-> FALSE,
              balances |-> acct.balances, nonces |-> acct.nonces]
        ELSE Check(w[i-1], txs[i], BLOCK_REWARD + Fees(txs))
  IN w

(* _validate_transactions returns without raising. *)
ValidTransactions(acct, txs) == CheckTrace(acct, txs)[Len(txs)].ok

(* The validator bounds the amount of a coinbase from above only, and _apply *)
(* adds it whatever its sign: a negative one takes money from an account    *)
(* that signed nothing.  Lost sums up what a lost that way, transaction by  *)
(* transaction; the properties of the ledgers count it apart.               *)
Taken(tx, a) ==
  IF IsCoinbase(tx) /\ tx.recipient = a /\ tx.amount < 0 THEN -tx.amount ELSE 0

Lost(txs, a) == SumTrace([i \in 1..Len(txs) |-> Taken(txs[i], a)], Len(txs))

CoinbaseDebit(txs, a) == Lost(txs, a)[Len(txs)]

-----------------------------------------------------------------------------
(* create_candidate: the coinbase pays the reward and every selected fee.   *)
(* Transaction.is_coinbase holds of it by its sender alone; it is unsigned. *)

Coinbase(miner, txs) ==
  [sender |-> COINBASE_SENDER, recipient |-> miner,
   amount |-> BLOCK_REWARD + Sum([i \in 1..Len(txs) |-> txs[i].fee], Len(txs)),
   fee |-> 0, nonce |-> 0, signed |-> FALSE]

CandidateBody(txs, miner) == <<Coinbase(miner, txs)>> \o txs

-----------------------------------------------------------------------------
(* Chains of blocks, genesis first: the link validate_block demands, and    *)
(* the account states a chain leaves behind block after block.              *)

LinksTo_ByIndex(b, previous) == b.index = previous.index + 1

LinksTo(b, previous) ==
  b.index = previous.index + 1 /\ b.previous_hash = previous.hash

Replay(blocks) ==
  LET st[i \in 1..Len(blocks)] ==
        IF i = 1 THEN EmptyState
        ELSE ApplyBlock(st[i-1], blocks[i].transactions)
  IN st

(* A fresh ledger fed with the blocks finds every link and every            *)
(* transaction in order.                                                    *)
Replayable(blocks) ==
  \A i \in 2..Len(blocks) :
    /\ LinksTo(blocks[i], blocks[i-1])
    /\ ValidTransactions(Replay(blocks)[i-1], blocks[i].transactions)

=============================================================================
